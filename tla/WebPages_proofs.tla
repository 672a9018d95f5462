---------------------------- MODULE WebPages_proofs ----------------------------
(***************************************************************************)
(* Proofs about the pages of the console.  A behaviour of WebPages is the  *)
(* life of one page, so an invariant of a page is proved from its own      *)
(* actions, and the first two lemmas carry it to WebPages.                 *)
(***************************************************************************)
EXTENDS WebPages, FiniteSetTheorems, TLAPS

Still == UNCHANGED <<ui, calls, db, clicks>>

\* What is mounted is one of the pages, in the state it starts from.
LEMMA Mounts ==
    ASSUME Init
    PROVE  /\ page = "tokens" => TokenList!Init
           /\ page = "security" => Security!Init
           /\ page = "dashboard" => Dashboard!Init
           /\ page = "settings" => Overview!Init
           /\ page = "forms" => Forms!Init
           /\ page = "session" => Session!Init
           /\ page = "register" => Register!Init
           /\ page = "toasts" => Notices!Init
           /\ page = "shell" => Console!Init
           /\ page = "language" => Language!Init
           /\ page = "countdown" => Interstitial!Init
           /\ page = "stats" => Stats!Init
           /\ page = "links" => LinkList!Init
           /\ page = "editLink" => EditLink!Init
           /\ page = "audit" => Audit!Init
           /\ page = "newLink" => NewLink!Init
           /\ page = "users" => UserList!Init
           /\ page = "roles" => RoleList!Init
           /\ page = "providers" => ProviderList!Init
BY DEF Init

\* A step is a step of the page that is open, which stays the same.
LEMMA Steps ==
    ASSUME [Next]_vars
    PROVE  /\ page' = page
           /\ page = "tokens" => TokenList!Next \/ Still
           /\ page = "security" => Security!Next \/ Still
           /\ page = "dashboard" => Dashboard!Next \/ Still
           /\ page = "settings" => Overview!Next \/ Still
           /\ page = "forms" => Forms!Next \/ Still
           /\ page = "session" => Session!Next \/ Still
           /\ page = "register" => Register!Next \/ Still
           /\ page = "toasts" => Notices!Next \/ Still
           /\ page = "shell" => Console!Next \/ Still
           /\ page = "language" => Language!Next \/ Still
           /\ page = "countdown" => Interstitial!Next \/ Still
           /\ page = "stats" => Stats!Next \/ Still
           /\ page = "links" => LinkList!Next \/ Still
           /\ page = "editLink" => EditLink!Next \/ Still
           /\ page = "audit" => Audit!Next \/ Still
           /\ page = "newLink" => NewLink!Next \/ Still
           /\ page = "users" => UserList!Next \/ Still
           /\ page = "roles" => RoleList!Next \/ Still
           /\ page = "providers" => ProviderList!Next \/ Still
BY DEF Still, vars, Next, AuditStep, LinkListStep, NewLinkStep, EditLinkStep, UserListStep, RoleListStep,
       TokenListStep, SecurityStep, DashboardStep, OverviewStep, FormsStep, ProviderListStep,
       SessionStep, RegisterStep, NoticesStep, ConsoleStep, LanguageStep, InterstitialStep, StatsStep

-----------------------------------------------------------------------------
(* The calls in flight.  Each page's are a sequence over a set of calls;   *)
(* an answer handed over leaves the rest, and one the API sends stays with *)
(* its call.                                                               *)

Without(s, i) == SubSeq(s, 1, i - 1) \o SubSeq(s, i + 1, Len(s))

LEMMA WithoutOne ==
    ASSUME NEW S, NEW s \in Seq(S), NEW i \in DOMAIN s
    PROVE  /\ Without(s, i) \in Seq(S)
           /\ Len(Without(s, i)) = Len(s) - 1
           /\ \A j \in 1 .. Len(s) - 1 : j < i => Without(s, i)[j] = s[j]
           /\ \A j \in 1 .. Len(s) - 1 : j >= i => Without(s, i)[j] = s[j + 1]
<1> DEFINE a == SubSeq(s, 1, i - 1)
           b == SubSeq(s, i + 1, Len(s))
<1>1. Len(s) \in Nat /\ i \in 1 .. Len(s)
  OBVIOUS
<1>2. a \in Seq(S) /\ Len(a) = i - 1 /\ \A j \in 1 .. i - 1 : a[j] = s[j]
  BY <1>1
<1>3. /\ b \in Seq(S) /\ Len(b) = Len(s) - i
      /\ \A j \in 1 .. Len(s) - i : b[j] = s[j + i]
  BY <1>1
<1> HIDE DEF a, b
<1>4. /\ a \o b \in Seq(S) /\ Len(a \o b) = Len(s) - 1
      /\ \A j \in 1 .. Len(s) - 1 : j <= i - 1 => (a \o b)[j] = a[j]
      /\ \A j \in 1 .. Len(s) - 1 : j > i - 1 => (a \o b)[j] = b[j - (i - 1)]
  BY <1>1, <1>2, <1>3
<1>5. ASSUME NEW j \in 1 .. Len(s) - 1, j < i
      PROVE  (a \o b)[j] = s[j]
  BY <1>1, <1>2, <1>4, <1>5
<1>6. ASSUME NEW j \in 1 .. Len(s) - 1, j >= i
      PROVE  (a \o b)[j] = s[j + 1]
  <2>1. j - (i - 1) \in 1 .. Len(s) - i /\ (j - (i - 1)) + i = j + 1 /\ j > i - 1
    BY <1>1, <1>6
  <2>2. (a \o b)[j] = b[j - (i - 1)]
    BY <1>4, <2>1
  <2>3. b[j - (i - 1)] = s[(j - (i - 1)) + i]
    BY <1>3, <2>1
  <2> QED
    BY <2>1, <2>2, <2>3
<1> QED
  BY <1>4, <1>5, <1>6 DEF Without, a, b

\* Each element that is left is one of the old ones, and each old one but that
\* at i is left, once.
LEMMA WithoutOld ==
    ASSUME NEW S, NEW s \in Seq(S), NEW i \in DOMAIN s
    PROVE  \E f \in [DOMAIN Without(s, i) -> DOMAIN s \ {i}] :
              /\ \A j \in DOMAIN Without(s, i) : Without(s, i)[j] = s[f[j]]
              /\ \A j, k \in DOMAIN Without(s, i) : f[j] = f[k] => j = k
              /\ \A k \in DOMAIN s \ {i} : \E j \in DOMAIN Without(s, i) : f[j] = k
<1> DEFINE t == Without(s, i)
           f == [j \in DOMAIN t |-> IF j < i THEN j ELSE j + 1]
<1>1. Len(s) \in Nat /\ i \in 1 .. Len(s) /\ DOMAIN s = 1 .. Len(s)
  OBVIOUS
<1>2. t \in Seq(S) /\ Len(t) = Len(s) - 1
  BY WithoutOne
<1>3. DOMAIN t = 1 .. Len(s) - 1
  BY <1>1, <1>2
<1>4. f \in [DOMAIN t -> DOMAIN s \ {i}]
  BY <1>1, <1>3
<1>5. ASSUME NEW j \in DOMAIN t PROVE t[j] = s[f[j]]
  <2>1. CASE j < i
    <3>1. j \in 1 .. Len(s) - 1 /\ f[j] = j
      BY <1>1, <1>3, <2>1
    <3>2. t[j] = s[j]
      BY <2>1, <3>1, WithoutOne, Zenon DEF t
    <3> QED
      BY <3>1, <3>2, Zenon
  <2>2. CASE j >= i
    <3>1. j \in 1 .. Len(s) - 1 /\ f[j] = j + 1
      BY <1>1, <1>3, <2>2
    <3>2. t[j] = s[j + 1]
      BY <2>2, <3>1, WithoutOne, Zenon DEF t
    <3> QED
      BY <3>1, <3>2, Zenon
  <2> QED
    BY <1>1, <1>3, <2>1, <2>2
<1>6. ASSUME NEW j \in DOMAIN t, NEW k \in DOMAIN t, f[j] = f[k] PROVE j = k
  BY <1>1, <1>3, <1>6
<1>7. ASSUME NEW k \in DOMAIN s \ {i} PROVE \E j \in DOMAIN t : f[j] = k
  <2>1. CASE k < i
    <3>1. k \in DOMAIN t /\ f[k] = k
      BY <1>1, <1>3, <2>1
    <3> QED
      BY <3>1
  <2>2. CASE k > i
    <3>1. k - 1 \in DOMAIN t /\ f[k - 1] = k
      BY <1>1, <1>3, <2>2
    <3> QED
      BY <3>1
  <2> QED
    BY <1>1, <2>1, <2>2
<1> HIDE DEF t, f
<1> QED
  BY <1>4, <1>5, <1>6, <1>7 DEF t

\* What request() may return, when what it resolves to is in data; and the calls
\* of one operation, sent or served.
Codes == {"pending", "network", "forbidden", "not_found", "invalid", "refused", "conflict", "self",
          "unavailable", "captcha_invalid", "registration_disabled", "username_taken", "401", "csrf_invalid"}
Answered(data) == [ok : {TRUE}, data : data] \cup [ok : {FALSE}, code : Codes]

Sent(op, args, thens) ==
    [op : {op}, arg : args, then : thens, st : {"sent"}, res : [ok : {FALSE}, code : Codes]]
Served(op, args, thens, answers) ==
    [op : {op}, arg : args, then : thens, st : {"served"}, res : answers]
CallsOf(op, args, thens, answers) == Sent(op, args, thens) \cup Served(op, args, thens, answers)

LEMMA CallSent ==
    ASSUME NEW op, NEW args, NEW thens, NEW answers, NEW arg \in args, NEW then \in thens
    PROVE  [op |-> op, arg |-> arg, then |-> then, st |-> "sent",
            res |-> [ok |-> FALSE, code |-> "pending"]] \in CallsOf(op, args, thens, answers)
<1> DEFINE res == [ok |-> FALSE, code |-> "pending"]
<1>1. res \in [ok : {FALSE}, code : Codes]
  BY DEF Codes
<1> HIDE DEF res
<1>2. [op |-> op, arg |-> arg, then |-> then, st |-> "sent", res |-> res] \in Sent(op, args, thens)
  BY <1>1 DEF Sent
<1> QED
  BY <1>2 DEF CallsOf, res

LEMMA CallHas ==
    ASSUME NEW op, NEW args, NEW thens, NEW answers, NEW c \in CallsOf(op, args, thens, answers)
    PROVE  /\ c.op = op /\ c.arg \in args /\ c.then \in thens
           /\ c.st = "served" => c.res \in answers
BY DEF CallsOf, Sent, Served

LEMMA AnswerHas ==
    ASSUME NEW data, NEW a \in Answered(data)
    PROVE  a.ok \in BOOLEAN /\ (a.ok = TRUE => a.data \in data)
BY DEF Answered

LEMMA AnswerIs ==
    ASSUME NEW data
    PROVE  /\ \A d \in data : [ok |-> TRUE, data |-> d] \in Answered(data)
           /\ \A c \in Codes : [ok |-> FALSE, code |-> c] \in Answered(data)
BY DEF Answered

LEMMA CallServed ==
    ASSUME NEW op, NEW args, NEW thens, NEW answers, NEW c \in CallsOf(op, args, thens, answers),
           NEW res \in answers
    PROVE  [c EXCEPT !.st = "served", !.res = res] \in CallsOf(op, args, thens, answers)
<1>1. CASE c \in Sent(op, args, thens)
  BY <1>1 DEF CallsOf, Sent, Served
<1>2. CASE c \in Served(op, args, thens, answers)
  BY <1>2 DEF CallsOf, Sent, Served
<1> QED
  BY <1>1, <1>2 DEF CallsOf

LEMMA ServeOne ==
    ASSUME NEW S, NEW s \in Seq(S), NEW i \in DOMAIN s, NEW res,
           [s[i] EXCEPT !.st = "served", !.res = res] \in S
    PROVE  LET t == [s EXCEPT ![i].st = "served", ![i].res = res]
           IN  /\ t \in Seq(S) /\ Len(t) = Len(s)
               /\ t[i] = [s[i] EXCEPT !.st = "served", !.res = res]
               /\ \A j \in DOMAIN s : j # i => t[j] = s[j]
<1> DEFINE c == [s[i] EXCEPT !.st = "served", !.res = res]
           t == [s EXCEPT ![i] = c]
<1>1. [s EXCEPT ![i].st = "served", ![i].res = res] = t
  OBVIOUS
<1> HIDE DEF c
<1>2. t \in Seq(S) /\ Len(t) = Len(s) /\ t[i] = c /\ \A j \in DOMAIN s : j # i => t[j] = s[j]
  BY DEF c
<1> QED
  BY <1>1, <1>2 DEF c

\* The calls s when the API has answered call i.
Answer(s, i, res) == [s EXCEPT ![i].st = "served", ![i].res = res]

LEMMA ServeKeeps ==
    ASSUME NEW op, NEW args, NEW thens, NEW answers, NEW S, CallsOf(op, args, thens, answers) \subseteq S,
           NEW s \in Seq(S), NEW i \in DOMAIN s, s[i] \in CallsOf(op, args, thens, answers),
           NEW res \in answers
    PROVE  Answer(s, i, res) \in Seq(S)
<1>1. [s[i] EXCEPT !.st = "served", !.res = res] \in S
  BY CallServed
<1> QED
  BY <1>1, ServeOne DEF Answer

-----------------------------------------------------------------------------
(* Calls of a kind, given as a set of calls: none of them is in flight, one*)
(* at most, or some.                                                       *)
NoneOf(K, s) == \A k \in DOMAIN s : s[k] \notin K
SomeOf(K, s) == \E k \in DOMAIN s : s[k] \in K
OneOf(K, s) == \A j, k \in DOMAIN s : s[j] \in K /\ s[k] \in K => j = k

LEMMA NoneIsOne == ASSUME NEW K, NEW s, NoneOf(K, s) PROVE OneOf(K, s)
BY DEF NoneOf, OneOf

\* What is left of them when one answer is handed over: nothing, if it was theirs.
LEMMA RestOf ==
    ASSUME NEW S, NEW s \in Seq(S), NEW i \in DOMAIN s, NEW K
    PROVE  /\ NoneOf(K, s) => NoneOf(K, Without(s, i))
           /\ OneOf(K, s) => OneOf(K, Without(s, i))
           /\ OneOf(K, s) /\ s[i] \in K => NoneOf(K, Without(s, i))
           /\ SomeOf(K, s) /\ s[i] \notin K => SomeOf(K, Without(s, i))
<1>1. PICK f \in [DOMAIN Without(s, i) -> DOMAIN s \ {i}] :
          /\ \A j \in DOMAIN Without(s, i) : Without(s, i)[j] = s[f[j]]
          /\ \A j, k \in DOMAIN Without(s, i) : f[j] = f[k] => j = k
          /\ \A k \in DOMAIN s \ {i} : \E j \in DOMAIN Without(s, i) : f[j] = k
  BY WithoutOld
<1> QED
  BY <1>1 DEF NoneOf, OneOf, SomeOf

LEMMA AppendOf ==
    ASSUME NEW S, NEW s \in Seq(S), NEW c, NEW K
    PROVE  /\ NoneOf(K, s) /\ c \notin K => NoneOf(K, Append(s, c))
           /\ OneOf(K, s) /\ c \notin K => OneOf(K, Append(s, c))
           /\ NoneOf(K, s) => OneOf(K, Append(s, c))
           /\ SomeOf(K, s) \/ c \in K => SomeOf(K, Append(s, c))
<1> DEFINE t == Append(s, c)
<1>1. /\ Len(s) \in Nat /\ DOMAIN s = 1 .. Len(s) /\ DOMAIN t = 1 .. Len(s) + 1
      /\ t[Len(s) + 1] = c /\ \A k \in 1 .. Len(s) : t[k] = s[k]
  OBVIOUS
<1> HIDE DEF t
<1>2. \A k \in DOMAIN t : k \in DOMAIN s \/ k = Len(s) + 1
  BY <1>1
<1> QED
  BY <1>1, <1>2 DEF NoneOf, OneOf, SomeOf, t

\* An answer the API sends makes no call of a kind.
LEMMA AnswerOf ==
    ASSUME NEW S, NEW s \in Seq(S), NEW i \in DOMAIN s, NEW res, NEW K,
           [s[i] EXCEPT !.st = "served", !.res = res] \in S,
           [s[i] EXCEPT !.st = "served", !.res = res] \in K => s[i] \in K
    PROVE  /\ NoneOf(K, s) => NoneOf(K, Answer(s, i, res))
           /\ OneOf(K, s) => OneOf(K, Answer(s, i, res))
           /\ SomeOf(K, s) /\ s[i] \notin K => SomeOf(K, Answer(s, i, res))
<1> DEFINE t == Answer(s, i, res)
<1>1. /\ t \in Seq(S) /\ Len(t) = Len(s)
      /\ t[i] = [s[i] EXCEPT !.st = "served", !.res = res]
      /\ \A j \in DOMAIN s : j # i => t[j] = s[j]
  BY ServeOne DEF Answer
<1> HIDE DEF t
<1>2. DOMAIN t = DOMAIN s
  BY <1>1
<1>3. \A k \in DOMAIN s : t[k] \in K => s[k] \in K
  BY <1>1
<1> QED
  BY <1>1, <1>2, <1>3 DEF NoneOf, OneOf, SomeOf, t

-----------------------------------------------------------------------------
(* The dashboard, for every database: between two loads an error is shown, *)
(* or the numbers and the links are there, and the probe has answered.     *)
Verdicts == {"ready", "degraded", "unreachable"}
Reports == [summary : BOOLEAN, page : BOOLEAN, probe : Verdicts]
Reported == [ok : {TRUE}, data : Reports]
DashboardCalls == CallsOf("load", {[n |-> 0]}, {Dashboard!Effect}, Reported)

DashboardUi ==
    [stats : BOOLEAN, links : BOOLEAN, readiness : Verdicts \cup {""}, error : BOOLEAN, loading : BOOLEAN]

Loaded(u) == (u.error = TRUE \/ (u.stats = TRUE /\ u.links = TRUE)) /\ u.readiness # ""

DashboardInv ==
    /\ ui \in DashboardUi
    /\ db \in BOOLEAN
    /\ calls \in Seq(DashboardCalls)
    /\ ui.loading = FALSE => Loaded(ui)

LEMMA LoadSent == Dashboard!Get("load", Dashboard!Effect) \in DashboardCalls
BY CallSent DEF Dashboard!Get, Dashboard!Call, Dashboard!Refused, DashboardCalls

LEMMA DashboardInit == ASSUME Dashboard!Init PROVE DashboardInv
<1>1. calls = <<Dashboard!Get("load", Dashboard!Effect)>> /\ ui = Dashboard!Mounted /\ db \in BOOLEAN
  BY DEF Dashboard!Init
<1>2. calls \in Seq(DashboardCalls)
  BY <1>1, LoadSent
<1>3. ui \in DashboardUi /\ ui.loading = TRUE
  BY <1>1 DEF DashboardUi, Dashboard!Mounted
<1> QED
  BY <1>1, <1>2, <1>3 DEF DashboardInv

LEMMA DashboardServe ==
    ASSUME DashboardInv, NEW i \in DOMAIN calls, Dashboard!Serve(i) PROVE DashboardInv'
<1> DEFINE verdict == IF db THEN "ready" ELSE "degraded"
<1>1. PICK s \in BOOLEAN, p \in BOOLEAN :
          calls' = Dashboard!Served(i, Dashboard!Ok([summary |-> s, page |-> p, probe |-> verdict]))
  BY DEF Dashboard!Serve
<1>2. verdict \in Verdicts
  BY DEF Verdicts
<1> HIDE DEF verdict
<1> DEFINE data == [summary |-> s, page |-> p, probe |-> verdict]
<1>3. data \in Reports
  BY <1>2 DEF Reports
<1> HIDE DEF data
<1>4. Dashboard!Ok(data) \in Reported
  BY <1>3 DEF Dashboard!Ok, Reported
<1>5. calls \in Seq(DashboardCalls)
  BY DEF DashboardInv
<1>8. calls[i] \in DashboardCalls
  BY <1>5
<1>6. calls' = Answer(calls, i, Dashboard!Ok(data))
  BY <1>1, Zenon DEF Dashboard!Served, Answer, data
<1>7. calls' \in Seq(DashboardCalls)
  BY <1>4, <1>5, <1>6, <1>8, ServeKeeps, Zenon DEF DashboardCalls
<1> QED
  BY <1>7 DEF DashboardInv, Dashboard!Serve

\* A report of which some answers are lost is a report.
LEMMA PartlyIs == ASSUME NEW d \in Reports, NEW a \in Dashboard!Partly(d) PROVE a \in Reports
<1>1. PICK s \in {FALSE, d.summary}, p \in {FALSE, d.page}, v \in {"unreachable", d.probe} :
          a = [summary |-> s, page |-> p, probe |-> v]
  BY DEF Dashboard!Partly
<1>2. d.summary \in BOOLEAN /\ d.page \in BOOLEAN /\ d.probe \in Verdicts
  BY DEF Reports
<1>3. s \in BOOLEAN /\ p \in BOOLEAN /\ v \in Verdicts
  BY <1>2 DEF Verdicts
<1> QED
  BY <1>1, <1>3 DEF Reports

LEMMA DashboardDeliver ==
    ASSUME DashboardInv, NEW i \in DOMAIN calls, Dashboard!Deliver(i) PROVE DashboardInv'
<1>1. calls \in Seq(DashboardCalls) /\ ui \in DashboardUi
  BY DEF DashboardInv
<1>2. calls[i].st = "served" => calls[i].res \in Reported
  <2>1. calls[i] \in DashboardCalls
    BY <1>1
  <2> QED
    BY <2>1, CallHas, Zenon DEF DashboardCalls
<1>3. PICK a \in {Dashboard!Broken} \cup
                  (IF calls[i].st = "served" THEN Dashboard!Partly(calls[i].res.data) ELSE {}) :
          ui' = Dashboard!Settled(a) /\ calls' = Dashboard!Rest(i)
  BY DEF Dashboard!Deliver, Dashboard!Show
<1>4. a \in Reports
  <2>1. CASE a = Dashboard!Broken
    BY <2>1 DEF Dashboard!Broken, Verdicts, Reports
  <2>2. CASE calls[i].st = "served" /\ a \in Dashboard!Partly(calls[i].res.data)
    <3> DEFINE d == calls[i].res.data
    <3>1. d \in Reports
      BY <1>2, <2>2 DEF Reported
    <3>2. a \in Dashboard!Partly(d)
      BY <2>2 DEF d
    <3> HIDE DEF d
    <3> QED
      BY <3>1, <3>2, PartlyIs, Zenon
  <2> QED
    BY <1>3, <2>1, <2>2
<1>5. ui' \in DashboardUi /\ Loaded(ui')
  BY <1>1, <1>3, <1>4 DEF Dashboard!Settled, DashboardUi, Verdicts, Reports, Loaded
<1>6. calls' \in Seq(DashboardCalls)
  BY <1>1, <1>3, WithoutOne DEF Dashboard!Rest, Dashboard!Without, Without
<1> QED
  BY <1>5, <1>6 DEF DashboardInv, Dashboard!Deliver

LEMMA DashboardUserActs ==
    ASSUME DashboardInv, Dashboard!Click \/ Dashboard!Outage PROVE DashboardInv'
<1>1. CASE Dashboard!Click
  <2>1. Dashboard!Load /\ db' = db
    BY <1>1 DEF Dashboard!Click, Dashboard!Retry, Dashboard!ChangeLanguage
  <2>2. calls \in Seq(DashboardCalls) /\ ui \in DashboardUi
    BY DEF DashboardInv
  <2>3. calls' \in Seq(DashboardCalls)
    BY <2>1, <2>2, LoadSent DEF Dashboard!Load, Dashboard!Send
  <2>4. ui' \in DashboardUi /\ ui'.loading = TRUE
    BY <2>1, <2>2 DEF Dashboard!Load, Dashboard!Send, DashboardUi
  <2> QED
    BY <2>1, <2>3, <2>4 DEF DashboardInv
<1>2. CASE Dashboard!Outage
  BY <1>2 DEF Dashboard!Outage, DashboardInv
<1> QED
  BY <1>1, <1>2

LEMMA DashboardNext == ASSUME DashboardInv, Dashboard!Next \/ Still PROVE DashboardInv'
<1>1. CASE Dashboard!Next
  BY <1>1, DashboardServe, DashboardDeliver, DashboardUserActs DEF Dashboard!Next
<1>2. CASE Still
  BY <1>2 DEF Still, DashboardInv
<1> QED
  BY <1>1, <1>2

(* No zero and no "no links yet" on the dashboard for want of an answer,   *)
(* whatever fails, overlaps or breaks (home/page.tsx:69-72).               *)
THEOREM ZeroIsAnsweredAlways == Spec => []ZeroIsAnswered
<1> DEFINE I == page = "dashboard" => DashboardInv
<1>1. Init => I
  BY Mounts, DashboardInit
<1>2. I /\ [Next]_vars => I'
  BY Steps, DashboardNext
<1>3. I => ZeroIsAnswered
  <2> SUFFICES ASSUME DashboardInv PROVE Dashboard!ZeroIsAnswered
    BY DEF ZeroIsAnswered
  <2>1. ui.loading = FALSE => Loaded(ui)
    BY DEF DashboardInv
  <2>2. /\ ui.loading \in BOOLEAN /\ ui.error \in BOOLEAN /\ ui.stats \in BOOLEAN /\ ui.links \in BOOLEAN
        /\ ui.readiness \in Verdicts \cup {""}
    BY DEF DashboardInv, DashboardUi
  <2>3. CASE ui.loading = TRUE
    BY <2>3 DEF Dashboard!ZeroIsAnswered, Dashboard!Number, Dashboard!Recent, Dashboard!Verdict
  <2>4. CASE ui.loading = FALSE
    BY <2>1, <2>2, <2>4 DEF Loaded, Dashboard!ZeroIsAnswered, Dashboard!Number, Dashboard!Recent,
                            Dashboard!Verdict, Verdicts
  <2> QED
    BY <2>2, <2>3, <2>4
<1> QED
  BY <1>1, <1>2, <1>3, PTL DEF Spec

-----------------------------------------------------------------------------
(* FreshToken for every set of site keys.  The token the page holds, those *)
(* the provider has taken and those on their way to the API are tokens     *)
(* that were handed out; one registration is under way at most, and then   *)
(* the page says so; so a token that was taken is held only while its      *)
(* registration is under way.                                              *)
Settings == Register!Offers
RegisterUi ==
    [captcha : Settings, captchaError : BOOLEAN, captchaLoading : BOOLEAN, script : BOOLEAN,
     widget : SiteKeys \cup {Register!NoWidget}, token : Nat, named : BOOLEAN, error : BOOLEAN,
     loading : BOOLEAN, left : BOOLEAN]
RegisterDb == [settings : Settings, made : Nat, used : SUBSET Nat, taken : BOOLEAN]

SettingsCalls == CallsOf("settings", {[n |-> 0]}, {Register!Effect}, Answered(Settings))
RegisterCalls == CallsOf("register", [token : Nat], {Register!Effect}, Answered({[n |-> 0]}))
SignUpCalls == SettingsCalls \cup RegisterCalls

\* Registrations with a token nobody has handed out.
Forged(made) == {c \in RegisterCalls : ~(c.arg.token <= made)}

HandedOut(token, d) == token <= d.made /\ \A x \in d.used : 1 <= x /\ x <= d.made

RegisterInv ==
    /\ ui \in RegisterUi /\ db \in RegisterDb /\ calls \in Seq(SignUpCalls)
    /\ HandedOut(ui.token, db)
    /\ NoneOf(Forged(db.made), calls)
    /\ OneOf(RegisterCalls, calls)
    /\ ui.loading = FALSE => NoneOf(RegisterCalls, calls)
    /\ ui.token \in db.used => ui.loading = TRUE

LEMMA SignUpKinds ==
    ASSUME NEW c \in SignUpCalls
    PROVE  /\ c.op = "register" => c \in RegisterCalls
           /\ c.op = "settings" => c \in SettingsCalls
           /\ c \in RegisterCalls => c.op = "register"
           /\ c \in SettingsCalls => c.op = "settings"
BY CallHas DEF SignUpCalls, RegisterCalls, SettingsCalls

LEMMA RegisterIs ==
    ASSUME NEW c \in RegisterCalls
    PROVE  c.arg \in [token : Nat] /\ c.arg.token \in Nat
<1> DEFINE args == [token : Nat]
           answers == Answered({[n |-> 0]})
<1>1. c \in CallsOf("register", args, {Register!Effect}, answers)
  BY Zenon DEF RegisterCalls
<1> HIDE DEF args, answers
<1>2. c.arg \in args
  BY <1>1, CallHas, Zenon
<1> QED
  BY <1>2 DEF args

LEMMA SettingsSent == Register!Get("settings", Register!Effect) \in SettingsCalls
BY CallSent DEF Register!Get, Register!Call, Register!Refused, SettingsCalls

LEMMA OfferHas == ASSUME NEW s \in Settings PROVE s.key \in SiteKeys \cup {Register!NoWidget}
<1>1. CASE \E o \in BOOLEAN : s = [enabled |-> FALSE, open |-> o, key |-> Register!NoWidget]
  BY <1>1
<1>2. CASE s \in [enabled : {TRUE}, open : BOOLEAN, key : SiteKeys]
  BY <1>2
<1> QED
  BY <1>1, <1>2, Zenon DEF Settings, Register!Offers

LEMMA UnknownIsOffered == Register!Unknown \in Settings
BY DEF Settings, Register!Offers, Register!Unknown

LEMMA RegisterInit == ASSUME Register!Init PROVE RegisterInv
<1>1. /\ calls = <<Register!Get("settings", Register!Effect)>> /\ ui = Register!Mounted
      /\ db \in [settings : Register!Offers, made : {0}, used : {{}}, taken : BOOLEAN]
  BY DEF Register!Init
<1>2. Register!Unknown \in Settings
  BY UnknownIsOffered
<1>3. db \in RegisterDb /\ db.made = 0 /\ db.used = {}
  BY <1>1 DEF RegisterDb, Settings
<1>4. ui \in RegisterUi /\ ui.token = 0
  BY <1>1, <1>2 DEF Register!Mounted, Register!NoToken, RegisterUi
<1>5. Register!Get("settings", Register!Effect) \in SignUpCalls \ RegisterCalls
  BY SettingsSent, SignUpKinds DEF SignUpCalls, Register!Get, Register!Call
<1>6. calls \in Seq(SignUpCalls) /\ NoneOf(RegisterCalls, calls)
  BY <1>1, <1>5 DEF NoneOf
<1>7. NoneOf(Forged(db.made), calls)
  BY <1>6 DEF NoneOf, Forged
<1> QED
  BY <1>3, <1>4, <1>6, <1>7, NoneIsOne DEF RegisterInv, HandedOut

\* The API answers call i with res, and may have taken its token.
LEMMA RegisterServe ==
    ASSUME RegisterInv, NEW i \in DOMAIN calls, Register!Serve(i) PROVE RegisterInv'
<1>1. calls \in Seq(SignUpCalls) /\ ui \in RegisterUi /\ db \in RegisterDb /\ ui' = ui
  BY DEF RegisterInv, Register!Serve
<1>2. calls[i] \in SignUpCalls
  BY <1>1
<1>3. ASSUME NEW res, calls' = Answer(calls, i, res),
             [calls[i] EXCEPT !.st = "served", !.res = res] \in SignUpCalls
      PROVE  /\ calls' \in Seq(SignUpCalls)
             /\ NoneOf(Forged(db.made), calls')
             /\ OneOf(RegisterCalls, calls')
             /\ ui.loading = FALSE => NoneOf(RegisterCalls, calls')
  <2> DEFINE c == [calls[i] EXCEPT !.st = "served", !.res = res]
  <2>1. c.op = calls[i].op /\ c.arg = calls[i].arg
    BY <1>2 DEF SignUpCalls, SettingsCalls, RegisterCalls, CallsOf, Sent, Served
  <2> HIDE DEF c
  <2>2. c \in RegisterCalls => calls[i] \in RegisterCalls
    BY <1>2, <1>3, <2>1, SignUpKinds DEF c
  <2>3. c \in Forged(db.made) => calls[i] \in Forged(db.made)
    BY <2>1, <2>2 DEF Forged
  <2>4. calls' \in Seq(SignUpCalls)
    BY <1>1, <1>3, ServeOne DEF Answer
  <2>5. /\ NoneOf(Forged(db.made), calls) => NoneOf(Forged(db.made), calls')
        /\ OneOf(RegisterCalls, calls) => OneOf(RegisterCalls, calls')
        /\ NoneOf(RegisterCalls, calls) => NoneOf(RegisterCalls, calls')
    BY <1>1, <1>3, <2>2, <2>3, AnswerOf DEF c
  <2> QED
    BY <2>4, <2>5 DEF RegisterInv
<1>4. CASE Register!ServeSettings(i)
  <2>1. /\ calls[i] \in SettingsCalls /\ db' = db
        /\ calls' = Answer(calls, i, Register!Ok(db.settings))
    BY <1>2, <1>4, SignUpKinds, Zenon DEF Register!ServeSettings, Register!Served, Answer
  <2>2. Register!Ok(db.settings) \in Answered(Settings)
    BY <1>1, AnswerIs DEF RegisterDb, Register!Ok
  <2>3. [calls[i] EXCEPT !.st = "served", !.res = Register!Ok(db.settings)] \in SignUpCalls
    BY <2>1, <2>2, CallServed DEF SettingsCalls, SignUpCalls
  <2> QED
    BY <1>1, <1>3, <2>1, <2>3 DEF RegisterInv
<1>5. CASE Register!ServeRegister(i)
  <2>1. calls[i] \in RegisterCalls
    BY <1>2, <1>5, SignUpKinds DEF Register!ServeRegister
  <2>2. calls[i].arg \in [token : Nat]
    BY <2>1, RegisterIs, Zenon
  <2> DEFINE token == calls[i].arg.token
  <2>3. token \in Nat /\ token <= db.made
    BY <2>1, <2>2 DEF RegisterInv, NoneOf, Forged
  <2> HIDE DEF token
  <2>4. PICK res \in Answered({[n |-> 0]}) : calls' = Register!Served(i, res)
    BY <1>5, AnswerIs DEF Register!ServeRegister, Register!Refused, Register!Ok, Codes
  <2>5. [calls[i] EXCEPT !.st = "served", !.res = res] \in SignUpCalls
    BY <2>1, CallServed DEF RegisterCalls, SignUpCalls
  <2>6. calls' = Answer(calls, i, res)
    BY <2>4, Zenon DEF Register!Served, Answer
  <2>7. ui.loading = TRUE
    BY <1>1, <2>1 DEF RegisterInv, NoneOf, RegisterUi
  <2>8. /\ db' \in RegisterDb /\ db'.made = db.made
        /\ db'.used \subseteq db.used \cup ({token} \ {0})
    <3>1. PICK used \in {db.used \cup ({token} \ {0}), db.used}, taken \in BOOLEAN :
              db' = db \/ db' = [db EXCEPT !.used = used, !.taken = @ \/ taken]
      BY <1>5 DEF Register!ServeRegister, Register!NoToken, token
    <3>2. used \in SUBSET Nat /\ (db.taken \/ taken) \in BOOLEAN
      BY <1>1, <2>3 DEF RegisterDb
    <3> QED
      BY <1>1, <3>1, <3>2 DEF RegisterDb
  <2>9. HandedOut(ui.token, db')
    BY <1>1, <2>3, <2>8 DEF RegisterInv, HandedOut, RegisterDb
  <2> QED
    BY <1>1, <1>3, <2>5, <2>6, <2>7, <2>8, <2>9 DEF RegisterInv
<1> QED
  BY <1>4, <1>5 DEF Register!Serve


LEMMA SettleKeeps ==
    ASSUME NEW u \in RegisterUi
    PROVE  /\ Register!Settle(u) \in RegisterUi
           /\ Register!Settle(u).loading = u.loading
           /\ Register!Settle(u).token \in {u.token, 0}
<1>1. Register!Wanted(u) \in SiteKeys \cup {Register!NoWidget}
  BY OfferHas DEF Register!Wanted, RegisterUi
<1> QED
  BY <1>1 DEF Register!Settle, Register!NoToken, RegisterUi

\* What leaves the calls and the database alone, and holds the same token or none.
LEMMA PageKeeps ==
    ASSUME RegisterInv, ui' \in RegisterUi, ui'.loading = ui.loading, ui'.token \in {ui.token, 0},
           db' = db,
           calls' = calls \/ \E i \in DOMAIN calls : calls' = Without(calls, i)
    PROVE  RegisterInv'
<1>1. /\ calls \in Seq(SignUpCalls) /\ db \in RegisterDb
      /\ NoneOf(Forged(db.made), calls) /\ OneOf(RegisterCalls, calls)
      /\ ui.loading = FALSE => NoneOf(RegisterCalls, calls)
  BY DEF RegisterInv
<1>2. CASE calls' = calls
  BY <1>1, <1>2
     DEF RegisterInv, HandedOut, RegisterDb
<1>3. CASE \E i \in DOMAIN calls : calls' = Without(calls, i)
  <2>1. /\ calls' \in Seq(SignUpCalls)
        /\ NoneOf(Forged(db.made), calls') /\ OneOf(RegisterCalls, calls')
        /\ ui.loading = FALSE => NoneOf(RegisterCalls, calls')
    BY <1>1, <1>3, WithoutOne, RestOf
  <2> QED
    BY <1>1, <2>1 DEF RegisterInv, HandedOut, RegisterDb
<1> QED
  BY <1>2, <1>3

LEMMA RegisterDeliver ==
    ASSUME RegisterInv, NEW i \in DOMAIN calls, Register!Deliver(i) PROVE RegisterInv'
<1>1. /\ calls \in Seq(SignUpCalls) /\ ui \in RegisterUi /\ db \in RegisterDb /\ db' = db
      /\ HandedOut(ui.token, db)
  BY DEF RegisterInv, Register!Deliver
<1>2. calls[i] \in SignUpCalls
  BY <1>1
<1>3. Register!Rest(i) = Without(calls, i)
  BY DEF Register!Rest, Register!Without, Without
<1>4. CASE Register!DeliverSettings(i)
  <2>1. calls[i] \in SettingsCalls
    BY <1>2, <1>4, SignUpKinds DEF Register!DeliverSettings
  <2>2. calls[i].st = "served" => calls[i].res \in Answered(Settings)
    BY <2>1, CallHas DEF SettingsCalls
  <2>3. PICK a \in Register!Answers(i) :
            /\ ui' = Register!Settle(IF a.ok
                                     THEN [ui EXCEPT !.captcha = a.data, !.captchaError = FALSE,
                                                     !.captchaLoading = FALSE]
                                     ELSE [ui EXCEPT !.captchaError = TRUE, !.captchaLoading = FALSE])
            /\ calls' = Without(calls, i)
    BY <1>3, <1>4 DEF Register!DeliverSettings, Register!Show
  <2>4. a \in Answered(Settings)
    BY <2>2, <2>3, AnswerIs DEF Register!Answers, Register!NetworkError, Register!Refused, Codes
  <2>5. a.ok \in BOOLEAN /\ (a.ok = TRUE => a.data \in Settings)
    BY <2>4, AnswerHas
  <2> DEFINE u == IF a.ok THEN [ui EXCEPT !.captcha = a.data, !.captchaError = FALSE,
                                          !.captchaLoading = FALSE]
                  ELSE [ui EXCEPT !.captchaError = TRUE, !.captchaLoading = FALSE]
  <2>6. u \in RegisterUi /\ u.loading = ui.loading /\ u.token = ui.token
    BY <1>1, <2>5 DEF RegisterUi
  <2> HIDE DEF u
  <2>7. /\ Register!Settle(u) \in RegisterUi /\ Register!Settle(u).loading = ui.loading
        /\ Register!Settle(u).token \in {ui.token, 0}
    BY <2>6, SettleKeeps
  <2>8. ui' = Register!Settle(u)
    BY <2>3 DEF u
  <2> QED
    BY <1>1, <2>3, <2>7, <2>8, PageKeeps
<1>5. CASE Register!DeliverRegister(i)
  <2>1. calls[i] \in RegisterCalls
    BY <1>2, <1>5, SignUpKinds DEF Register!DeliverRegister
  <2>2. \/ /\ ui' = [Register!Mounted EXCEPT !.captchaLoading = FALSE, !.left = TRUE]
           /\ calls' = <<>>
        \/ /\ ui' = [ui EXCEPT !.token = 0, !.error = TRUE, !.loading = FALSE]
           /\ calls' = Without(calls, i)
    BY <1>3, <1>5
       DEF Register!DeliverRegister, Register!Show, Register!GiveUp, Register!NoToken
  <2>3. Register!Mounted \in RegisterUi /\ Register!Mounted.token = 0 /\ Register!Mounted.loading = FALSE
    BY UnknownIsOffered DEF RegisterUi, Register!Mounted, Register!NoToken
  <2>4. ui' \in RegisterUi /\ ui'.token = 0 /\ ui'.loading = FALSE
    BY <1>1, <2>2, <2>3 DEF RegisterUi
  <2>5. OneOf(RegisterCalls, calls) /\ NoneOf(Forged(db.made), calls)
    BY DEF RegisterInv
  <2>6. /\ calls' \in Seq(SignUpCalls) /\ NoneOf(RegisterCalls, calls')
        /\ NoneOf(Forged(db.made), calls')
    <3>1. CASE calls' = <<>>
      BY <3>1 DEF NoneOf
    <3>2. CASE calls' = Without(calls, i)
      BY <1>1, <2>1, <2>5, <3>2, WithoutOne, RestOf
    <3> QED
      BY <2>2, <3>1, <3>2
  <2>7. HandedOut(0, db) /\ 0 \notin db.used
    BY <1>1 DEF HandedOut, RegisterDb
  <2> QED
    BY <1>1, <2>4, <2>6, <2>7, NoneIsOne DEF RegisterInv
<1> QED
  BY <1>4, <1>5 DEF Register!Deliver

LEMMA RegisterSubmit == ASSUME RegisterInv, Register!Submit, db' = db PROVE RegisterInv'
<1>1. calls \in Seq(SignUpCalls) /\ ui \in RegisterUi /\ db \in RegisterDb
  BY DEF RegisterInv
<1>2. ui.loading = FALSE
  BY <1>1 DEF Register!Submit, Register!CanSubmit, RegisterUi
<1> DEFINE c == Register!Call("register", [token |-> ui.token], Register!Effect)
<1>3. ui' = [ui EXCEPT !.loading = TRUE, !.error = FALSE] /\ calls' = Append(calls, c)
  BY DEF Register!Submit, Register!Send
<1>4. ui' \in RegisterUi /\ ui'.loading = TRUE /\ ui'.token = ui.token
  BY <1>1, <1>3 DEF RegisterUi
<1>5. c \in RegisterCalls /\ c.arg.token = ui.token
  <2>1. [token |-> ui.token] \in [token : Nat]
    BY <1>1 DEF RegisterUi
  <2> QED
    BY <2>1, CallSent DEF Register!Call, Register!Refused, RegisterCalls
<1>6. c \notin Forged(db.made) /\ c \in SignUpCalls
  BY <1>5 DEF RegisterInv, HandedOut, Forged, SignUpCalls
<1> HIDE DEF c
<1>7. calls' \in Seq(SignUpCalls)
  BY <1>1, <1>3, <1>6
<1>8. NoneOf(Forged(db.made), calls') /\ OneOf(RegisterCalls, calls')
  BY <1>1, <1>2, <1>3, <1>6, AppendOf DEF RegisterInv
<1> QED
  BY <1>1, <1>4, <1>7, <1>8 DEF RegisterInv

LEMMA RegisterSolve == ASSUME RegisterInv, Register!Solve PROVE RegisterInv'
<1>1. calls \in Seq(SignUpCalls) /\ ui \in RegisterUi /\ db \in RegisterDb /\ calls' = calls
  BY DEF RegisterInv, Register!Solve, Register!Set
<1>2. db.made \in Nat /\ db.used \subseteq Nat /\ \A x \in db.used : 1 <= x /\ x <= db.made
  BY <1>1 DEF RegisterDb, RegisterInv, HandedOut
<1>3. db' \in RegisterDb /\ db'.made = db.made + 1 /\ db'.used = db.used
  BY <1>1, <1>2 DEF Register!Solve, RegisterDb
<1>4. ui' \in RegisterUi /\ ui'.token = db.made + 1 /\ ui'.loading = ui.loading
  BY <1>1, <1>2 DEF Register!Solve, Register!Set, RegisterUi
<1>5. HandedOut(ui'.token, db') /\ ui'.token \notin db'.used
  BY <1>2, <1>3, <1>4 DEF HandedOut
<1>6. NoneOf(Forged(db'.made), calls')
  <2> SUFFICES ASSUME NEW k \in DOMAIN calls, calls[k] \in RegisterCalls
               PROVE  calls[k].arg.token <= db.made + 1
    BY <1>1, <1>3 DEF NoneOf, Forged
  <2>1. calls[k].arg.token <= db.made
    BY DEF RegisterInv, NoneOf, Forged
  <2>2. calls[k].arg.token \in Nat
    BY RegisterIs, Zenon
  <2> QED
    BY <1>2, <2>1, <2>2
<1> QED
  BY <1>1, <1>3, <1>4, <1>5, <1>6 DEF RegisterInv

LEMMA RegisterClick == ASSUME RegisterInv, Register!Click PROVE RegisterInv'
<1>1. calls \in Seq(SignUpCalls) /\ ui \in RegisterUi
  BY DEF RegisterInv
<1>2. CASE Register!TypeFields /\ db' = db
  <2>1. calls' = calls /\ ui' = [ui EXCEPT !.named = ~@]
    BY <1>2 DEF Register!TypeFields, Register!Set
  <2>2. ui' \in RegisterUi /\ ui'.loading = ui.loading /\ ui'.token = ui.token
    BY <1>1, <2>1 DEF RegisterUi
  <2> QED
    BY <1>2, <2>1, <2>2, PageKeeps
<1>3. CASE Register!Language /\ db' = db
  <2> DEFINE c == Register!Get("settings", Register!Effect)
  <2>1. ui' = ui /\ calls' = Append(calls, c)
    BY <1>3 DEF Register!Language, Register!Send
  <2>2. c \in SignUpCalls /\ c \notin RegisterCalls
    BY SettingsSent, SignUpKinds DEF SignUpCalls, Register!Get, Register!Call
  <2> HIDE DEF c
  <2>3. c \notin Forged(db.made)
    BY <2>2 DEF Forged
  <2>4. calls' \in Seq(SignUpCalls)
    BY <1>1, <2>1, <2>2
  <2>5. /\ NoneOf(Forged(db.made), calls) => NoneOf(Forged(db.made), calls')
        /\ OneOf(RegisterCalls, calls) => OneOf(RegisterCalls, calls')
        /\ NoneOf(RegisterCalls, calls) => NoneOf(RegisterCalls, calls')
    BY <1>1, <2>1, <2>2, <2>3, AppendOf
  <2> QED
    BY <1>3, <2>1, <2>4, <2>5 DEF RegisterInv
<1>4. CASE Register!Submit /\ db' = db
  BY <1>4, RegisterSubmit
<1>5. CASE Register!ScriptLoads
  <2> DEFINE u == [ui EXCEPT !.script = TRUE]
  <2>1. ui' = Register!Settle(u) /\ calls' = calls /\ db' = db
    BY <1>5 DEF Register!ScriptLoads, Register!Set
  <2>2. u \in RegisterUi /\ u.loading = ui.loading /\ u.token = ui.token
    BY <1>1 DEF RegisterUi
  <2> HIDE DEF u
  <2> QED
    BY <2>1, <2>2, SettleKeeps, PageKeeps
<1>6. CASE Register!Solve
  BY <1>6, RegisterSolve
<1>7. CASE Register!TokenExpires \/ Register!WidgetFails
  <2>1. /\ calls' = calls /\ db' = db
        /\ \/ ui' = [ui EXCEPT !.token = 0]
           \/ ui' = [ui EXCEPT !.token = 0, !.captchaError = TRUE]
    BY <1>7 DEF Register!TokenExpires, Register!WidgetFails, Register!Set, Register!NoToken
  <2>2. CASE ui' = [ui EXCEPT !.token = 0]
    <3>1. ui' \in RegisterUi /\ ui'.loading = ui.loading /\ ui'.token = 0
      BY <1>1, <2>2 DEF RegisterUi
    <3> QED
      BY <2>1, <3>1, PageKeeps
  <2>3. CASE ui' = [ui EXCEPT !.token = 0, !.captchaError = TRUE]
    <3>1. ui' \in RegisterUi /\ ui'.loading = ui.loading /\ ui'.token = 0
      BY <1>1, <2>3 DEF RegisterUi
    <3> QED
      BY <2>1, <3>1, PageKeeps
  <2> QED
    BY <2>1, <2>2, <2>3
<1> QED
  BY <1>2, <1>3, <1>4, <1>5, <1>6, <1>7 DEF Register!Click

LEMMA RegisterNext == ASSUME RegisterInv, Register!Next \/ Still PROVE RegisterInv'
<1>1. CASE Register!SettingsChange
  <2>1. db' \in RegisterDb /\ db'.made = db.made /\ db'.used = db.used /\ ui' = ui /\ calls' = calls
    BY <1>1 DEF Register!SettingsChange, RegisterInv, RegisterDb, Settings
  <2> QED
    BY <2>1 DEF RegisterInv, HandedOut
<1>2. CASE Still
  BY <1>2 DEF Still, RegisterInv
<1> QED
  BY <1>1, <1>2, RegisterClick, RegisterServe, RegisterDeliver DEF Register!Next

LEMMA RegisterTyped == ASSUME RegisterInv PROVE Register!TypeOK
<1>1. ui \in RegisterUi /\ db \in RegisterDb /\ HandedOut(ui.token, db)
  BY DEF RegisterInv
<1> QED
  BY <1>1 DEF Register!TypeOK, RegisterUi, RegisterDb, HandedOut, Settings

(* The page never offers for submission a token the provider has taken,    *)
(* whatever fails or is lost, however late, and whatever an administrator  *)
(* changes meanwhile (register/page.tsx:51-59).                            *)
THEOREM FreshTokenAlways == Spec => []FreshToken
<1> DEFINE I == page = "register" => RegisterInv
<1>1. Init => I
  BY Mounts, RegisterInit
<1>2. I /\ [Next]_vars => I'
  BY Steps, RegisterNext
<1>3. I => FreshToken
  <2> SUFFICES ASSUME RegisterInv PROVE Register!FreshToken
    BY DEF FreshToken
  <2>1. ui \in RegisterUi /\ (ui.token \in db.used => ui.loading = TRUE)
    BY DEF RegisterInv
  <2> QED
    BY <2>1 DEF Register!FreshToken, Register!CanSubmit
<1> QED
  BY <1>1, <1>2, <1>3, PTL DEF Spec


-----------------------------------------------------------------------------
(* The tokens.  From the click that creates one to the end of the load     *)
(* that create() waits for there is one call of that handler, and the page *)
(* says it is creating; the secret is on the screen only after its call.   *)
AfterCreate == <<"create", 0>>
TokenThens == {TokenList!Effect, AfterCreate}
MeCalls == CallsOf("me", {[n |-> 0]}, TokenThens, Answered([allowed : BOOLEAN]))
ListCalls == CallsOf("list", {[n |-> 0]}, TokenThens, Answered([tokens : SUBSET TokenIds]))
CreateCalls == CallsOf("create", {[n |-> 0]}, {TokenList!Effect}, Answered([secret : TokenIds]))
RevokeCalls == CallsOf("revoke", [id : TokenIds], {TokenList!Effect}, Answered({[n |-> 0]}))
TokenCalls == MeCalls \cup ListCalls \cup CreateCalls \cup RevokeCalls

TokensUi ==
    [allowed : {"unknown", "yes", "no"}, tokens : SUBSET TokenIds, named : BOOLEAN,
     secret : TokenIds \cup {0}, error : BOOLEAN, loadError : BOOLEAN, loading : BOOLEAN,
     creating : BOOLEAN, revoking : SUBSET TokenIds, failed : SUBSET TokenIds]
TokensDb == [live : SUBSET TokenIds, made : Nat, allowed : BOOLEAN]

\* The calls of create(), and those that bring a secret.
Creation == {c \in TokenCalls : c.op = "create" \/ c.then = AfterCreate}
Bringing == {c \in TokenCalls : c.op = "create"}

TokensInv ==
    /\ ui \in TokensUi /\ db \in TokensDb /\ calls \in Seq(TokenCalls)
    /\ db.live \subseteq 1 .. db.made /\ 1 .. db.made \subseteq TokenIds
    /\ OneOf(Creation, calls)
    /\ ui.creating = FALSE => NoneOf(Creation, calls)
    /\ ui.secret # 0 => NoneOf(Bringing, calls)

LEMMA TokenKinds ==
    ASSUME NEW c \in TokenCalls
    PROVE  /\ c.op = "me" => c \in MeCalls
           /\ c.op = "list" => c \in ListCalls
           /\ c.op = "create" => c \in CreateCalls
           /\ c.op = "revoke" => c \in RevokeCalls
           /\ c.then \in TokenThens
           /\ c.op \in {"create", "revoke"} => c.then = TokenList!Effect
<1>1. c \in MeCalls => c.op = "me" /\ c.then \in TokenThens
  BY CallHas DEF MeCalls
<1>2. c \in ListCalls => c.op = "list" /\ c.then \in TokenThens
  BY CallHas DEF ListCalls
<1>3. c \in CreateCalls => c.op = "create" /\ c.then = TokenList!Effect
  BY CallHas DEF CreateCalls
<1>4. c \in RevokeCalls => c.op = "revoke" /\ c.then = TokenList!Effect
  BY CallHas DEF RevokeCalls
<1> QED
  BY <1>1, <1>2, <1>3, <1>4 DEF TokenCalls, TokenThens

LEMMA RevokeIs == ASSUME NEW c \in RevokeCalls PROVE c.arg \in [id : TokenIds] /\ c.arg.id \in TokenIds
<1> DEFINE args == [id : TokenIds]
           answers == Answered({[n |-> 0]})
<1>1. c \in CallsOf("revoke", args, {TokenList!Effect}, answers)
  BY Zenon DEF RevokeCalls
<1> HIDE DEF args, answers
<1>2. c.arg \in args
  BY <1>1, CallHas, Zenon
<1> QED
  BY <1>2 DEF args

LEMMA EffectIsNot == TokenList!Effect # AfterCreate
BY DEF TokenList!Effect, AfterCreate

\* The calls the page sends.
LEMMA TokenSent ==
    /\ \A then \in TokenThens : /\ TokenList!Get("me", then) \in TokenCalls
                                /\ TokenList!Get("list", then) \in TokenCalls
    /\ TokenList!Get("create", TokenList!Effect) \in TokenCalls
    /\ \A id \in TokenIds : TokenList!Call("revoke", [id |-> id], TokenList!Effect) \in TokenCalls
<1>1. ASSUME NEW then \in TokenThens
      PROVE  TokenList!Get("me", then) \in MeCalls /\ TokenList!Get("list", then) \in ListCalls
  BY CallSent DEF TokenList!Get, TokenList!Call, TokenList!Refused, MeCalls, ListCalls
<1>2. TokenList!Get("create", TokenList!Effect) \in CreateCalls
  BY CallSent DEF TokenList!Get, TokenList!Call, TokenList!Refused, CreateCalls
<1>3. ASSUME NEW id \in TokenIds
      PROVE  TokenList!Call("revoke", [id |-> id], TokenList!Effect) \in RevokeCalls
  <2>1. [id |-> id] \in [id : TokenIds]
    OBVIOUS
  <2> QED
    BY <2>1, CallSent DEF TokenList!Call, TokenList!Refused, RevokeCalls
<1> QED
  BY <1>1, <1>2, <1>3 DEF TokenCalls

LEMMA TokensInit == ASSUME TokenList!Init PROVE TokensInv
<1>1. /\ db \in [live : {{}}, made : {0}, allowed : BOOLEAN] /\ ui = TokenList!Mounted
      /\ calls = <<TokenList!Get("me", TokenList!Effect)>>
  BY DEF TokenList!Init
<1>2. db \in TokensDb /\ db.live = {} /\ 1 .. db.made = {}
  BY <1>1 DEF TokensDb
<1>3. ui \in TokensUi /\ ui.secret = 0
  BY <1>1 DEF TokensUi, TokenList!Mounted, TokenList!NoSecret
<1>4. TokenList!Get("me", TokenList!Effect) \in TokenCalls
  BY TokenSent DEF TokenThens
<1>5. TokenList!Get("me", TokenList!Effect) \notin Creation
  BY EffectIsNot DEF Creation, TokenList!Get, TokenList!Call
<1>6. calls \in Seq(TokenCalls) /\ NoneOf(Creation, calls)
  BY <1>1, <1>4, <1>5 DEF NoneOf
<1> QED
  BY <1>2, <1>3, <1>6, NoneIsOne DEF TokensInv

\* The API answers call i with res.
LEMMA TokenAnswered ==
    ASSUME TokensInv, NEW i \in DOMAIN calls, NEW res, calls' = TokenList!Served(i, res),
           [calls[i] EXCEPT !.st = "served", !.res = res] \in TokenCalls
    PROVE  /\ calls' \in Seq(TokenCalls)
           /\ OneOf(Creation, calls')
           /\ ui.creating = FALSE => NoneOf(Creation, calls')
           /\ ui.secret # 0 => NoneOf(Bringing, calls')
<1> DEFINE c == [calls[i] EXCEPT !.st = "served", !.res = res]
<1>1. calls \in Seq(TokenCalls)
  BY DEF TokensInv
<1>2. calls[i] \in TokenCalls
  BY <1>1
<1>3. c.op = calls[i].op /\ c.then = calls[i].then
  BY <1>2 DEF TokenCalls, MeCalls, ListCalls, CreateCalls, RevokeCalls, CallsOf, Sent, Served
<1> HIDE DEF c
<1>4. (c \in Creation => calls[i] \in Creation) /\ (c \in Bringing => calls[i] \in Bringing)
  BY <1>2, <1>3 DEF Creation, Bringing
<1>5. calls' = Answer(calls, i, res)
  BY Zenon DEF TokenList!Served, Answer
<1>6. Answer(calls, i, res) \in Seq(TokenCalls)
  BY <1>1, ServeOne DEF Answer
<1>7. /\ OneOf(Creation, calls) => OneOf(Creation, calls')
      /\ NoneOf(Creation, calls) => NoneOf(Creation, calls')
      /\ NoneOf(Bringing, calls) => NoneOf(Bringing, calls')
  BY <1>1, <1>4, <1>5, AnswerOf DEF c
<1> QED
  BY <1>5, <1>6, <1>7 DEF TokensInv

LEMMA TokenRoom ==
    ASSUME NEW m \in Nat, 1 .. m \subseteq TokenIds
    PROVE  /\ m \in 0 .. TokenList!Cardinality(TokenIds)
           /\ m < TokenList!Cardinality(TokenIds) => 1 .. m + 1 \subseteq TokenIds
<1>1. PICK n \in Nat : TokenIds = 1 .. n
  BY TokensAssumption, FS_CardinalityType
<1>2. TokenList!Cardinality(TokenIds) = n
  <2>1. Cardinality(1 .. n) = n
    BY FS_Interval
  <2> QED
    BY <1>1, <2>1 DEF Cardinality, TokenList!Cardinality
<1>3. m <= n
  <2>1. CASE m = 0
    BY <2>1
  <2>2. CASE m # 0
    <3>1. m \in 1 .. m
      BY <2>2
    <3> QED
      BY <1>1, <3>1
  <2> QED
    BY <2>1, <2>2
<1> QED
  BY <1>1, <1>2, <1>3

LEMMA TokensServe ==
    ASSUME TokensInv, NEW i \in DOMAIN calls, TokenList!Serve(i) PROVE TokensInv'
<1>1. /\ calls \in Seq(TokenCalls) /\ ui \in TokensUi /\ db \in TokensDb /\ ui' = ui
      /\ db.live \subseteq 1 .. db.made /\ 1 .. db.made \subseteq TokenIds
  BY DEF TokensInv, TokenList!Serve
<1>2. calls[i] \in TokenCalls
  BY <1>1
<1>3. \A data : \A c \in Codes : TokenList!Refused(c) \in Answered(data)
  BY AnswerIs DEF TokenList!Refused
<1>4. "forbidden" \in Codes /\ "not_found" \in Codes
  BY DEF Codes
<1>5. CASE TokenList!ServeCreate(i)
  <2>1. calls[i] \in CreateCalls
    BY <1>2, <1>5, TokenKinds DEF TokenList!ServeCreate
  <2>2. \A res \in Answered([secret : TokenIds]) :
            [calls[i] EXCEPT !.st = "served", !.res = res] \in TokenCalls
    BY <2>1, CallServed DEF CreateCalls, TokenCalls
  <2>3. CASE db.allowed /\ db.made < TokenList!Cardinality(TokenIds)
    <3> DEFINE m == db.made + 1
               res == TokenList!Ok([secret |-> m])
    <3>1. calls' = TokenList!Served(i, res) /\ db' = [db EXCEPT !.made = m, !.live = @ \cup {m}]
      BY <1>1, <1>5, <2>3 DEF TokenList!ServeCreate, TokensDb
    <3>2. m \in Nat /\ 1 .. m \subseteq TokenIds /\ m \in 1 .. m /\ 1 .. db.made \subseteq 1 .. m
      BY <1>1, <2>3, TokenRoom DEF TokensDb
    <3> HIDE DEF m
    <3>3. res \in Answered([secret : TokenIds])
      <4>1. [secret |-> m] \in [secret : TokenIds]
        BY <3>2
      <4> QED
        BY <4>1, AnswerIs DEF TokenList!Ok
    <3>4. db' \in TokensDb /\ db'.live \subseteq 1 .. db'.made /\ 1 .. db'.made \subseteq TokenIds
      BY <1>1, <3>1, <3>2 DEF TokensDb
    <3> HIDE DEF res
    <3>5. [calls[i] EXCEPT !.st = "served", !.res = res] \in TokenCalls
      BY <2>2, <3>3
    <3> QED
      BY <1>1, <3>1, <3>4, <3>5, TokenAnswered DEF TokensInv
  <2>4. CASE ~(db.allowed /\ db.made < TokenList!Cardinality(TokenIds))
    <3> DEFINE res == TokenList!Refused("forbidden")
    <3>1. calls' = TokenList!Served(i, res) /\ db' = db
      BY <1>5, <2>4 DEF TokenList!ServeCreate
    <3>2. res \in Answered([secret : TokenIds])
      BY <1>3, <1>4
    <3> HIDE DEF res
    <3> QED
      BY <1>1, <2>2, <3>1, <3>2, TokenAnswered DEF TokensInv
  <2> QED
    BY <2>3, <2>4
<1>6. CASE TokenList!ServeRevoke(i)
  <2>1. calls[i] \in RevokeCalls
    BY <1>2, <1>6, TokenKinds DEF TokenList!ServeRevoke
  <2>2. \A res \in Answered({[n |-> 0]}) :
            [calls[i] EXCEPT !.st = "served", !.res = res] \in TokenCalls
    BY <2>1, CallServed DEF RevokeCalls, TokenCalls
  <2>3. /\ \E res \in Answered({[n |-> 0]}) : calls' = TokenList!Served(i, res)
        /\ db' = db \/ db' = [db EXCEPT !.live = @ \ {calls[i].arg.id}]
    <3>1. TokenList!Ok([n |-> 0]) \in Answered({[n |-> 0]})
      BY AnswerIs DEF TokenList!Ok
    <3> QED
      BY <1>3, <1>4, <1>6, <3>1 DEF TokenList!ServeRevoke
  <2>4. /\ db' \in TokensDb /\ db'.made = db.made /\ db'.live \subseteq db.live
    BY <1>1, <2>3 DEF TokensDb
  <2> QED
    BY <1>1, <2>2, <2>3, <2>4, TokenAnswered DEF TokensInv
<1>7. CASE TokenList!ServeRead(i)
  <2> DEFINE res == IF calls[i].op = "me" THEN TokenList!Ok([allowed |-> db.allowed])
                    ELSE IF db.allowed THEN TokenList!Ok([tokens |-> db.live])
                    ELSE TokenList!Refused("forbidden")
  <2>1. calls' = TokenList!Served(i, res) /\ db' = db
    BY <1>7 DEF TokenList!ServeRead
  <2>2. CASE calls[i].op = "me"
    <3>1. calls[i] \in MeCalls
      BY <1>2, <2>2, TokenKinds
    <3>2. [allowed |-> db.allowed] \in [allowed : BOOLEAN]
      BY <1>1 DEF TokensDb
    <3>3. res \in Answered([allowed : BOOLEAN])
      BY <2>2, <3>2, AnswerIs DEF TokenList!Ok
    <3> HIDE DEF res
    <3>4. [calls[i] EXCEPT !.st = "served", !.res = res] \in TokenCalls
      BY <3>1, <3>3, CallServed DEF MeCalls, TokenCalls
    <3> QED
      BY <1>1, <2>1, <3>4, TokenAnswered DEF TokensInv
  <2>3. CASE calls[i].op # "me"
    <3>1. calls[i] \in ListCalls
      BY <1>2, <1>7, <2>3, TokenKinds DEF TokenList!ServeRead
    <3>2. [tokens |-> db.live] \in [tokens : SUBSET TokenIds]
      BY <1>1 DEF TokensDb
    <3>3. res \in Answered([tokens : SUBSET TokenIds])
      BY <1>3, <1>4, <2>3, <3>2, AnswerIs DEF TokenList!Ok
    <3> HIDE DEF res
    <3>4. [calls[i] EXCEPT !.st = "served", !.res = res] \in TokenCalls
      BY <3>1, <3>3, CallServed DEF ListCalls, TokenCalls
    <3> QED
      BY <1>1, <2>1, <3>4, TokenAnswered DEF TokensInv
  <2> QED
    BY <2>2, <2>3
<1> QED
  BY <1>5, <1>6, <1>7 DEF TokenList!Serve


LEMMA OverKeeps ==
    ASSUME NEW u \in TokensUi, NEW then
    PROVE  /\ TokenList!Over(u, then) \in TokensUi
           /\ TokenList!Over(u, then).secret = u.secret
           /\ TokenList!Over(u, then).allowed = u.allowed
           /\ TokenList!Over(u, then).creating = IF then = TokenList!Effect THEN u.creating ELSE FALSE
BY DEF TokenList!Over, TokensUi

LEMMA TokenRest ==
    ASSUME TokensInv, NEW i \in DOMAIN calls
    PROVE  /\ TokenList!Rest(i) = Without(calls, i) /\ Without(calls, i) \in Seq(TokenCalls)
           /\ OneOf(Creation, Without(calls, i))
           /\ calls[i] \in Creation => NoneOf(Creation, Without(calls, i))
           /\ NoneOf(Creation, calls) => NoneOf(Creation, Without(calls, i))
           /\ NoneOf(Bringing, calls) => NoneOf(Bringing, Without(calls, i))
           /\ calls[i] \in Bringing => NoneOf(Bringing, Without(calls, i))
<1>1. calls \in Seq(TokenCalls) /\ OneOf(Creation, calls)
  BY DEF TokensInv
<1>2. OneOf(Bringing, calls)
  BY <1>1 DEF OneOf, Creation, Bringing
<1>3. TokenList!Rest(i) = Without(calls, i)
  BY DEF TokenList!Rest, TokenList!Without, Without
<1> QED
  BY <1>1, <1>2, <1>3, WithoutOne, RestOf

\* A load of the tokens, or create() which waits for it, is over.
LEMMA TokenLoadOver ==
    ASSUME TokensInv, NEW i \in DOMAIN calls, NEW u \in TokensUi, u.creating = ui.creating,
           u.secret \in {ui.secret, 0}, ui' = TokenList!Over(u, calls[i].then),
           calls' = Without(calls, i), db' = db
    PROVE  TokensInv'
<1>1. calls[i] \in TokenCalls
  BY DEF TokensInv
<1>2. calls[i].then = TokenList!Effect \/ calls[i] \in Creation
  BY <1>1, TokenKinds DEF TokenThens, Creation
<1>3. ui' \in TokensUi /\ ui'.secret = u.secret
      /\ ui'.creating = IF calls[i].then = TokenList!Effect THEN ui.creating ELSE FALSE
  BY OverKeeps
<1>4. ui'.creating = FALSE => NoneOf(Creation, calls')
  BY <1>2, <1>3, TokenRest DEF TokensInv
<1> QED
  BY <1>3, <1>4, TokenRest DEF TokensInv

LEMMA TokensDeliver ==
    ASSUME TokensInv, NEW i \in DOMAIN calls, TokenList!Deliver(i)
    PROVE  TokensInv' /\ (ui.secret # 0 /\ ui'.secret # ui.secret => ui'.allowed = "no")
<1>1. calls \in Seq(TokenCalls) /\ ui \in TokensUi /\ db' = db
  BY DEF TokensInv, TokenList!Deliver
<1>2. calls[i] \in TokenCalls
  BY <1>1
<1>3. ASSUME NEW data, NEW a \in TokenList!Answers(i),
             calls[i].st = "served" => calls[i].res \in Answered(data)
      PROVE  a.ok \in BOOLEAN /\ (a.ok = TRUE => a.data \in data)
  <2>1. a \in Answered(data)
    BY <1>3, AnswerIs DEF TokenList!Answers, TokenList!NetworkError, TokenList!Refused, Codes
  <2> QED
    BY <2>1, AnswerHas
<1>4. CASE TokenList!DeliverMe(i)
  <2>1. calls[i] \in MeCalls
    BY <1>2, <1>4, TokenKinds DEF TokenList!DeliverMe
  <2>2. calls[i].then \in TokenThens
    BY <1>2, TokenKinds
  <2> DEFINE c  == TokenList!Get("list", calls[i].then)
             u1 == [ui EXCEPT !.loadError = TRUE]
             u2 == [ui EXCEPT !.allowed = "no", !.tokens = {}, !.secret = 0]
             u3 == [ui EXCEPT !.allowed = "yes"]
  <2>3. \/ ui' = TokenList!Over(u1, calls[i].then) /\ calls' = Without(calls, i)
        \/ ui' = TokenList!Over(u2, calls[i].then) /\ calls' = Without(calls, i)
        \/ ui' = u3 /\ calls' = Append(Without(calls, i), c)
    BY <1>4, TokenRest DEF TokenList!DeliverMe, TokenList!Show, TokenList!Then, TokenList!NoSecret
  <2>4. CASE ui' = TokenList!Over(u1, calls[i].then) /\ calls' = Without(calls, i)
    <3>1. u1 \in TokensUi /\ u1.creating = ui.creating /\ u1.secret = ui.secret
      BY <1>1 DEF TokensUi
    <3> HIDE DEF u1
    <3> QED
      BY <1>1, <2>4, <3>1, TokenLoadOver, OverKeeps
  <2>5. CASE ui' = TokenList!Over(u2, calls[i].then) /\ calls' = Without(calls, i)
    <3>1. u2 \in TokensUi /\ u2.creating = ui.creating /\ u2.secret = 0 /\ u2.allowed = "no"
      BY <1>1 DEF TokensUi
    <3> HIDE DEF u2
    <3> QED
      BY <1>1, <2>5, <3>1, TokenLoadOver, OverKeeps
  <2>6. CASE ui' = u3 /\ calls' = Append(Without(calls, i), c)
    <3>1. u3 \in TokensUi /\ u3.creating = ui.creating /\ u3.secret = ui.secret
      BY <1>1 DEF TokensUi
    <3>2. c \in TokenCalls /\ c.op = "list" /\ c.then = calls[i].then
      BY <2>2, TokenSent DEF TokenList!Get, TokenList!Call
    <3> HIDE DEF c, u3
    <3>3. c \notin Bringing /\ (c \in Creation => calls[i] \in Creation)
      BY <1>2, <3>2 DEF Bringing, Creation
    <3>4. OneOf(Creation, calls') /\ calls' \in Seq(TokenCalls)
      BY <2>6, <3>2, <3>3, TokenRest, AppendOf
    <3>5. /\ NoneOf(Bringing, calls) => NoneOf(Bringing, calls')
          /\ NoneOf(Creation, calls) => NoneOf(Creation, calls')
      <4>1. NoneOf(Creation, calls) => calls[i] \notin Creation
        BY DEF NoneOf
      <4> QED
        BY <2>6, <3>3, <4>1, TokenRest, AppendOf
    <3> QED
      BY <1>1, <2>6, <3>1, <3>4, <3>5 DEF TokensInv
  <2> QED
    BY <2>3, <2>4, <2>5, <2>6
<1>5. CASE TokenList!DeliverList(i)
  <2>1. calls[i] \in ListCalls
    BY <1>2, <1>5, TokenKinds DEF TokenList!DeliverList
  <2>2. PICK a \in TokenList!Answers(i) :
            /\ ui' = TokenList!Over(IF a.ok THEN [ui EXCEPT !.tokens = a.data.tokens]
                                    ELSE [ui EXCEPT !.loadError = TRUE], calls[i].then)
            /\ calls' = Without(calls, i)
    BY <1>5, TokenRest DEF TokenList!DeliverList, TokenList!Show
  <2>3. a.ok \in BOOLEAN /\ (a.ok = TRUE => a.data \in [tokens : SUBSET TokenIds])
    <3>1. calls[i].st = "served" => calls[i].res \in Answered([tokens : SUBSET TokenIds])
      BY <2>1, CallHas DEF ListCalls
    <3> QED
      BY <1>3, <3>1
  <2> DEFINE u == IF a.ok THEN [ui EXCEPT !.tokens = a.data.tokens] ELSE [ui EXCEPT !.loadError = TRUE]
  <2>4. u \in TokensUi /\ u.creating = ui.creating /\ u.secret = ui.secret
    BY <1>1, <2>3 DEF TokensUi
  <2> HIDE DEF u
  <2>5. ui' = TokenList!Over(u, calls[i].then) /\ calls' = Without(calls, i)
    BY <2>2 DEF u
  <2>6. TokensInv'
    BY <1>1, <2>4, <2>5, TokenLoadOver
  <2>7. ui'.secret = ui.secret
    BY <2>4, <2>5, OverKeeps
  <2> QED
    BY <2>6, <2>7
<1>6. CASE TokenList!DeliverCreate(i)
  <2>1. calls[i] \in CreateCalls /\ calls[i] \in Bringing /\ calls[i] \in Creation
    BY <1>2, <1>6, TokenKinds DEF TokenList!DeliverCreate, Bringing, Creation
  <2>2. ui.secret = 0 /\ ui.creating = TRUE
    BY <1>1, <2>1 DEF TokensInv, NoneOf, TokensUi
  <2>3. PICK a \in TokenList!Answers(i) :
            TokenList!Show(IF a.ok
                THEN TokenList!Reload([ui EXCEPT !.secret = a.data.secret, !.named = FALSE], AfterCreate, i)
                ELSE [u |-> [ui EXCEPT !.error = TRUE, !.creating = FALSE], cs |-> TokenList!Rest(i)])
    BY <1>6 DEF TokenList!DeliverCreate, AfterCreate
  <2>4. a.ok \in BOOLEAN /\ (a.ok = TRUE => a.data \in [secret : TokenIds])
    <3>1. calls[i].st = "served" => calls[i].res \in Answered([secret : TokenIds])
      BY <2>1, CallHas DEF CreateCalls
    <3> QED
      BY <1>3, <3>1
  <2>5. CASE a.ok = TRUE
    <3> DEFINE c == TokenList!Get("me", AfterCreate)
    <3>1. /\ ui' = [[ui EXCEPT !.secret = a.data.secret, !.named = FALSE]
                       EXCEPT !.loading = TRUE, !.loadError = FALSE]
          /\ calls' = Append(Without(calls, i), c)
      BY <2>3, <2>5, TokenRest DEF TokenList!Reload, TokenList!Then, TokenList!Show
    <3>2. ui' \in TokensUi /\ ui'.creating = TRUE
      BY <1>1, <2>2, <2>4, <2>5, <3>1 DEF TokensUi
    <3>3. c \in TokenCalls /\ c \notin Bringing
      BY TokenSent DEF TokenThens, Bringing, TokenList!Get, TokenList!Call
    <3> HIDE DEF c
    <3>4. /\ calls' \in Seq(TokenCalls) /\ OneOf(Creation, calls') /\ NoneOf(Bringing, calls')
      BY <2>1, <3>1, <3>3, TokenRest, AppendOf
    <3> QED
      BY <1>1, <2>2, <3>2, <3>4 DEF TokensInv
  <2>6. CASE a.ok = FALSE
    <3>1. ui' = [ui EXCEPT !.error = TRUE, !.creating = FALSE] /\ calls' = Without(calls, i)
      BY <2>3, <2>6, TokenRest DEF TokenList!Show
    <3>2. ui' \in TokensUi
      BY <1>1, <3>1 DEF TokensUi
    <3> QED
      BY <1>1, <2>1, <2>2, <3>1, <3>2, TokenRest DEF TokensInv
  <2> QED
    BY <2>4, <2>5, <2>6
<1>7. CASE TokenList!DeliverRevoke(i)
  <2>1. PICK a \in TokenList!Answers(i) :
            /\ ui' = (IF a.ok THEN [ui EXCEPT !.tokens = @ \ {calls[i].arg.id},
                                              !.revoking = @ \ {calls[i].arg.id}]
                      ELSE [ui EXCEPT !.error = TRUE, !.revoking = @ \ {calls[i].arg.id},
                                      !.failed = @ \cup {calls[i].arg.id}])
            /\ calls' = Without(calls, i)
    BY <1>7, TokenRest DEF TokenList!DeliverRevoke, TokenList!Show
  <2>2. calls[i].arg.id \in TokenIds
    <3>1. calls[i] \in RevokeCalls
      BY <1>2, <1>7, TokenKinds DEF TokenList!DeliverRevoke
    <3> QED
      BY <3>1, RevokeIs
  <2>3. ui' \in TokensUi /\ ui'.secret = ui.secret /\ ui'.creating = ui.creating
    BY <1>1, <2>1, <2>2 DEF TokensUi
  <2> QED
    BY <1>1, <2>1, <2>3, TokenRest DEF TokensInv
<1> QED
  BY <1>4, <1>5, <1>6, <1>7 DEF TokenList!Deliver

LEMMA TokensClick == ASSUME TokensInv, TokenList!Click PROVE TokensInv'
<1>1. calls \in Seq(TokenCalls) /\ ui \in TokensUi /\ db' = db
  BY DEF TokensInv, TokenList!Click
<1>2. CASE TokenList!TypeName \/ TokenList!SecretSaved
  <2>1. /\ calls' = calls
        /\ ui' = [ui EXCEPT !.named = ~@] \/ ui' = [ui EXCEPT !.secret = 0]
    BY <1>2 DEF TokenList!TypeName, TokenList!SecretSaved, TokenList!Set, TokenList!NoSecret
  <2>2. ui' \in TokensUi /\ ui'.creating = ui.creating /\ ui'.secret \in {ui.secret, 0}
    BY <1>1, <2>1 DEF TokensUi
  <2> QED
    BY <1>1, <2>1, <2>2 DEF TokensInv
<1>3. CASE TokenList!Create
  <2> DEFINE c == TokenList!Get("create", TokenList!Effect)
  <2>1. /\ ui.creating = FALSE /\ ui.secret = 0
        /\ ui' = [ui EXCEPT !.creating = TRUE, !.error = FALSE] /\ calls' = Append(calls, c)
    BY <1>1, <1>3 DEF TokenList!Create, TokenList!Send, TokenList!NoSecret, TokensUi
  <2>2. ui' \in TokensUi /\ ui'.creating = TRUE /\ ui'.secret = 0
    BY <1>1, <2>1 DEF TokensUi
  <2>3. c \in TokenCalls
    BY TokenSent
  <2> HIDE DEF c
  <2>4. calls' \in Seq(TokenCalls) /\ OneOf(Creation, calls')
    BY <1>1, <2>1, <2>3, AppendOf DEF TokensInv
  <2> QED
    BY <1>1, <2>2, <2>4 DEF TokensInv
<1>4. ASSUME NEW c \in TokenCalls, c \notin Creation, calls' = Append(calls, c),
             ui' \in TokensUi, ui'.creating = ui.creating, ui'.secret = ui.secret
      PROVE  TokensInv'
  <2>1. c \notin Bringing
    BY <1>4 DEF Bringing, Creation
  <2>2. calls' \in Seq(TokenCalls)
    BY <1>1, <1>4
  <2>3. /\ OneOf(Creation, calls) => OneOf(Creation, calls')
        /\ NoneOf(Creation, calls) => NoneOf(Creation, calls')
        /\ NoneOf(Bringing, calls) => NoneOf(Bringing, calls')
    BY <1>1, <1>4, <2>1, AppendOf
  <2> QED
    BY <1>1, <1>4, <2>2, <2>3 DEF TokensInv
<1>5. CASE TokenList!Retry
  <2> DEFINE c == TokenList!Get("me", TokenList!Effect)
  <2>1. ui' = [ui EXCEPT !.loading = TRUE, !.loadError = FALSE] /\ calls' = Append(calls, c)
    BY <1>5 DEF TokenList!Retry, TokenList!Send
  <2>2. ui' \in TokensUi /\ ui'.creating = ui.creating /\ ui'.secret = ui.secret
    BY <1>1, <2>1 DEF TokensUi
  <2>3. c \in TokenCalls /\ c \notin Creation
    BY TokenSent, EffectIsNot DEF TokenThens, Creation, TokenList!Get, TokenList!Call
  <2> HIDE DEF c
  <2> QED
    BY <1>4, <2>1, <2>2, <2>3
<1>6. ASSUME NEW id \in TokenIds, TokenList!Revoke(id) PROVE TokensInv'
  <2> DEFINE c == TokenList!Call("revoke", [id |-> id], TokenList!Effect)
  <2>1. /\ ui' = [ui EXCEPT !.error = FALSE, !.revoking = @ \cup {id}, !.failed = @ \ {id}]
        /\ calls' = Append(calls, c)
    BY <1>6 DEF TokenList!Revoke, TokenList!Send
  <2>2. ui' \in TokensUi /\ ui'.creating = ui.creating /\ ui'.secret = ui.secret
    BY <1>1, <2>1 DEF TokensUi
  <2>3. c \in TokenCalls /\ c \notin Creation
    BY TokenSent, EffectIsNot DEF Creation, TokenList!Call
  <2> HIDE DEF c
  <2> QED
    BY <1>4, <2>1, <2>2, <2>3
<1> QED
  BY <1>2, <1>3, <1>5, <1>6 DEF TokenList!Click

LEMMA TokensNext ==
    ASSUME TokensInv, clicks \in Nat, TokenList!Next \/ Still
    PROVE  TokensInv' /\ clicks' \in Nat /\ TokenList!SecretStays
<1>1. CASE TokenList!UserActs /\ (TokenList!Click \/ TokenList!RoleChanges)
  <2>1. clicks' \in Nat /\ clicks' # clicks
    BY <1>1 DEF TokenList!UserActs
  <2>2. CASE TokenList!Click
    BY <2>1, <2>2, TokensClick DEF TokenList!SecretStays
  <2>3. CASE TokenList!RoleChanges
    <3>1. /\ db' \in TokensDb /\ db'.live = db.live /\ db'.made = db.made
          /\ ui' = ui /\ calls' = calls
      BY <2>3 DEF TokenList!RoleChanges, TokensInv, TokensDb
    <3> QED
      BY <2>1, <3>1 DEF TokensInv, TokenList!SecretStays
  <2> QED
    BY <1>1, <2>2, <2>3
<1>2. ASSUME NEW i \in DOMAIN calls, TokenList!Serve(i), clicks' = clicks
      PROVE  TokensInv' /\ clicks' \in Nat /\ TokenList!SecretStays
  BY <1>2, TokensServe DEF TokenList!Serve, TokenList!SecretStays
<1>3. ASSUME NEW i \in DOMAIN calls, TokenList!Deliver(i), clicks' = clicks
      PROVE  TokensInv' /\ clicks' \in Nat /\ TokenList!SecretStays
  BY <1>3, TokensDeliver DEF TokenList!NoSecret, TokenList!SecretStays
<1>4. CASE Still
  BY <1>4 DEF Still, TokensInv, TokenList!SecretStays
<1> QED
  BY <1>1, <1>2, <1>3, <1>4 DEF TokenList!Next


-----------------------------------------------------------------------------
(* The second factor: every answer is a status, and none that is handed    *)
(* over takes the recovery codes away.                                     *)
StatusThens == {Security!Effect, <<"confirm", 0>>, <<"disable", 0>>}
Statuses == [available : BOOLEAN, enabled : BOOLEAN, pending : BOOLEAN]
StatusCalls == CallsOf("status", {[n |-> 0]}, StatusThens, Answered(Statuses))
DoneCalls(op) == CallsOf(op, {[n |-> 0]}, {Security!Effect}, Answered(Statuses))
SecurityCalls ==
    StatusCalls \cup DoneCalls("enroll") \cup DoneCalls("confirm") \cup DoneCalls("disable")

SecurityUi ==
    [known : BOOLEAN, status : Statuses, enrollment : BOOLEAN, codes : BOOLEAN, code : BOOLEAN,
     password : BOOLEAN, error : BOOLEAN, busy : BOOLEAN, loading : BOOLEAN]

SecurityInv == ui \in SecurityUi /\ db \in Statuses /\ calls \in Seq(SecurityCalls)

LEMMA SecurityKinds ==
    ASSUME NEW c \in SecurityCalls
    PROVE  /\ c.op \in {"status", "enroll", "confirm", "disable"}
           /\ c.st = "served" => c.res \in Answered(Statuses)
           /\ c.then \in StatusThens
           /\ \A res \in Answered(Statuses) :
                  [c EXCEPT !.st = "served", !.res = res] \in SecurityCalls
<1>1. ASSUME c \in StatusCalls
      PROVE  /\ c.op = "status" /\ (c.st = "served" => c.res \in Answered(Statuses))
             /\ c.then \in StatusThens
             /\ \A res \in Answered(Statuses) : [c EXCEPT !.st = "served", !.res = res] \in StatusCalls
  BY <1>1, CallHas, CallServed DEF StatusCalls
<1>2. ASSUME NEW op, c \in DoneCalls(op)
      PROVE  /\ c.op = op /\ (c.st = "served" => c.res \in Answered(Statuses))
             /\ c.then \in StatusThens
             /\ \A res \in Answered(Statuses) : [c EXCEPT !.st = "served", !.res = res] \in DoneCalls(op)
  <2>1. c.op = op /\ c.then = Security!Effect /\ (c.st = "served" => c.res \in Answered(Statuses))
    BY <1>2, CallHas DEF DoneCalls
  <2>2. \A res \in Answered(Statuses) : [c EXCEPT !.st = "served", !.res = res] \in DoneCalls(op)
    BY <1>2, CallServed DEF DoneCalls
  <2> QED
    BY <2>1, <2>2 DEF StatusThens
<1> QED
  BY <1>1, <1>2 DEF SecurityCalls

LEMMA SecuritySent ==
    /\ \A then \in StatusThens : Security!Get("status", then) \in SecurityCalls
    /\ \A op \in {"enroll", "confirm", "disable"} : Security!Get(op, Security!Effect) \in SecurityCalls
<1>1. ASSUME NEW then \in StatusThens PROVE Security!Get("status", then) \in StatusCalls
  BY CallSent DEF Security!Get, Security!Call, Security!Refused, StatusCalls
<1>2. ASSUME NEW op PROVE Security!Get(op, Security!Effect) \in DoneCalls(op)
  BY CallSent DEF Security!Get, Security!Call, Security!Refused, DoneCalls
<1> QED
  BY <1>1, <1>2 DEF SecurityCalls

LEMMA SecurityInit == ASSUME Security!Init PROVE SecurityInv
<1>1. /\ db \in [available : BOOLEAN, enabled : BOOLEAN, pending : {FALSE}]
      /\ ui = Security!Mounted /\ calls = <<Security!Get("status", Security!Effect)>>
  BY DEF Security!Init
<1>2. db \in Statuses
  BY <1>1 DEF Statuses
<1>4. Security!Unknown \in Statuses
  BY DEF Security!Unknown, Statuses
<1>5. ui \in SecurityUi
  BY <1>1, <1>4 DEF Security!Mounted, SecurityUi
<1>3. calls \in Seq(SecurityCalls)
  BY <1>1, SecuritySent DEF StatusThens
<1> QED
  BY <1>2, <1>3, <1>5 DEF SecurityInv

LEMMA SecurityServe ==
    ASSUME SecurityInv, NEW i \in DOMAIN calls, Security!Serve(i) PROVE SecurityInv' /\ ui' = ui
<1>1. calls \in Seq(SecurityCalls) /\ db \in Statuses /\ ui' = ui
  BY DEF SecurityInv, Security!Serve
<1>2. calls[i] \in SecurityCalls
  BY <1>1
<1>3. db' = db \/ \E op \in {"enroll", "confirm", "disable"} : db' = Security!After(op)
  BY <1>2, SecurityKinds DEF Security!Serve
<1>4. db' \in Statuses
  BY <1>1, <1>3 DEF Security!After, Statuses
<1>5. Security!Ok(db) \in Answered(Statuses) /\ Security!Refused("invalid") \in Answered(Statuses)
  BY <1>1, AnswerIs DEF Security!Ok, Security!Refused, Codes
<1>6. PICK res \in Answered(Statuses) : calls' = Security!Served(i, res)
  BY <1>5 DEF Security!Serve
<1>7. [calls[i] EXCEPT !.st = "served", !.res = res] \in SecurityCalls
  BY <1>2, SecurityKinds
<1>8. Answer(calls, i, res) \in Seq(SecurityCalls)
  BY <1>1, <1>7, ServeOne DEF Answer
<1>9. calls' = Answer(calls, i, res)
  BY <1>6, Zenon DEF Security!Served, Answer
<1> QED
  BY <1>1, <1>4, <1>8, <1>9 DEF SecurityInv

LEMMA SecurityDeliver ==
    ASSUME SecurityInv, NEW i \in DOMAIN calls, Security!Deliver(i)
    PROVE  SecurityInv' /\ (ui.codes = TRUE => ui'.codes = TRUE)
<1>1. calls \in Seq(SecurityCalls) /\ ui \in SecurityUi /\ db \in Statuses /\ db' = db
  BY DEF SecurityInv, Security!Deliver
<1>2. calls[i] \in SecurityCalls
  BY <1>1
<1>3. Security!Rest(i) = Without(calls, i) /\ Without(calls, i) \in Seq(SecurityCalls)
  BY <1>1, WithoutOne DEF Security!Rest, Security!Without, Without
<1>4. ASSUME NEW a \in Security!Answers(i) PROVE a.ok \in BOOLEAN /\ (a.ok = TRUE => a.data \in Statuses)
  <2>1. calls[i].st = "served" => calls[i].res \in Answered(Statuses)
    BY <1>2, SecurityKinds
  <2>2. a \in Answered(Statuses)
    BY <2>1, AnswerIs DEF Security!Answers, Security!NetworkError, Security!Refused, Codes
  <2> QED
    BY <2>2, AnswerHas
<1>5. CASE Security!DeliverStatus(i)
  <2>1. PICK a \in Security!Answers(i) :
            LET shown == IF a.ok THEN [ui EXCEPT !.known = TRUE, !.status = a.data]
                         ELSE [ui EXCEPT !.error = TRUE]
            IN  /\ ui' = [shown EXCEPT !.loading = FALSE,
                                       !.busy = IF calls[i].then = Security!Effect THEN @ ELSE FALSE]
                /\ calls' = Without(calls, i)
    BY <1>3, <1>5 DEF Security!DeliverStatus, Security!Show
  <2> DEFINE shown == IF a.ok THEN [ui EXCEPT !.known = TRUE, !.status = a.data]
                      ELSE [ui EXCEPT !.error = TRUE]
  <2>2. shown \in SecurityUi /\ shown.codes = ui.codes
    BY <1>1, <1>4 DEF SecurityUi
  <2>3. calls' = Without(calls, i)
    BY <2>1
  <2>4. ui' = [shown EXCEPT !.loading = FALSE, !.busy = IF calls[i].then = Security!Effect THEN @ ELSE FALSE]
    BY <2>1
  <2> HIDE DEF shown
  <2>5. ui' \in SecurityUi /\ ui'.codes = ui.codes
    BY <2>2, <2>4 DEF SecurityUi
  <2> QED
    BY <1>1, <1>3, <2>3, <2>5 DEF SecurityInv
<1>6. CASE Security!DeliverDone(i)
  <2>1. /\ Security!Enrolled \in SecurityUi /\ Security!Enrolled.codes = ui.codes
        /\ [ui EXCEPT !.error = TRUE, !.busy = FALSE] \in SecurityUi
        /\ [ui EXCEPT !.error = TRUE, !.busy = FALSE].codes = ui.codes
    BY <1>1 DEF Security!Enrolled, SecurityUi
  <2>2. ui.status \in Statuses
    BY <1>1 DEF SecurityUi
  <2> DEFINE off == [ui.status EXCEPT !.enabled = FALSE, !.pending = FALSE]
             on  == [ui.status EXCEPT !.enabled = TRUE, !.pending = FALSE]
  <2>3. off \in Statuses /\ on \in Statuses
    BY <2>2 DEF Statuses
  <2>4. /\ Security!Confirmed = [ui EXCEPT !.status = on, !.codes = TRUE, !.enrollment = FALSE, !.code = FALSE]
        /\ Security!TurnedOff = [ui EXCEPT !.status = off, !.password = FALSE, !.code = FALSE,
                                           !.enrollment = FALSE]
    BY <1>1 DEF Security!Confirmed, Security!TurnedOff, SecurityUi
  <2> HIDE DEF off, on
  <2>5. /\ Security!Confirmed \in SecurityUi /\ Security!Confirmed.codes = TRUE
        /\ Security!TurnedOff \in SecurityUi /\ Security!TurnedOff.codes = ui.codes
    BY <1>1, <2>3, <2>4 DEF SecurityUi
  <2>6. \/ /\ \/ ui' = [ui EXCEPT !.error = TRUE, !.busy = FALSE]
              \/ ui' = Security!Enrolled
           /\ calls' = Without(calls, i)
        \/ \E u \in {Security!Confirmed, Security!TurnedOff}, then \in StatusThens :
              /\ ui' = [u EXCEPT !.loading = TRUE, !.error = FALSE]
              /\ calls' = Append(Without(calls, i), Security!Get("status", then))
    <3>1. calls[i].op \in {"enroll", "confirm", "disable"}
      BY <1>2, <1>6, SecurityKinds DEF Security!DeliverDone
    <3> QED
      BY <1>3, <1>6, <3>1 DEF Security!DeliverDone, Security!Show, Security!LoadStatus, StatusThens
  <2>7. CASE /\ ui' = [ui EXCEPT !.error = TRUE, !.busy = FALSE] \/ ui' = Security!Enrolled
             /\ calls' = Without(calls, i)
    BY <1>1, <1>3, <2>1, <2>7 DEF SecurityInv
  <2>8. ASSUME NEW u \in {Security!Confirmed, Security!TurnedOff}, NEW then \in StatusThens,
               ui' = [u EXCEPT !.loading = TRUE, !.error = FALSE],
               calls' = Append(Without(calls, i), Security!Get("status", then))
        PROVE  SecurityInv' /\ (ui.codes = TRUE => ui'.codes = TRUE)
    <3>1. u \in SecurityUi /\ (ui.codes = TRUE => u.codes = TRUE)
      BY <2>5
    <3>2. ui' \in SecurityUi /\ ui'.codes = u.codes
      BY <2>8, <3>1 DEF SecurityUi
    <3>3. calls' \in Seq(SecurityCalls)
      BY <1>3, <2>8, SecuritySent
    <3> QED
      BY <1>1, <3>1, <3>2, <3>3 DEF SecurityInv
  <2> QED
    BY <2>6, <2>7, <2>8
<1> QED
  BY <1>5, <1>6 DEF Security!Deliver

LEMMA SecurityClick == ASSUME SecurityInv, Security!Click PROVE SecurityInv'
<1>1. calls \in Seq(SecurityCalls) /\ ui \in SecurityUi /\ db \in Statuses /\ db' = db
  BY DEF SecurityInv, Security!Click
<1>2. ASSUME NEW u \in SecurityUi, NEW op \in {"enroll", "confirm", "disable"}, Security!Run(u, op)
      PROVE  SecurityInv'
  <2>1. /\ ui' = [u EXCEPT !.busy = TRUE, !.error = FALSE]
        /\ calls' = Append(calls, Security!Get(op, Security!Effect))
    BY <1>2 DEF Security!Run, Security!Send
  <2>2. ui' \in SecurityUi
    BY <2>1 DEF SecurityUi
  <2>3. calls' \in Seq(SecurityCalls)
    BY <1>1, <2>1, SecuritySent
  <2> QED
    BY <1>1, <2>2, <2>3 DEF SecurityInv
<1>3. CASE Security!StartEnroll
  <2>1. [ui EXCEPT !.codes = FALSE, !.code = FALSE] \in SecurityUi
    BY <1>1 DEF SecurityUi
  <2> QED
    BY <1>2, <1>3, <2>1 DEF Security!StartEnroll
<1>4. CASE Security!ConfirmEnroll \/ Security!Disable
  BY <1>1, <1>2, <1>4 DEF Security!ConfirmEnroll, Security!Disable
<1>5. CASE Security!Retry
  <2>1. /\ ui' = [ui EXCEPT !.loading = TRUE, !.error = FALSE]
        /\ calls' = Append(calls, Security!Get("status", Security!Effect))
    BY <1>5 DEF Security!Retry, Security!Show, Security!LoadStatus
  <2>2. ui' \in SecurityUi
    BY <1>1, <2>1 DEF SecurityUi
  <2>3. calls' \in Seq(SecurityCalls)
    BY <1>1, <2>1, SecuritySent DEF StatusThens
  <2> QED
    BY <1>1, <2>2, <2>3 DEF SecurityInv
<1>6. CASE Security!CancelEnroll \/ Security!TypeCode \/ Security!TypePassword \/ Security!RecoverySaved
  <2>1. /\ calls' = calls
        /\ \/ ui' = [ui EXCEPT !.enrollment = FALSE, !.code = FALSE, !.error = FALSE]
           \/ ui' = [ui EXCEPT !.code = ~@] \/ ui' = [ui EXCEPT !.password = ~@]
           \/ ui' = [ui EXCEPT !.codes = FALSE]
    BY <1>6 DEF Security!CancelEnroll, Security!TypeCode, Security!TypePassword,
                Security!RecoverySaved, Security!Set
  <2>2. ui' \in SecurityUi
    BY <1>1, <2>1 DEF SecurityUi
  <2> QED
    BY <1>1, <2>1, <2>2 DEF SecurityInv
<1> QED
  BY <1>3, <1>4, <1>5, <1>6 DEF Security!Click

LEMMA SecurityNext ==
    ASSUME SecurityInv, clicks \in Nat, Security!Next \/ Still
    PROVE  SecurityInv' /\ clicks' \in Nat /\ Security!CodesStay
<1>1. CASE Security!UserActs /\ (Security!Click \/ Security!Reset)
  <2>1. clicks' \in Nat /\ clicks' # clicks
    BY <1>1 DEF Security!UserActs
  <2>2. CASE Security!Click
    BY <2>1, <2>2, SecurityClick DEF Security!CodesStay
  <2>3. CASE Security!Reset
    BY <2>1, <2>3 DEF Security!Reset, SecurityInv, Statuses, Security!CodesStay
  <2> QED
    BY <1>1, <2>2, <2>3
<1>2. ASSUME NEW i \in DOMAIN calls, Security!Serve(i), clicks' = clicks
      PROVE  SecurityInv' /\ clicks' \in Nat /\ Security!CodesStay
  BY <1>2, SecurityServe DEF Security!CodesStay
<1>3. ASSUME NEW i \in DOMAIN calls, Security!Deliver(i), clicks' = clicks
      PROVE  SecurityInv' /\ clicks' \in Nat /\ Security!CodesStay
  <2>1. ui.codes \in BOOLEAN
    BY DEF SecurityInv, SecurityUi
  <2> QED
    BY <1>3, <2>1, SecurityDeliver DEF Security!CodesStay
<1>4. CASE Still
  BY <1>4 DEF Still, SecurityInv, Security!CodesStay
<1> QED
  BY <1>1, <1>2, <1>3, <1>4 DEF Security!Next

(* What is shown once stays until its owner is done with it: no answer, in *)
(* whatever order, takes a token's secret away unless the permission is    *)
(* gone, and none takes the recovery codes (tokens/page.tsx:36-66,         *)
(* security/page.tsx:60-75).                                               *)
THEOREM SecretsStayAlways == Spec => SecretsStay
<1> DEFINE I == /\ page = "tokens" => TokensInv /\ clicks \in Nat
                /\ page = "security" => SecurityInv /\ clicks \in Nat
           A == /\ page = "tokens" => TokenList!SecretStays
                /\ page = "security" => Security!CodesStay
<1>1. Init => I
  <2>1. (TokenList!Init => clicks = 0) /\ (Security!Init => clicks = 0)
    BY DEF TokenList!Init, Security!Init
  <2> QED
    BY <2>1, Mounts, TokensInit, SecurityInit
<1>2. I /\ [Next]_vars => I' /\ A
  BY Steps, TokensNext, SecurityNext
<1>3. I /\ [Next]_vars => [A]_vars
  BY <1>2
<1> QED
  BY <1>1, <1>2, <1>3, PTL DEF Spec, SecretsStay


-----------------------------------------------------------------------------
(* The settings forms.  A form that loads has nothing to lose; a form that *)
(* is busy has its one save in flight, with the draft and the revision it  *)
(* shows; and a revision stands for one value.                             *)
Blank == ""
FormNames == {"runtime", "captcha", "tracking"}
Datas == [v : FormValues, rev : Nat]
LoadArg == [save |-> FALSE, v |-> Blank, rev |-> 0]
SaveArgs == [save : {TRUE}, v : FormValues \cup {"bad"}, rev : Nat]

Whos == CallsOf("me", {[n |-> 0]}, {Forms!Effect}, {})
LoadsOf(f) == CallsOf(f, {LoadArg}, {Forms!Effect}, Answered(Datas))
SavesOf(f) == CallsOf(f, SaveArgs, {Forms!Effect}, Answered(Datas))
FormCalls == Whos \cup UNION {LoadsOf(f) \cup SavesOf(f) : f \in FormNames}

FormStates ==
    [saved : BOOLEAN, base : FormValues \cup {Blank}, rev : Nat, draft : FormTexts \cup {Blank},
     secret : BOOLEAN, error : BOOLEAN, notice : BOOLEAN, loading : BOOLEAN, busy : BOOLEAN,
     conflict : BOOLEAN]
FormsFields == {"forms", "access", "form", "dirty", "pending", "left"}
Opened(u) == IF u.access = "open" THEN u.forms ELSE {}

\* What was read at a revision is what is kept at it.
Fits(x, d) == x.rev <= d.rev /\ (x.rev = d.rev => x.v = d.v)

\* Saves of form f that are not of what it shows, and answers that do not fit d.
Strays(f, s) ==
    {c \in SavesOf(f) : \/ c.arg.v # FormParsed[s.draft] \/ c.arg.rev # s.rev
                        \/ c.st = "served" /\ c.res.ok = TRUE /\ c.res.data.v # c.arg.v}
Misfits(f, d) ==
    {c \in FormCalls : c.op = f /\ c.st = "served" /\ c.res.ok = TRUE /\ ~Fits(c.res.data, d)}

FormOk(f, s, cs, d) ==
    /\ s \in FormStates
    /\ s.saved = TRUE => s.draft \in FormTexts /\ s.base \in FormValues /\ Fits([v |-> s.base, rev |-> s.rev], d)
    /\ s.loading = TRUE => s.saved = FALSE
    /\ s.busy = TRUE => s.saved = TRUE
    /\ s.loading = FALSE => NoneOf(LoadsOf(f), cs)
    /\ s.busy = FALSE => NoneOf(SavesOf(f), cs)
    /\ OneOf(LoadsOf(f), cs) /\ OneOf(SavesOf(f), cs)
    /\ NoneOf(Strays(f, s), cs) /\ NoneOf(Misfits(f, d), cs)

FormsInv ==
    /\ DOMAIN ui = FormsFields /\ ui.forms \subseteq FormNames /\ ui.dirty \subseteq Opened(ui)
    /\ ui.access \in {"loading", "error", "open"} /\ ui.pending \in BOOLEAN /\ ui.left \in BOOLEAN
    /\ ui.form \in [Opened(ui) -> FormStates]
    /\ db \in [ui.forms -> Datas] /\ calls \in Seq(FormCalls)
    /\ OneOf(Whos, calls) /\ (ui.access # "loading" => NoneOf(Whos, calls))
    /\ \A f \in Opened(ui) : FormOk(f, ui.form[f], calls, db[f]) /\ (Forms!Dirty(ui.form[f]) <=> f \in ui.dirty)
    /\ \A f \in FormNames \ Opened(ui) : NoneOf(LoadsOf(f), calls) /\ NoneOf(SavesOf(f), calls)

-----------------------------------------------------------------------------
LEMMA LoadIs ==
    ASSUME NEW f, NEW c \in LoadsOf(f)
    PROVE  /\ c.op = f /\ c.arg = LoadArg /\ c.arg.save = FALSE
           /\ c.st = "served" => c.res \in Answered(Datas)
           /\ \A res \in Answered(Datas) : [c EXCEPT !.st = "served", !.res = res] \in LoadsOf(f)
<1>1. c.op = f /\ c.arg \in {LoadArg} /\ (c.st = "served" => c.res \in Answered(Datas))
  BY CallHas DEF LoadsOf
<1>2. \A res \in Answered(Datas) : [c EXCEPT !.st = "served", !.res = res] \in LoadsOf(f)
  BY CallServed DEF LoadsOf
<1>3. LoadArg.save = FALSE
  BY DEF LoadArg
<1> QED
  BY <1>1, <1>2, <1>3

LEMMA SaveIs ==
    ASSUME NEW f, NEW c \in SavesOf(f)
    PROVE  /\ c.op = f /\ c.arg \in SaveArgs /\ c.arg.save = TRUE
           /\ c.st = "served" => c.res \in Answered(Datas)
           /\ \A res \in Answered(Datas) : [c EXCEPT !.st = "served", !.res = res] \in SavesOf(f)
<1>1. c.op = f /\ c.arg \in SaveArgs /\ (c.st = "served" => c.res \in Answered(Datas))
  BY CallHas DEF SavesOf
<1>2. \A res \in Answered(Datas) : [c EXCEPT !.st = "served", !.res = res] \in SavesOf(f)
  BY CallServed DEF SavesOf
<1> QED
  BY <1>1, <1>2 DEF SaveArgs

LEMMA FormKinds ==
    ASSUME NEW c \in FormCalls
    PROVE  /\ c.op = "me" => c \in Whos
           /\ c.op # "me" => c.op \in FormNames
           /\ c.op # "me" /\ c.arg.save = FALSE => c \in LoadsOf(c.op)
           /\ c.op # "me" /\ c.arg.save = TRUE => c \in SavesOf(c.op)
           /\ c.op # "me" => c.arg.save \in BOOLEAN
<1>1. c \in Whos => c.op = "me"
  BY CallHas DEF Whos
<1>2. ASSUME NEW f \in FormNames, c \in LoadsOf(f)
      PROVE  c.op = f /\ c.arg.save = FALSE /\ f # "me"
  BY <1>2, LoadIs DEF FormNames
<1>3. ASSUME NEW f \in FormNames, c \in SavesOf(f)
      PROVE  c.op = f /\ c.arg.save = TRUE /\ f # "me"
  BY <1>3, SaveIs DEF FormNames
<1>4. c \in Whos \/ \E f \in FormNames : c \in LoadsOf(f) \/ c \in SavesOf(f)
  BY DEF FormCalls
<1> QED
  BY <1>1, <1>2, <1>3, <1>4

\* Whatever is said of the calls of op is kept from cs to cs2.
CallsFor(op) == {c \in FormCalls : c.op = op}
Unrelated(op, cs, cs2) ==
    \A K \in SUBSET CallsFor(op) :
        (NoneOf(K, cs) => NoneOf(K, cs2)) /\ (OneOf(K, cs) => OneOf(K, cs2))

LEMMA FormKindsFor ==
    ASSUME NEW f \in FormNames, NEW s, NEW d
    PROVE  /\ LoadsOf(f) \subseteq CallsFor(f) /\ SavesOf(f) \subseteq CallsFor(f)
           /\ Strays(f, s) \subseteq CallsFor(f) /\ Misfits(f, d) \subseteq CallsFor(f)
           /\ Whos \subseteq CallsFor("me")
           /\ LoadsOf(f) \subseteq FormCalls /\ SavesOf(f) \subseteq FormCalls
           /\ Strays(f, s) \subseteq SavesOf(f)
<1>1. LoadsOf(f) \subseteq FormCalls /\ SavesOf(f) \subseteq FormCalls /\ Whos \subseteq FormCalls
  BY DEF FormCalls
<1>2. LoadsOf(f) \subseteq CallsFor(f) /\ SavesOf(f) \subseteq CallsFor(f)
  BY <1>1, LoadIs, SaveIs DEF CallsFor
<1>3. Whos \subseteq CallsFor("me")
  BY <1>1, CallHas DEF CallsFor, Whos
<1>4. Strays(f, s) \subseteq SavesOf(f)
  BY DEF Strays
<1>5. Misfits(f, d) \subseteq CallsFor(f)
  BY DEF Misfits, CallsFor
<1> QED
  BY <1>1, <1>2, <1>3, <1>4, <1>5

LEMMA UnrelatedRest ==
    ASSUME NEW cs \in Seq(FormCalls), NEW i \in DOMAIN cs, NEW op PROVE Unrelated(op, cs, Without(cs, i))
BY RestOf DEF Unrelated

LEMMA UnrelatedAppend ==
    ASSUME NEW cs \in Seq(FormCalls), NEW c, NEW op, c.op # op PROVE Unrelated(op, cs, Append(cs, c))
<1>1. \A K \in SUBSET CallsFor(op) : c \notin K
  BY DEF CallsFor
<1> QED
  BY <1>1, AppendOf DEF Unrelated

LEMMA UnrelatedAnswer ==
    ASSUME NEW cs \in Seq(FormCalls), NEW i \in DOMAIN cs, NEW res, NEW op,
           [cs[i] EXCEPT !.st = "served", !.res = res] \in FormCalls,
           [cs[i] EXCEPT !.st = "served", !.res = res].op # op
    PROVE  Unrelated(op, cs, Answer(cs, i, res))
<1>1. \A K \in SUBSET CallsFor(op) : [cs[i] EXCEPT !.st = "served", !.res = res] \notin K
  BY DEF CallsFor
<1> QED
  BY <1>1, AnswerOf DEF Unrelated

LEMMA FormFrame ==
    ASSUME NEW f \in FormNames, NEW s, NEW d, NEW cs, NEW cs2, FormOk(f, s, cs, d), Unrelated(f, cs, cs2)
    PROVE  FormOk(f, s, cs2, d)
BY FormKindsFor DEF FormOk, Unrelated

\* What is kept at f moves on, or stays as it is.
LEMMA FormMovesOn ==
    ASSUME NEW f \in FormNames, NEW s, NEW d \in Datas, NEW d2 \in Datas, NEW cs \in Seq(FormCalls),
           FormOk(f, s, cs, d), d2 = d \/ d2.rev = d.rev + 1
    PROVE  FormOk(f, s, cs, d2)
<1>1. \A x : x.rev \in Nat /\ Fits(x, d) => Fits(x, d2)
  BY DEF Fits, Datas
<1>2. \A c \in FormCalls : c.op = f /\ c.st = "served" /\ c.res.ok = TRUE => c.res.data.rev \in Nat
  <2> SUFFICES ASSUME NEW c \in FormCalls, c.op = f, c.st = "served", c.res.ok = TRUE
               PROVE  c.res.data.rev \in Nat
    OBVIOUS
  <2>1. c \in LoadsOf(f) \/ c \in SavesOf(f)
    BY FormKinds DEF FormNames
  <2>2. c.res \in Answered(Datas)
    BY <2>1, LoadIs, SaveIs
  <2>3. c.res.data \in Datas
    BY <2>2, AnswerHas
  <2> QED
    BY <2>3 DEF Datas
<1>3. Misfits(f, d2) \subseteq Misfits(f, d)
  BY <1>1, <1>2 DEF Misfits
<1>4. NoneOf(Misfits(f, d2), cs)
  BY <1>3 DEF FormOk, NoneOf
<1>5. [v |-> s.base, rev |-> s.rev].rev \in Nat
  BY DEF FormOk, FormStates
<1> QED
  BY <1>1, <1>4, <1>5 DEF FormOk

\* A form with nothing in flight.
LEMMA FormQuiet ==
    ASSUME NEW f \in FormNames, NEW s \in FormStates, NEW cs, NEW d,
           NoneOf(LoadsOf(f), cs), NoneOf(SavesOf(f), cs), NoneOf(Misfits(f, d), cs),
           s.saved = TRUE => s.draft \in FormTexts /\ s.base \in FormValues /\ Fits([v |-> s.base, rev |-> s.rev], d),
           s.loading = FALSE, s.busy = FALSE
    PROVE  FormOk(f, s, cs, d)
<1>1. NoneOf(Strays(f, s), cs)
  BY FormKindsFor DEF NoneOf
<1> QED
  BY <1>1, NoneIsOne DEF FormOk

\* The API answers a call of f, and says what is kept then.
LEMMA FormServed ==
    ASSUME NEW f \in FormNames, NEW s, NEW d \in Datas, NEW cs \in Seq(FormCalls), NEW i \in DOMAIN cs,
           FormOk(f, s, cs, d), cs[i] \in LoadsOf(f) \cup SavesOf(f), NEW res \in Answered(Datas),
           res.ok = TRUE => Fits(res.data, d) /\ (cs[i] \in SavesOf(f) => res.data.v = cs[i].arg.v)
    PROVE  /\ Answer(cs, i, res) \in Seq(FormCalls)
           /\ FormOk(f, s, Answer(cs, i, res), d)
           /\ \A op : op # f => Unrelated(op, cs, Answer(cs, i, res))
<1> DEFINE c == [cs[i] EXCEPT !.st = "served", !.res = res]
           t == Answer(cs, i, res)
<1>1. (cs[i] \in LoadsOf(f) => c \in LoadsOf(f)) /\ (cs[i] \in SavesOf(f) => c \in SavesOf(f))
  BY LoadIs, SaveIs
<1>2. c \in FormCalls
  BY <1>1, FormKindsFor
<1>3. c.op = f /\ c.arg = cs[i].arg /\ c.res = res
  BY <1>1 DEF LoadsOf, SavesOf, CallsOf, Sent, Served
<1>4. ~(c \in LoadsOf(f) /\ c \in SavesOf(f)) /\ ~(cs[i] \in LoadsOf(f) /\ cs[i] \in SavesOf(f))
  BY LoadIs, SaveIs
<1>5. c \notin Misfits(f, d)
  BY <1>3 DEF Misfits
<1>6. c \in Strays(f, s) => cs[i] \in Strays(f, s)
  BY <1>1, <1>3, <1>4 DEF Strays
<1>7. \A K : (c \in K => cs[i] \in K) => /\ NoneOf(K, cs) => NoneOf(K, t)
                                         /\ OneOf(K, cs) => OneOf(K, t)
  BY <1>2, AnswerOf
<1>8. t \in Seq(FormCalls)
  BY <1>2, ServeOne DEF Answer
<1>9. \A op : op # f => Unrelated(op, cs, t)
  BY <1>2, <1>3, UnrelatedAnswer
<1>10. (c \in LoadsOf(f) => cs[i] \in LoadsOf(f)) /\ (c \in SavesOf(f) => cs[i] \in SavesOf(f))
  BY <1>1, <1>4
<1> HIDE DEF c, t
<1>11. FormOk(f, s, t, d)
  BY <1>5, <1>6, <1>7, <1>10 DEF FormOk
<1> QED
  BY <1>8, <1>9, <1>11 DEF t


\* The forms that wait for an answer are open.
LEMMA CallIsOfAForm ==
    ASSUME FormsInv, NEW i \in DOMAIN calls, calls[i].op # "me"
    PROVE  LET f == calls[i].op IN
           /\ f \in FormNames /\ f \in Opened(ui) /\ f \in ui.forms
           /\ FormOk(f, ui.form[f], calls, db[f])
           /\ calls[i].arg.save = FALSE => /\ calls[i] \in LoadsOf(f) /\ ui.form[f].loading = TRUE
                                           /\ ui.form[f].saved = FALSE /\ ui.form[f].busy = FALSE
           /\ calls[i].arg.save = TRUE => /\ calls[i] \in SavesOf(f) /\ ui.form[f].busy = TRUE
                                          /\ ui.form[f].saved = TRUE /\ ui.form[f].loading = FALSE
           /\ calls[i].arg.save \in BOOLEAN
<1> DEFINE f == calls[i].op
<1>1. calls[i] \in FormCalls
  BY DEF FormsInv
<1>2. /\ f \in FormNames /\ calls[i].arg.save \in BOOLEAN
      /\ calls[i].arg.save = FALSE => calls[i] \in LoadsOf(f)
      /\ calls[i].arg.save = TRUE => calls[i] \in SavesOf(f)
  BY <1>1, FormKinds
<1> HIDE DEF f
<1>3. f \in Opened(ui)
  BY <1>2 DEF FormsInv, NoneOf
<1>4. FormOk(f, ui.form[f], calls, db[f]) /\ f \in ui.forms
  BY <1>3 DEF FormsInv, Opened
<1>5. /\ ui.form[f].loading \in BOOLEAN /\ ui.form[f].busy \in BOOLEAN /\ ui.form[f].saved \in BOOLEAN
  BY <1>4 DEF FormOk, FormStates
<1>6. calls[i].arg.save = FALSE => ui.form[f].loading = TRUE
  BY <1>2, <1>4, <1>5 DEF FormOk, NoneOf
<1>7. calls[i].arg.save = TRUE => ui.form[f].busy = TRUE
  BY <1>2, <1>4, <1>5 DEF FormOk, NoneOf
<1> QED
  BY <1>2, <1>3, <1>4, <1>5, <1>6, <1>7 DEF FormOk, f

\* A form whose controls are there has nothing in flight.
LEMMA OpenForm ==
    ASSUME FormsInv, NEW f \in Opened(ui)
    PROVE  LET s == ui.form[f] IN
           /\ f \in FormNames /\ f \in ui.forms /\ s \in FormStates /\ DOMAIN ui.form = Opened(ui)
           /\ FormOk(f, s, calls, db[f]) /\ db[f] \in Datas
           /\ f \in Forms!OpenForms =>
                 s.saved = TRUE /\ s.busy = FALSE /\ s.loading = FALSE
           /\ s.loading = FALSE => NoneOf(LoadsOf(f), calls)
           /\ s.busy = FALSE => NoneOf(SavesOf(f), calls)
<1> DEFINE s == ui.form[f]
<1>1. f \in ui.forms /\ f \in FormNames /\ FormOk(f, s, calls, db[f]) /\ db[f] \in Datas
      /\ DOMAIN ui.form = Opened(ui)
  BY DEF FormsInv, Opened
<1>2. s \in FormStates
  BY <1>1 DEF FormOk
<1>3. f \in Forms!OpenForms => s.saved /\ ~s.busy
  BY DEF Forms!OpenForms
<1>4. s.saved \in BOOLEAN /\ s.busy \in BOOLEAN /\ s.loading \in BOOLEAN
  BY <1>2 DEF FormStates
<1> HIDE DEF s
<1> QED
  BY <1>1, <1>2, <1>3, <1>4 DEF FormOk, s

\* A step of one form leaves the others alone.
PutAs(u, f, s, v) ==
    /\ DOMAIN v = FormsFields /\ v.forms = u.forms /\ v.access = u.access
    /\ v.pending = u.pending /\ v.left = u.left
    /\ v.form = [u.form EXCEPT ![f] = s]
    /\ v.dirty = IF Forms!Dirty(s) THEN u.dirty \cup {f} ELSE u.dirty \ {f}
LEMMA PutIs ==
    ASSUME NEW u, DOMAIN u = FormsFields, NEW f \in DOMAIN u.form, NEW s
    PROVE  PutAs(u, f, s, Forms!Put(u, f, s))
BY DEF Forms!Put, Forms!Register, FormsFields, PutAs

OthersKept(f) == \A g \in Opened(ui) \ {f} : ui'.form[g] = ui.form[g]

LEMMA FormPuts ==
    ASSUME FormsInv, NEW f \in Opened(ui), NEW s, ui' = Forms!Put(ui, f, s), db' = db,
           calls' \in Seq(FormCalls), \A op : op # f => Unrelated(op, calls, calls'),
           FormOk(f, s, calls', db[f])
    PROVE  FormsInv' /\ OthersKept(f)
<1>1. /\ DOMAIN ui = FormsFields /\ ui.forms \subseteq FormNames /\ ui.dirty \subseteq Opened(ui)
      /\ ui.form \in [Opened(ui) -> FormStates] /\ DOMAIN ui.form = Opened(ui) /\ f \in ui.forms
  BY DEF FormsInv, Opened
<1>2. s \in FormStates
  BY DEF FormOk
<1>3. /\ DOMAIN ui' = FormsFields /\ ui'.forms = ui.forms /\ ui'.access = ui.access
      /\ ui'.pending = ui.pending /\ ui'.left = ui.left
      /\ ui'.form = [ui.form EXCEPT ![f] = s]
      /\ ui'.dirty = IF Forms!Dirty(s) THEN ui.dirty \cup {f} ELSE ui.dirty \ {f}
  <2>1. f \in DOMAIN ui.form
    BY <1>1
  <2>2. ui' = Forms!Put(ui, f, s)
    OBVIOUS
  <2>3. PutAs(ui, f, s, ui')
    BY <1>1, <2>1, <2>2, PutIs
  <2> QED
    BY <2>3 DEF PutAs
<1>4. Opened(ui') = Opened(ui) /\ Opened(ui)' = Opened(ui)
  BY <1>3 DEF Opened
<1>5. ui'.form \in [Opened(ui) -> FormStates] /\ ui'.dirty \subseteq Opened(ui)
  BY <1>1, <1>2, <1>3
<1>6. \A g \in FormNames \ {f} : Unrelated(g, calls, calls')
  OBVIOUS
<1>7. \A g \in Opened(ui) : FormOk(g, ui'.form[g], calls', db[g]) /\ (Forms!Dirty(ui'.form[g]) <=> g \in ui'.dirty)
  <2>2. ASSUME NEW g \in Opened(ui) \ {f}
        PROVE  FormOk(g, ui'.form[g], calls', db[g]) /\ (Forms!Dirty(ui'.form[g]) <=> g \in ui'.dirty)
    <3>1. /\ g \in FormNames /\ FormOk(g, ui.form[g], calls, db[g])
          /\ Forms!Dirty(ui.form[g]) <=> g \in ui.dirty
      BY <1>1, <2>2 DEF FormsInv, Opened
    <3>2. ui'.form[g] = ui.form[g] /\ (g \in ui.dirty <=> g \in ui'.dirty)
      BY <1>1, <1>3, <2>2
    <3>3. FormOk(g, ui.form[g], calls', db[g])
      BY <1>6, <2>2, <3>1, FormFrame
    <3> QED
      BY <3>1, <3>2, <3>3
  <2>3. FormOk(f, ui'.form[f], calls', db[f]) /\ (Forms!Dirty(ui'.form[f]) <=> f \in ui'.dirty)
    BY <1>1, <1>3
  <2> QED
    BY <2>2, <2>3
<1>8. ASSUME NEW g \in FormNames \ Opened(ui) PROVE NoneOf(LoadsOf(g), calls') /\ NoneOf(SavesOf(g), calls')
  <2>1. NoneOf(LoadsOf(g), calls) /\ NoneOf(SavesOf(g), calls) /\ Unrelated(g, calls, calls')
    BY <1>6, <1>8 DEF FormsInv
  <2> QED
    BY <2>1, FormKindsFor DEF Unrelated
<1>9. OneOf(Whos, calls') /\ (ui.access # "loading" => NoneOf(Whos, calls'))
  <2>1. Unrelated("me", calls, calls')
    BY <1>1 DEF FormNames
  <2> QED
    BY <1>1, <2>1, FormKindsFor DEF FormsInv, Unrelated
<1>10. OthersKept(f)
  BY <1>1, <1>3 DEF OthersKept
<1>11. FormsInv'
  BY <1>1, <1>3, <1>4, <1>5, <1>7, <1>8, <1>9 DEF FormsInv
<1> QED
  BY <1>10, <1>11

\* Another administrator's save, or that of the API's own answer.
LEMMA FormsMoveOn ==
    ASSUME FormsInv, NEW f \in ui.forms, NEW d \in Datas, d.rev = db[f].rev + 1,
           db' = [db EXCEPT ![f] = d], ui' = ui, calls' = calls
    PROVE  FormsInv'
<1>1. db \in [ui.forms -> Datas] /\ f \in FormNames /\ calls \in Seq(FormCalls)
  BY DEF FormsInv
<1>2. db' \in [ui.forms -> Datas] /\ db'[f] = d /\ \A g \in ui.forms \ {f} : db'[g] = db[g]
  BY <1>1
<1>3. ASSUME NEW g \in Opened(ui) PROVE FormOk(g, ui.form[g], calls, db'[g])
  <2>1. /\ g \in FormNames /\ g \in ui.forms /\ FormOk(g, ui.form[g], calls, db[g]) /\ db[g] \in Datas
    BY <1>1 DEF FormsInv, Opened
  <2>2. db'[g] \in Datas /\ (db'[g] = db[g] \/ db'[g].rev = db[g].rev + 1)
    BY <1>2, <2>1
  <2> QED
    BY <1>1, <2>1, <2>2, FormMovesOn
<1> QED
  BY <1>2, <1>3 DEF FormsInv, Opened


LEMMA FormsInit == ASSUME Forms!Init PROVE FormsInv
<1>1. PICK forms \in UNION {SUBSET p : p \in Forms!Pages}, v \in FormValues :
          ui = [Forms!Mounted EXCEPT !.forms = forms] /\ db = [f \in forms |-> [v |-> v, rev |-> 1]]
  BY DEF Forms!Init
<1>2. forms \subseteq FormNames
  BY DEF Forms!Pages, FormNames
<1>3. /\ DOMAIN ui = FormsFields /\ ui.forms = forms /\ ui.dirty = {} /\ ui.access = "loading"
      /\ ui.pending = FALSE /\ ui.left = FALSE /\ ui.form \in [{} -> FormStates]
  BY <1>1 DEF Forms!Mounted, FormsFields
<1>4. Opened(ui) = {}
  BY <1>3 DEF Opened
<1>5. db \in [ui.forms -> Datas]
  BY <1>1, <1>3 DEF Datas
<1>6. calls = <<Forms!Get("me", Forms!Effect)>>
  BY DEF Forms!Init
<1>7. Forms!Get("me", Forms!Effect) \in Whos
  BY CallSent DEF Forms!Get, Forms!Call, Forms!Refused, Whos
<1>8. Whos \subseteq FormCalls /\ \A f \in FormNames : \A c \in Whos : c \notin LoadsOf(f) /\ c \notin SavesOf(f)
  <2>1. \A c \in Whos : c.op = "me"
    BY CallHas DEF Whos
  <2>2. ASSUME NEW f \in FormNames, NEW c \in LoadsOf(f) \cup SavesOf(f) PROVE c.op = f /\ f # "me"
    BY LoadIs, SaveIs DEF FormNames
  <2> QED
    BY <2>1, <2>2 DEF FormCalls
<1>9. calls \in Seq(FormCalls) /\ DOMAIN calls = {1} /\ calls[1] \in Whos
  BY <1>6, <1>7, <1>8
<1> QED
  BY <1>2, <1>3, <1>4, <1>5, <1>8, <1>9 DEF FormsInv, NoneOf, OneOf

\* The API answers a load or a save.
LEMMA FormsServe ==
    ASSUME FormsInv, NEW i \in DOMAIN calls, Forms!Serve(i)
    PROVE  FormsInv' /\ ui' = ui /\ (\A f \in ui.forms : db'[f] # db[f] =>
              f = calls[i].op /\ f \in Opened(ui) /\ calls[i] \in SavesOf(f)
              /\ (f = "runtime" => calls[i].arg.rev = db[f].rev /\ db' = [db EXCEPT ![f] = Forms!Stored(calls[i])]))
<1> DEFINE f == calls[i].op
           c == calls[i]
<1>1. f # "me" /\ ui' = ui
  BY DEF Forms!Serve
<1>2. /\ f \in FormNames /\ f \in Opened(ui) /\ f \in ui.forms
      /\ FormOk(f, ui.form[f], calls, db[f])
      /\ c.arg.save = FALSE => c \in LoadsOf(f)
      /\ c.arg.save = TRUE => c \in SavesOf(f)
      /\ c.arg.save \in BOOLEAN
  BY <1>1, CallIsOfAForm
<1>3. db \in [ui.forms -> Datas] /\ calls \in Seq(FormCalls) /\ ui.form \in [Opened(ui) -> FormStates]
  BY DEF FormsInv
<1>4. ASSUME NEW res \in Answered(Datas), NEW d \in Datas, d = db[f] \/ d.rev = db[f].rev + 1,
             calls' = Answer(calls, i, res), db' = [db EXCEPT ![f] = d],
             res.ok = TRUE => res.data = d /\ (c \in SavesOf(f) => res.data.v = c.arg.v)
      PROVE  FormsInv'
  <2>1. FormOk(f, ui.form[f], calls, d)
    BY <1>2, <1>3, <1>4, FormMovesOn
  <2>2. res.ok = TRUE => Fits(res.data, d)
    BY <1>4 DEF Fits, Datas
  <2>3. c \in LoadsOf(f) \cup SavesOf(f)
    BY <1>2
  <2> HIDE DEF f, c
  <2>4. /\ Answer(calls, i, res) \in Seq(FormCalls)
        /\ FormOk(f, ui.form[f], Answer(calls, i, res), d)
        /\ \A op : op # f => Unrelated(op, calls, Answer(calls, i, res))
    BY <1>2, <1>3, <1>4, <2>1, <2>2, <2>3, FormServed DEF c
  <2>5. db' \in [ui.forms -> Datas] /\ db'[f] = d /\ \A g \in ui.forms \ {f} : db'[g] = db[g]
    BY <1>2, <1>3, <1>4
  <2>6. ASSUME NEW g \in Opened(ui)
        PROVE  FormOk(g, ui.form[g], calls', db'[g]) /\ (Forms!Dirty(ui.form[g]) => g \in ui.dirty)
    <3>1. g \in FormNames /\ g \in ui.forms /\ FormOk(g, ui.form[g], calls, db[g])
          /\ (Forms!Dirty(ui.form[g]) => g \in ui.dirty)
      BY DEF FormsInv, Opened
    <3>2. CASE g = f
      BY <1>4, <2>4, <2>5, <3>1, <3>2
    <3>3. CASE g # f
      BY <1>4, <2>4, <2>5, <3>1, <3>3, FormFrame
    <3> QED
      BY <3>2, <3>3
  <2>7. ASSUME NEW g \in FormNames \ Opened(ui) PROVE NoneOf(LoadsOf(g), calls') /\ NoneOf(SavesOf(g), calls')
    <3>1. NoneOf(LoadsOf(g), calls) /\ NoneOf(SavesOf(g), calls) /\ Unrelated(g, calls, calls')
      BY <1>2, <1>4, <2>4 DEF FormsInv
    <3> QED
      BY <3>1, FormKindsFor DEF Unrelated
  <2>8. OneOf(Whos, calls') /\ (ui.access # "loading" => NoneOf(Whos, calls'))
    <3>1. Unrelated("me", calls, calls')
      BY <1>1, <1>4, <2>4 DEF f
    <3> QED
      BY <1>2, <3>1, FormKindsFor DEF FormsInv, Unrelated
  <2>9. ui' = ui
    BY <1>1
  <2>10. calls' \in Seq(FormCalls)
    BY <1>4, <2>4
  <2> QED
    BY <2>5, <2>6, <2>7, <2>8, <2>9, <2>10 DEF FormsInv, Opened
<1>5. /\ db[f] \in Datas /\ [db EXCEPT ![f] = db[f]] = db
      /\ c \in SavesOf(f) => c.arg.save = TRUE /\ c.arg.v \in FormValues \cup {"bad"} /\ c.arg.rev \in Nat
  <2>1. db[f] \in Datas /\ [db EXCEPT ![f] = db[f]] = db
    BY <1>2, <1>3
  <2>2. c \in SavesOf(f) => c.arg.save = TRUE /\ c.arg \in SaveArgs
    BY SaveIs
  <2> HIDE DEF c, f
  <2> QED
    BY <2>1, <2>2 DEF SaveArgs
<1>6. \A code \in Codes : /\ Forms!Refused(code) \in Answered(Datas)
                          /\ Forms!Refused(code).ok = FALSE
  BY AnswerIs DEF Forms!Refused
<1>7. \A d \in Datas : /\ Forms!Ok(d) \in Answered(Datas)
                      /\ Forms!Ok(d).data = d
  BY AnswerIs DEF Forms!Ok
<1>8. "invalid" \in Codes /\ "conflict" \in Codes
  BY DEF Codes
<1>9. \/ c.arg.save = FALSE /\ calls' = Forms!Served(i, Forms!Ok(db[f])) /\ db' = db
      \/ /\ c.arg.save = TRUE /\ c.arg.v # "bad" /\ Forms!Accepts(c)
         /\ calls' = Forms!Served(i, Forms!Ok(Forms!Stored(c))) /\ db' = [db EXCEPT ![f] = Forms!Stored(c)]
      \/ \E code \in Codes : calls' = Forms!Served(i, Forms!Refused(code)) /\ db' = db
  BY <1>2, <1>8 DEF Forms!Serve
<1>10. \A res : Forms!Served(i, res) = Answer(calls, i, res)
  BY Zenon DEF Forms!Served, Answer
<1>11. CASE c.arg.save = FALSE /\ calls' = Forms!Served(i, Forms!Ok(db[f])) /\ db' = db
  <2>1. calls' = Answer(calls, i, Forms!Ok(db[f]))
    BY <1>10, <1>11
  <2>2. db' = [db EXCEPT ![f] = db[f]] /\ c \notin SavesOf(f)
    BY <1>5, <1>11
  <2>3. FormsInv'
    BY <1>4, <1>5, <1>7, <2>1, <2>2
  <2> QED
    BY <1>1, <1>11, <2>3
<1>12. CASE \E code \in Codes : calls' = Forms!Served(i, Forms!Refused(code)) /\ db' = db
  <2>1. PICK code \in Codes : calls' = Forms!Served(i, Forms!Refused(code)) /\ db' = db
    BY <1>12
  <2>2. calls' = Answer(calls, i, Forms!Refused(code))
    BY <1>10, <2>1
  <2>3. db' = [db EXCEPT ![f] = db[f]]
    BY <1>5, <2>1
  <2>4. FormsInv'
    BY <1>4, <1>5, <1>6, <2>2, <2>3
  <2> QED
    BY <1>1, <2>1, <2>4
<1>13. CASE /\ c.arg.save = TRUE /\ c.arg.v # "bad" /\ Forms!Accepts(c)
            /\ calls' = Forms!Served(i, Forms!Ok(Forms!Stored(c))) /\ db' = [db EXCEPT ![f] = Forms!Stored(c)]
  <2>1. c \in SavesOf(f)
    BY <1>2, <1>13
  <2>2. Forms!Stored(c) = [v |-> c.arg.v, rev |-> db[f].rev + 1]
    BY DEF Forms!Stored
  <2>3. Forms!Stored(c) \in Datas /\ Forms!Stored(c).rev = db[f].rev + 1 /\ Forms!Stored(c).v = c.arg.v
    BY <1>5, <1>13, <2>1, <2>2 DEF Datas
  <2>4. calls' = Answer(calls, i, Forms!Ok(Forms!Stored(c)))
    BY <1>10, <1>13
  <2>5. FormsInv'
    BY <1>4, <1>7, <1>13, <2>3, <2>4
  <2>6. \A g \in ui.forms : db'[g] # db[g] => g = f
    BY <1>3, <1>13
  <2>7. f = "runtime" => c.arg.rev = db[f].rev
    BY <1>13 DEF Forms!Accepts
  <2> QED
    BY <1>1, <1>2, <1>13, <2>1, <2>5, <2>6, <2>7
<1> QED
  BY <1>9, <1>11, <1>12, <1>13


\* The answer to a load or a save of form f: what was read or kept fits what is
\* kept now, and a save of what f shows keeps what its draft stands for.
LEMMA FormAnswered ==
    ASSUME FormsInv, NEW i \in DOMAIN calls, calls[i].op # "me", NEW a \in Forms!Answers(i)
    PROVE  LET f == calls[i].op
               s == ui.form[f] IN
           /\ a.ok \in BOOLEAN
           /\ a.ok = TRUE => a.data \in Datas /\ Fits(a.data, db[f])
           /\ a.ok = TRUE /\ calls[i].arg.save = TRUE => a.data.v = FormParsed[s.draft]
<1> DEFINE f == calls[i].op
           c == calls[i]
           s == ui.form[f]
<1>1. /\ f \in FormNames /\ FormOk(f, s, calls, db[f]) /\ c.arg.save \in BOOLEAN
      /\ c.arg.save = FALSE => c \in LoadsOf(f)
      /\ c.arg.save = TRUE => c \in SavesOf(f)
  BY CallIsOfAForm
<1>2. c \in FormCalls /\ c.op = f
  BY DEF FormsInv
<1>3. c.st = "served" => c.res \in Answered(Datas)
  BY <1>1, LoadIs, SaveIs
<1>4. a = Forms!NetworkError \/ (c.st = "served" /\ a = c.res)
  BY DEF Forms!Answers
<1>5. CASE a = Forms!NetworkError
  BY <1>5 DEF Forms!NetworkError, Forms!Refused
<1>6. CASE c.st = "served" /\ a = c.res
  <2>1. a.ok \in BOOLEAN /\ (a.ok = TRUE => a.data \in Datas)
    BY <1>3, <1>6, AnswerHas
  <2>2. NoneOf(Misfits(f, db[f]), calls) /\ NoneOf(Strays(f, s), calls)
    BY <1>1 DEF FormOk
  <2>3. c \notin Misfits(f, db[f]) /\ c \notin Strays(f, s)
    BY <2>2 DEF NoneOf
  <2> HIDE DEF f, c, s
  <2>4. a.ok = TRUE => Fits(a.data, db[f])
    BY <1>2, <1>6, <2>3 DEF Misfits
  <2>5. a.ok = TRUE /\ c.arg.save = TRUE => a.data.v = FormParsed[s.draft]
    BY <1>1, <1>6, <2>3 DEF Strays
  <2> QED
    BY <2>1, <2>4, <2>5 DEF f, c, s
<1> QED
  BY <1>4, <1>5, <1>6

\* An answer of form f is handed over, and leaves f with nothing in flight.
LEMMA FormDelivered ==
    ASSUME FormsInv, NEW i \in DOMAIN calls, calls[i].op # "me", NEW s \in FormStates,
           ui' = Forms!Put(ui, calls[i].op, s), calls' = Without(calls, i), db' = db,
           s.saved = TRUE => s.draft \in FormTexts /\ s.base \in FormValues /\ Fits([v |-> s.base, rev |-> s.rev], db[calls[i].op]),
           s.loading = FALSE, s.busy = FALSE
    PROVE  FormsInv' /\ OthersKept(calls[i].op) /\ ui'.form[calls[i].op] = s
<1> DEFINE f == calls[i].op
           c == calls[i]
<1>1. /\ f \in FormNames /\ f \in Opened(ui) /\ FormOk(f, ui.form[f], calls, db[f])
      /\ c.arg.save \in BOOLEAN
      /\ c.arg.save = FALSE => c \in LoadsOf(f) /\ ui.form[f].busy = FALSE
      /\ c.arg.save = TRUE => c \in SavesOf(f) /\ ui.form[f].loading = FALSE
  BY CallIsOfAForm
<1>2. calls \in Seq(FormCalls) /\ DOMAIN ui.form = Opened(ui) /\ DOMAIN ui = FormsFields
  BY DEF FormsInv
<1>3. /\ OneOf(LoadsOf(f), calls) /\ OneOf(SavesOf(f), calls) /\ NoneOf(Misfits(f, db[f]), calls)
      /\ c.arg.save = FALSE => NoneOf(SavesOf(f), calls)
      /\ c.arg.save = TRUE => NoneOf(LoadsOf(f), calls)
  BY <1>1 DEF FormOk
<1>4. /\ NoneOf(LoadsOf(f), calls') /\ NoneOf(SavesOf(f), calls') /\ NoneOf(Misfits(f, db[f]), calls')
  <2>1. CASE c.arg.save = FALSE
    BY <1>1, <1>2, <1>3, <2>1, RestOf
  <2>2. CASE c.arg.save = TRUE
    BY <1>1, <1>2, <1>3, <2>2, RestOf
  <2> QED
    BY <1>1, <2>1, <2>2
<1>5. FormOk(f, s, calls', db[f])
  BY <1>1, <1>4, FormQuiet
<1>6. calls' \in Seq(FormCalls) /\ \A op : op # f => Unrelated(op, calls, calls')
  BY <1>2, WithoutOne, UnrelatedRest
<1> HIDE DEF f
<1>7. ui' = Forms!Put(ui, f, s)
  BY DEF f
<1>8. FormsInv' /\ OthersKept(f)
  BY <1>1, <1>5, <1>6, <1>7, FormPuts
<1>9. ui'.form[f] = s
  <2>1. PutAs(ui, f, s, ui')
    BY <1>1, <1>2, <1>7, PutIs
  <2> QED
    BY <1>1, <1>2, <2>1 DEF PutAs
<1> QED
  BY <1>8, <1>9 DEF f

\* What a user has typed stays, unless it is what was saved.
KeptAsTyped ==
    \A f \in DOMAIN ui.form :
        Forms!Dirty(ui.form[f]) =>
            \/ Forms!Content(ui'.form[f]) = Forms!Content(ui.form[f])
            \/ Forms!SavedAsTyped(ui.form[f], ui'.form[f])

LEMMA NoFormIs ==
    Forms!NoForm = [saved |-> FALSE, base |-> Blank, rev |-> 0, draft |-> Blank, secret |-> FALSE,
                    error |-> FALSE, notice |-> FALSE, loading |-> FALSE, busy |-> FALSE, conflict |-> FALSE]
BY Zenon DEF Forms!NoForm, Blank

LEMMA TakenIs ==
    ASSUME NEW s, NEW d \in Datas
    PROVE  /\ Forms!Taken(s, d) \in FormStates /\ Forms!Taken(s, d).saved = TRUE
           /\ Forms!Taken(s, d).base = d.v /\ Forms!Taken(s, d).rev = d.rev /\ Forms!Taken(s, d).draft = d.v
           /\ Forms!Taken(s, d).loading = FALSE /\ Forms!Taken(s, d).busy = FALSE
           /\ Forms!Taken(s, d).secret = FALSE
           /\ Forms!Taken(s, d).draft \in FormTexts /\ Forms!Taken(s, d).base \in FormValues
<1>1. d.v \in FormValues /\ d.v \in FormTexts /\ d.rev \in Nat
  BY FormsAssumption DEF Datas
<1>2. Forms!Taken(s, d) = [Forms!NoForm EXCEPT !.saved = TRUE, !.base = d.v, !.rev = d.rev, !.draft = d.v]
  BY DEF Forms!Taken
<1>3. Forms!Taken(s, d) = [saved |-> TRUE, base |-> d.v, rev |-> d.rev, draft |-> d.v, secret |-> FALSE,
          error |-> FALSE, notice |-> FALSE, loading |-> FALSE, busy |-> FALSE, conflict |-> FALSE]
  BY <1>2, NoFormIs
<1> QED
  BY <1>1, <1>3 DEF FormStates

LEMMA FormsDeliverLoad ==
    ASSUME FormsInv, NEW i \in DOMAIN calls, Forms!DeliverLoad(i), db' = db
    PROVE  FormsInv' /\ KeptAsTyped
<1> DEFINE f == calls[i].op
           s == ui.form[f]
           t(a) == IF a.ok THEN Forms!Taken(s, a.data) ELSE [s EXCEPT !.error = TRUE, !.loading = FALSE]
<1>1. f # "me" /\ ~calls[i].arg.save
  BY DEF Forms!DeliverLoad
<1>2. PICK a \in Forms!Answers(i) : ui' = Forms!Put(ui, f, t(a)) /\ calls' = Forms!Rest(i)
  BY DEF Forms!DeliverLoad, Forms!Show
<1>3. calls' = Without(calls, i)
  BY <1>2 DEF Forms!Rest, Forms!Without, Without
<1>4. /\ f \in Opened(ui) /\ s.saved = FALSE /\ s.busy = FALSE /\ s \in FormStates
  BY <1>1, CallIsOfAForm DEF FormOk
<1>5. a.ok \in BOOLEAN /\ (a.ok = TRUE => a.data \in Datas /\ Fits(a.data, db[f]))
  BY <1>1, FormAnswered
<1>6. /\ t(a) \in FormStates /\ t(a).loading = FALSE /\ t(a).busy = FALSE
      /\ t(a).saved = TRUE => t(a).draft \in FormTexts /\ t(a).base \in FormValues /\ Fits([v |-> t(a).base, rev |-> t(a).rev], db[f])
  <2>1. CASE a.ok = TRUE
    <3> DEFINE k == Forms!Taken(s, a.data)
    <3>1. t(a) = k
      BY <2>1
    <3>2. Fits([v |-> a.data.v, rev |-> a.data.rev], db[f])
      BY <1>5, <2>1 DEF Fits
    <3>3. /\ k \in FormStates /\ k.base = a.data.v /\ k.rev = a.data.rev
          /\ k.loading = FALSE /\ k.busy = FALSE /\ k.draft \in FormTexts /\ k.base \in FormValues
      BY <1>5, <2>1, TakenIs
    <3> HIDE DEF t, k
    <3> QED
      BY <3>1, <3>2, <3>3
  <2>2. CASE a.ok = FALSE
    <3>1. t(a) = [s EXCEPT !.error = TRUE, !.loading = FALSE]
      BY <2>2
    <3> HIDE DEF t, s
    <3> QED
      BY <1>4, <3>1 DEF FormStates
  <2> QED
    BY <1>5, <2>1, <2>2
<1> HIDE DEF t
<1>7. FormsInv' /\ OthersKept(f)
  BY <1>1, <1>2, <1>3, <1>6, FormDelivered
<1>8. ~Forms!Dirty(ui.form[f])
  BY <1>4 DEF Forms!Dirty
<1>9. DOMAIN ui.form = Opened(ui)
  BY DEF FormsInv
<1> QED
  BY <1>7, <1>8, <1>9 DEF KeptAsTyped, OthersKept

LEMMA FormsDeliverSave ==
    ASSUME FormsInv, NEW i \in DOMAIN calls, Forms!DeliverSave(i), db' = db
    PROVE  FormsInv' /\ KeptAsTyped
<1> DEFINE f == calls[i].op
           s == ui.form[f]
           t(a) == IF a.ok THEN [Forms!Taken(s, a.data) EXCEPT !.notice = TRUE]
                   ELSE [s EXCEPT !.error = TRUE, !.busy = FALSE, !.conflict = a.code = "conflict"]
<1>1. f # "me" /\ calls[i].arg.save
  BY DEF Forms!DeliverSave
<1>2. PICK a \in Forms!Answers(i) : ui' = Forms!Put(ui, f, t(a)) /\ calls' = Forms!Rest(i)
  BY DEF Forms!DeliverSave, Forms!Show
<1>3. calls' = Without(calls, i)
  BY <1>2 DEF Forms!Rest, Forms!Without, Without
<1>4. /\ f \in Opened(ui) /\ s.saved = TRUE /\ s.busy = TRUE /\ s.loading = FALSE /\ s \in FormStates
      /\ s.draft \in FormTexts /\ s.base \in FormValues /\ Fits([v |-> s.base, rev |-> s.rev], db[f])
      /\ calls[i].arg.save = TRUE
  BY <1>1, CallIsOfAForm DEF FormOk
<1>5. a.ok \in BOOLEAN /\ (a.ok = TRUE => /\ a.data \in Datas /\ Fits(a.data, db[f])
                                          /\ a.data.v = FormParsed[s.draft])
  BY <1>1, <1>4, FormAnswered
<1>6. /\ t(a) \in FormStates /\ t(a).loading = FALSE /\ t(a).busy = FALSE
      /\ t(a).saved = TRUE => t(a).draft \in FormTexts /\ t(a).base \in FormValues /\ Fits([v |-> t(a).base, rev |-> t(a).rev], db[f])
      /\ Forms!Content(t(a)) = Forms!Content(s) \/ Forms!SavedAsTyped(s, t(a))
  <2>1. CASE a.ok = TRUE
    <3> DEFINE k == Forms!Taken(s, a.data)
    <3>1. t(a) = [k EXCEPT !.notice = TRUE]
      BY <2>1
    <3>2. Fits([v |-> a.data.v, rev |-> a.data.rev], db[f])
      BY <1>5, <2>1 DEF Fits
    <3>3. /\ k \in FormStates /\ k.base = a.data.v /\ k.rev = a.data.rev /\ k.draft = a.data.v
          /\ k.saved = TRUE /\ k.secret = FALSE
          /\ k.loading = FALSE /\ k.busy = FALSE /\ k.draft \in FormTexts /\ k.base \in FormValues
      BY <1>5, <2>1, TakenIs
    <3> HIDE DEF t, k
    <3>4. /\ t(a) \in FormStates /\ t(a).loading = FALSE /\ t(a).busy = FALSE /\ t(a).draft = k.draft
          /\ t(a).base = k.base /\ t(a).rev = k.rev /\ t(a).notice = TRUE
          /\ t(a).saved = TRUE /\ t(a).secret = FALSE
      BY <3>1, <3>3 DEF FormStates
    <3>5. Forms!SavedAsTyped(s, t(a))
      BY <1>4, <1>5, <2>1, <3>3, <3>4 DEF Forms!SavedAsTyped, Forms!Content
    <3> QED
      BY <1>5, <2>1, <3>2, <3>3, <3>4, <3>5
  <2>2. CASE a.ok = FALSE
    <3> DEFINE met == a.code = "conflict"
    <3>1. t(a) = [s EXCEPT !.error = TRUE, !.busy = FALSE, !.conflict = met]
      BY <2>2
    <3>2. met \in BOOLEAN
      OBVIOUS
    <3> HIDE DEF t, s, met
    <3>3. /\ t(a) \in FormStates /\ t(a).loading = FALSE /\ t(a).busy = FALSE /\ t(a).draft = s.draft
          /\ t(a).base = s.base /\ t(a).rev = s.rev
          /\ t(a).saved = s.saved /\ t(a).secret = s.secret
      BY <1>4, <3>1, <3>2 DEF FormStates
    <3>4. Forms!Content(t(a)) = Forms!Content(s)
      BY <3>3 DEF Forms!Content
    <3> QED
      BY <1>4, <3>3, <3>4
  <2> QED
    BY <1>5, <2>1, <2>2
<1> HIDE DEF t
<1>7. FormsInv' /\ OthersKept(f) /\ ui'.form[f] = t(a)
  BY <1>1, <1>2, <1>3, <1>6, FormDelivered
<1>8. DOMAIN ui.form = Opened(ui)
  BY DEF FormsInv
<1> QED
  BY <1>4, <1>6, <1>7, <1>8 DEF KeptAsTyped, OthersKept


\* The loads of the forms that mount, one each.
LoadsFor(fs, cs) ==
    /\ cs \in Seq(FormCalls)
    /\ \A k \in DOMAIN cs : cs[k].op \in fs /\ cs[k] \in LoadsOf(cs[k].op) /\ cs[k].st = "sent"
    /\ \A j, k \in DOMAIN cs : cs[j].op = cs[k].op => j = k

LEMMA LoadCallIs ==
    ASSUME NEW f \in FormNames
    PROVE  /\ Forms!LoadCall(f) \in LoadsOf(f) /\ Forms!LoadCall(f).st = "sent" /\ Forms!LoadCall(f).op = f
           /\ Forms!LoadCall(f) \in FormCalls
<1>1. Forms!LoadCall(f) = Forms!Call(f, LoadArg, Forms!Effect)
  BY Zenon DEF Forms!LoadCall, LoadArg, Blank
<1>2. Forms!Call(f, LoadArg, Forms!Effect) \in LoadsOf(f)
  BY CallSent DEF Forms!Call, Forms!Refused, LoadsOf
<1>3. Forms!Call(f, LoadArg, Forms!Effect).st = "sent" /\ Forms!Call(f, LoadArg, Forms!Effect).op = f
  BY DEF Forms!Call
<1> QED
  BY <1>1, <1>2, <1>3, FormKindsFor

LEMMA OneMoreLoad ==
    ASSUME NEW fs, NEW cs, LoadsFor(fs, cs), NEW f \in FormNames \ fs
    PROVE  LoadsFor(fs \cup {f}, Append(cs, Forms!LoadCall(f)))
<1> DEFINE c == Forms!LoadCall(f)
           t == Append(cs, c)
<1>1. c \in LoadsOf(f) /\ c.st = "sent" /\ c.op = f /\ c \in FormCalls
  BY LoadCallIs
<1> HIDE DEF c
<1>2. cs \in Seq(FormCalls)
  BY DEF LoadsFor
<1>3. /\ t \in Seq(FormCalls) /\ Len(cs) \in Nat /\ DOMAIN cs = 1 .. Len(cs) /\ DOMAIN t = 1 .. Len(cs) + 1
      /\ t[Len(cs) + 1] = c /\ \A k \in 1 .. Len(cs) : t[k] = cs[k]
  BY <1>1, <1>2
<1> HIDE DEF t
<1>4. \A k \in DOMAIN t : k \in DOMAIN cs \/ k = Len(cs) + 1
  BY <1>3
<1> QED
  BY <1>1, <1>3, <1>4 DEF LoadsFor, t, c

LEMMA LoadCallsAre == ASSUME NEW fs \in SUBSET FormNames PROVE LoadsFor(fs, Forms!LoadCalls(fs))
<1> DEFINE r == IF "runtime" \in fs THEN <<Forms!LoadCall("runtime")>> ELSE <<>>
           c == IF "captcha" \in fs THEN <<Forms!LoadCall("captcha")>> ELSE <<>>
           t == IF "tracking" \in fs THEN <<Forms!LoadCall("tracking")>> ELSE <<>>
<1>1. Forms!LoadCalls(fs) = (r \o c) \o t
  BY DEF Forms!LoadCalls
<1>2. \A f \in FormNames : Forms!LoadCall(f) \in FormCalls
  BY LoadCallIs
<1>3. "runtime" \in FormNames /\ "captcha" \in FormNames /\ "tracking" \in FormNames
  BY DEF FormNames
<1>4. LoadsFor(fs \cap {"runtime"}, r)
  <2>1. LoadsFor({}, <<>>)
    BY DEF LoadsFor
  <2>2. CASE "runtime" \in fs
    <3>1. Append(<<>>, Forms!LoadCall("runtime")) = r /\ fs \cap {"runtime"} = {} \cup {"runtime"}
      BY <2>2
    <3> QED
      BY <1>3, <2>1, <3>1, OneMoreLoad
  <2>3. CASE "runtime" \notin fs
    <3>1. r = <<>> /\ fs \cap {"runtime"} = {}
      BY <2>3
    <3> QED
      BY <2>1, <3>1
  <2> QED
    BY <2>2, <2>3
<1>5. r \in Seq(FormCalls)
  BY <1>4 DEF LoadsFor
<1> HIDE DEF r
<1>6. LoadsFor(fs \cap {"runtime", "captcha"}, r \o c)
  <2>1. CASE "captcha" \in fs
    <3>1. r \o c = Append(r, Forms!LoadCall("captcha"))
      BY <1>2, <1>3, <1>5, <2>1
    <3>2. fs \cap {"runtime", "captcha"} = (fs \cap {"runtime"}) \cup {"captcha"}
      BY <2>1
    <3>3. "captcha" \in FormNames \ (fs \cap {"runtime"})
      BY <1>3
    <3>4. LoadsFor((fs \cap {"runtime"}) \cup {"captcha"}, Append(r, Forms!LoadCall("captcha")))
      BY <1>4, <3>3, OneMoreLoad
    <3> QED
      BY <3>1, <3>2, <3>4
  <2>2. CASE "captcha" \notin fs
    <3>1. r \o c = r /\ fs \cap {"runtime", "captcha"} = fs \cap {"runtime"}
      BY <1>5, <2>2
    <3> QED
      BY <1>4, <3>1
  <2> QED
    BY <2>1, <2>2
<1>7. r \o c \in Seq(FormCalls)
  BY <1>6 DEF LoadsFor
<1> DEFINE rc == r \o c
<1>8. LoadsFor(fs \cap {"runtime", "captcha"}, rc) /\ rc \in Seq(FormCalls)
  BY <1>6, <1>7
<1> HIDE DEF rc
<1>9. LoadsFor(fs, rc \o t)
  <2>1. CASE "tracking" \in fs
    <3>1. rc \o t = Append(rc, Forms!LoadCall("tracking"))
      BY <1>2, <1>3, <1>8, <2>1
    <3>2. fs = (fs \cap {"runtime", "captcha"}) \cup {"tracking"}
      BY <2>1 DEF FormNames
    <3>3. "tracking" \in FormNames \ (fs \cap {"runtime", "captcha"})
      BY <1>3
    <3>4. LoadsFor((fs \cap {"runtime", "captcha"}) \cup {"tracking"}, Append(rc, Forms!LoadCall("tracking")))
      BY <1>8, <3>3, OneMoreLoad
    <3> QED
      BY <3>1, <3>2, <3>4
  <2>2. CASE "tracking" \notin fs
    <3>1. rc \o t = rc
      BY <1>8, <2>2
    <3>2. fs = fs \cap {"runtime", "captcha"}
      BY <2>2 DEF FormNames
    <3> QED
      BY <1>8, <3>1, <3>2
  <2> QED
    BY <2>1, <2>2
<1> QED
  BY <1>1, <1>9 DEF rc


\* A form that loads, with its load alone in flight.
LEMMA FormLoads ==
    ASSUME NEW f \in FormNames, NEW fs, f \in fs, NEW cs, LoadsFor(fs, cs), NEW d
    PROVE  FormOk(f, Forms!Loading, cs, d)
<1>1. /\ Forms!Loading \in FormStates /\ Forms!Loading.saved = FALSE /\ Forms!Loading.loading = TRUE
      /\ Forms!Loading.busy = FALSE
  <2>1. Forms!Loading = [Forms!NoForm EXCEPT !.loading = TRUE]
    BY DEF Forms!Loading
  <2> QED
    BY <2>1, NoFormIs DEF FormStates
<1>2. ASSUME NEW k \in DOMAIN cs
      PROVE  cs[k] \in LoadsOf(cs[k].op) /\ cs[k].st = "sent" /\ cs[k] \notin SavesOf(f) /\ cs[k] \in FormCalls
  <2>1. cs[k] \in LoadsOf(cs[k].op) /\ cs[k].st = "sent" /\ cs[k] \in FormCalls
    BY DEF LoadsFor
  <2>2. cs[k].arg.save = FALSE
    <3> DEFINE c == cs[k]
               op == cs[k].op
    <3>1. c \in LoadsOf(op)
      BY <2>1
    <3> HIDE DEF c, op
    <3>2. c.arg = LoadArg /\ c.arg.save = FALSE
      BY <3>1, LoadIs
    <3> QED
      BY <3>2 DEF c
  <2> QED
    BY <2>1, <2>2, SaveIs
<1>3. NoneOf(SavesOf(f), cs)
  BY <1>2 DEF NoneOf
<1>4. NoneOf(Strays(f, Forms!Loading), cs)
  BY <1>3, FormKindsFor DEF NoneOf
<1>5. NoneOf(Misfits(f, d), cs)
  BY <1>2 DEF NoneOf, Misfits
<1>6. OneOf(LoadsOf(f), cs)
  <2>1. \A c \in LoadsOf(f) : c.op = f
    BY LoadIs
  <2> QED
    BY <2>1 DEF OneOf, LoadsFor
<1> QED
  BY <1>1, <1>3, <1>4, <1>5, <1>6, NoneIsOne DEF FormOk

LEMMA LoadsOnly ==
    ASSUME NEW fs \in SUBSET FormNames, NEW cs, LoadsFor(fs, cs)
    PROVE  /\ \A f \in FormNames \ fs : NoneOf(LoadsOf(f), cs) /\ NoneOf(SavesOf(f), cs)
           /\ NoneOf(Whos, cs)
<1>1. ASSUME NEW f \in FormNames \ fs, NEW k \in DOMAIN cs PROVE cs[k] \notin LoadsOf(f) /\ cs[k] \notin SavesOf(f)
  <2>1. cs[k].op \in fs
    BY DEF LoadsFor
  <2> QED
    BY <2>1, LoadIs, SaveIs
<1>2. ASSUME NEW k \in DOMAIN cs PROVE cs[k] \notin Whos
  <2>1. cs[k].op \in FormNames
    BY DEF LoadsFor
  <2> QED
    BY <2>1, CallHas DEF Whos, FormNames
<1> QED
  BY <1>1, <1>2 DEF NoneOf

\* While the scopes are asked for, nothing else is in flight.
LEMMA OnlyWho ==
    ASSUME FormsInv, NEW i \in DOMAIN calls, calls[i].op = "me"
    PROVE  ui.access = "loading" /\ Opened(ui) = {} /\ Without(calls, i) = <<>>
<1>1. calls \in Seq(FormCalls) /\ OneOf(Whos, calls) /\ (ui.access # "loading" => NoneOf(Whos, calls))
  BY DEF FormsInv
<1>2. calls[i] \in Whos
  <2>1. calls[i] \in FormCalls
    BY <1>1
  <2> QED
    BY <2>1, FormKinds
<1>3. ui.access = "loading" /\ Opened(ui) = {}
  BY <1>1, <1>2 DEF NoneOf, Opened
<1>4. ASSUME NEW k \in DOMAIN calls PROVE calls[k] \in Whos
  <2>1. calls[k] \in FormCalls
    BY <1>1
  <2>2. \A f \in FormNames : calls[k] \notin LoadsOf(f) /\ calls[k] \notin SavesOf(f)
    BY <1>3 DEF FormsInv, NoneOf
  <2> QED
    BY <2>1, <2>2 DEF FormCalls
<1>5. \A k \in DOMAIN calls : k = i
  BY <1>1, <1>2, <1>4 DEF OneOf
<1>6. Len(calls) \in Nat /\ DOMAIN calls = 1 .. Len(calls) /\ Len(calls) >= 1
  BY <1>1
<1>7. Len(calls) = 1
  <2>1. 1 \in DOMAIN calls /\ Len(calls) \in DOMAIN calls
    BY <1>6
  <2> QED
    BY <1>5, <2>1
<1>8. Without(calls, i) \in Seq(FormCalls) /\ Len(Without(calls, i)) = 0
  BY <1>1, <1>7, WithoutOne
<1> HIDE DEF Without
<1> QED
  BY <1>3, <1>8

LEMMA FormsDeliverMe ==
    ASSUME FormsInv, NEW i \in DOMAIN calls, Forms!DeliverMe(i), db' = db
    PROVE  FormsInv' /\ KeptAsTyped
<1>1. ui.access = "loading" /\ Opened(ui) = {} /\ Without(calls, i) = <<>>
  BY OnlyWho DEF Forms!DeliverMe
<1>2. Forms!Rest(i) = <<>>
  BY <1>1 DEF Forms!Rest, Forms!Without, Without
<1>3. /\ DOMAIN ui = FormsFields /\ ui.forms \in SUBSET FormNames /\ ui.dirty = {}
      /\ ui.pending \in BOOLEAN /\ ui.left \in BOOLEAN /\ ui.form \in [{} -> FormStates]
      /\ db \in [ui.forms -> Datas]
  BY <1>1 DEF FormsInv
<1>4. KeptAsTyped
  BY <1>3 DEF KeptAsTyped
<1>5. CASE ui' = [ui EXCEPT !.access = "error"] /\ calls' = Forms!Rest(i)
  <2>1. /\ DOMAIN ui' = FormsFields /\ ui'.forms = ui.forms /\ ui'.dirty = ui.dirty /\ ui'.access = "error"
        /\ ui'.pending = ui.pending /\ ui'.left = ui.left /\ ui'.form = ui.form
    BY <1>3, <1>5 DEF FormsFields
  <2>2. Opened(ui') = {}
    BY <2>1 DEF Opened
  <2>3. calls' \in Seq(FormCalls) /\ DOMAIN calls' = {}
    BY <1>2, <1>5
  <2> QED
    BY <1>3, <1>4, <2>1, <2>2, <2>3 DEF FormsInv, NoneOf, OneOf, Opened
<1>6. CASE /\ ui' = [ui EXCEPT !.access = "open", !.form = [f \in ui.forms |-> Forms!Loading]]
           /\ calls' = Forms!Rest(i) \o Forms!LoadCalls(ui.forms)
  <2>1. /\ DOMAIN ui' = FormsFields /\ ui'.forms = ui.forms /\ ui'.dirty = ui.dirty /\ ui'.access = "open"
        /\ ui'.pending = ui.pending /\ ui'.left = ui.left /\ ui'.form = [f \in ui.forms |-> Forms!Loading]
    BY <1>3, <1>6 DEF FormsFields
  <2>2. Opened(ui') = ui.forms
    BY <2>1 DEF Opened
  <2>3. LoadsFor(ui.forms, calls')
    <3>1. LoadsFor(ui.forms, Forms!LoadCalls(ui.forms))
      BY <1>3, LoadCallsAre
    <3>2. Forms!LoadCalls(ui.forms) \in Seq(FormCalls)
      BY <3>1 DEF LoadsFor
    <3>3. calls' = Forms!LoadCalls(ui.forms)
      BY <1>2, <1>6, <3>2
    <3> QED
      BY <3>1, <3>3
  <2>4. \A f \in ui.forms : FormOk(f, Forms!Loading, calls', db[f])
    BY <1>3, <2>3, FormLoads
  <2>5. ~Forms!Dirty(Forms!Loading) /\ Forms!Loading \in FormStates
    <3>1. Forms!Loading = [Forms!NoForm EXCEPT !.loading = TRUE]
      BY DEF Forms!Loading
    <3>2. Forms!Loading.saved = FALSE /\ Forms!Loading \in FormStates
      BY <3>1, NoFormIs DEF FormStates
    <3> QED
      BY <3>2 DEF Forms!Dirty
  <2>6. /\ \A f \in FormNames \ ui.forms : NoneOf(LoadsOf(f), calls') /\ NoneOf(SavesOf(f), calls')
        /\ NoneOf(Whos, calls') /\ OneOf(Whos, calls') /\ calls' \in Seq(FormCalls)
    BY <1>3, <2>3, LoadsOnly, NoneIsOne DEF LoadsFor
  <2>7. ui'.form \in [ui.forms -> FormStates] /\ \A f \in ui.forms : ui'.form[f] = Forms!Loading
    BY <2>1, <2>5
  <2> QED
    BY <1>3, <1>4, <2>1, <2>2, <2>4, <2>5, <2>6, <2>7 DEF FormsInv, Opened
<1> QED
  BY <1>5, <1>6 DEF Forms!DeliverMe, Forms!Show

LEMMA FormsDeliver ==
    ASSUME FormsInv, NEW i \in DOMAIN calls, Forms!Deliver(i)
    PROVE  FormsInv' /\ db' = db /\ KeptAsTyped
BY FormsDeliverMe, FormsDeliverLoad, FormsDeliverSave DEF Forms!Deliver


\* A control of form f that calls nothing.
LEMMA FormEdited ==
    ASSUME FormsInv, NEW f \in Forms!OpenForms, NEW s \in FormStates, ui' = Forms!Put(ui, f, s),
           calls' = calls, db' = db, s.draft \in FormTexts, s.saved = TRUE, s.loading = FALSE, s.busy = FALSE,
           s.base = ui.form[f].base, s.rev = ui.form[f].rev
    PROVE  FormsInv' /\ OthersKept(f)
<1>1. f \in Opened(ui)
  BY DEF FormsInv, Forms!OpenForms
<1>2. /\ f \in FormNames /\ f \in Forms!OpenForms /\ FormOk(f, ui.form[f], calls, db[f])
      /\ ui.form[f].saved = TRUE /\ ui.form[f].busy = FALSE /\ ui.form[f].loading = FALSE
      /\ NoneOf(LoadsOf(f), calls) /\ NoneOf(SavesOf(f), calls)
  BY <1>1, OpenForm
<1>3. NoneOf(Misfits(f, db[f]), calls) /\ s.base \in FormValues /\ Fits([v |-> s.base, rev |-> s.rev], db[f])
  BY <1>2 DEF FormOk
<1>4. FormOk(f, s, calls', db[f])
  BY <1>2, <1>3, FormQuiet
<1>5. calls' \in Seq(FormCalls) /\ \A op : Unrelated(op, calls, calls')
  BY DEF FormsInv, Unrelated
<1> QED
  BY <1>1, <1>4, <1>5, FormPuts

\* A control of form f that calls the API.
LEMMA FormSends ==
    ASSUME FormsInv, NEW f \in Opened(ui), NEW s, NEW c \in LoadsOf(f) \cup SavesOf(f),
           ui' = Forms!Put(ui, f, s), calls' = Append(calls, c), db' = db, FormOk(f, s, calls', db[f])
    PROVE  FormsInv' /\ OthersKept(f)
<1>1. calls \in Seq(FormCalls) /\ f \in FormNames
  BY DEF FormsInv, Opened
<1>2. c.op = f /\ c \in FormCalls
  BY <1>1, LoadIs, SaveIs, FormKindsFor
<1>3. calls' \in Seq(FormCalls)
  BY <1>1, <1>2
<1>4. \A op : op # f => Unrelated(op, calls, calls')
  BY <1>1, <1>2, UnrelatedAppend
<1> QED
  BY <1>3, <1>4, FormPuts

LEMMA FormsSave ==
    ASSUME FormsInv, NEW f \in ui.forms, Forms!Save(f), db' = db
    PROVE  FormsInv' /\ OthersKept(f)
<1> DEFINE s == [ui.form[f] EXCEPT !.error = FALSE, !.notice = FALSE]
           v == FormParsed[s.draft]
<1>1. f \in Forms!OpenForms /\ f \in Opened(ui)
  BY DEF FormsInv, Forms!Save, Forms!OpenForms
<1>2. /\ f \in FormNames /\ FormOk(f, ui.form[f], calls, db[f]) /\ ui.form[f] \in FormStates
      /\ ui.form[f].saved = TRUE /\ ui.form[f].busy = FALSE /\ ui.form[f].loading = FALSE
      /\ NoneOf(LoadsOf(f), calls) /\ NoneOf(SavesOf(f), calls) /\ db[f] \in Datas
  BY <1>1, OpenForm
<1>3. /\ s \in FormStates /\ s.saved = TRUE /\ s.loading = FALSE /\ s.busy = FALSE
      /\ s.draft = ui.form[f].draft /\ s.base = ui.form[f].base /\ s.rev = ui.form[f].rev
  BY <1>2 DEF FormStates
<1>4. /\ s.draft \in FormTexts /\ s.base \in FormValues /\ Fits([v |-> s.base, rev |-> s.rev], db[f])
      /\ NoneOf(Misfits(f, db[f]), calls)
  BY <1>2, <1>3 DEF FormOk
<1>5. v \in FormValues \cup {"bad"} /\ s.base \in FormTexts
  BY <1>4, FormsAssumption
<1>6. \/ ui' = Forms!Put(ui, f, [s EXCEPT !.error = TRUE]) /\ calls' = calls
      \/ ui' = Forms!Put(ui, f, [s EXCEPT !.draft = s.base]) /\ calls' = calls
      \/ /\ ui' = Forms!Put(ui, f, [s EXCEPT !.busy = TRUE])
         /\ calls' = Append(calls, Forms!Call(f, [save |-> TRUE, v |-> v, rev |-> s.rev], Forms!Effect))
  BY DEF Forms!Save, Forms!Set, Forms!Send
<1> HIDE DEF s, v
<1>7. CASE ui' = Forms!Put(ui, f, [s EXCEPT !.error = TRUE]) /\ calls' = calls
  <2> DEFINE t == [s EXCEPT !.error = TRUE]
  <2>1. /\ t \in FormStates /\ t.draft = s.draft /\ t.saved = TRUE /\ t.loading = FALSE /\ t.busy = FALSE
        /\ t.base = s.base /\ t.rev = s.rev
    BY <1>3 DEF FormStates
  <2> HIDE DEF t
  <2>2. ui' = Forms!Put(ui, f, t)
    BY <1>7 DEF t
  <2> QED
    BY <1>1, <1>3, <1>4, <1>7, <2>1, <2>2, FormEdited
<1>8. CASE ui' = Forms!Put(ui, f, [s EXCEPT !.draft = s.base]) /\ calls' = calls
  <2> DEFINE t == [s EXCEPT !.draft = s.base]
  <2>1. /\ t \in FormStates /\ t.draft = s.base /\ t.saved = TRUE /\ t.loading = FALSE /\ t.busy = FALSE
        /\ t.base = s.base /\ t.rev = s.rev
    BY <1>3, <1>5 DEF FormStates
  <2> HIDE DEF t
  <2>2. ui' = Forms!Put(ui, f, t)
    BY <1>8 DEF t
  <2> QED
    BY <1>1, <1>3, <1>5, <1>8, <2>1, <2>2, FormEdited
<1>9. CASE /\ ui' = Forms!Put(ui, f, [s EXCEPT !.busy = TRUE])
           /\ calls' = Append(calls, Forms!Call(f, [save |-> TRUE, v |-> v, rev |-> s.rev], Forms!Effect))
  <2> DEFINE t == [s EXCEPT !.busy = TRUE]
             arg == [save |-> TRUE, v |-> v, rev |-> s.rev]
             c == Forms!Call(f, arg, Forms!Effect)
  <2>1. /\ t \in FormStates /\ t.draft = s.draft /\ t.saved = TRUE /\ t.loading = FALSE /\ t.busy = TRUE
        /\ t.base = s.base /\ t.rev = s.rev
    BY <1>3 DEF FormStates
  <2>2. s.rev \in Nat
    BY <1>3 DEF FormStates
  <2>3. arg \in SaveArgs /\ arg.v = v /\ arg.rev = s.rev /\ arg.save = TRUE
    BY <1>5, <2>2 DEF SaveArgs
  <2> HIDE DEF arg
  <2>4. c \in SavesOf(f)
    BY <2>3, CallSent DEF Forms!Call, Forms!Refused, SavesOf
  <2>5. c.arg = arg /\ c.st = "sent"
    BY DEF Forms!Call
  <2>6. ui' = Forms!Put(ui, f, t) /\ calls' = Append(calls, c)
    BY <1>9 DEF t, arg
  <2> HIDE DEF t, c
  <2>7. c \notin LoadsOf(f) /\ c \notin Strays(f, t) /\ c \notin Misfits(f, db[f])
    <3>1. c \notin LoadsOf(f)
      BY <2>4, LoadIs, SaveIs
    <3>2. c \notin Strays(f, t)
      BY <2>1, <2>3, <2>5 DEF Strays, v
    <3>3. c \notin Misfits(f, db[f])
      BY <2>5 DEF Misfits
    <3> QED
      BY <3>1, <3>2, <3>3
  <2>8. calls \in Seq(FormCalls)
    BY DEF FormsInv
  <2>9. NoneOf(Strays(f, t), calls)
    BY <1>2, FormKindsFor DEF NoneOf
  <2>10. /\ NoneOf(LoadsOf(f), calls') /\ OneOf(SavesOf(f), calls')
         /\ NoneOf(Strays(f, t), calls') /\ NoneOf(Misfits(f, db[f]), calls')
    BY <1>2, <1>4, <2>6, <2>7, <2>8, <2>9, AppendOf
  <2>11. FormOk(f, t, calls', db[f])
    BY <1>4, <2>1, <2>10, NoneIsOne DEF FormOk
  <2> QED
    BY <1>1, <2>4, <2>6, <2>11, FormSends
<1> QED
  BY <1>6, <1>7, <1>8, <1>9

LEMMA FormsLoadAgain ==
    ASSUME FormsInv, NEW f, Forms!LoadAgain(f), db' = db
    PROVE  FormsInv' /\ OthersKept(f)
<1> DEFINE s == ui.form[f]
           t == Forms!Reload(f, s)
           c == Forms!LoadCall(f)
<1>1. f \in Opened(ui) /\ (s.saved = TRUE => f \in Forms!OpenForms) /\ ~s.loading
  BY DEF FormsInv, Forms!LoadAgain
<1>2. /\ f \in FormNames /\ FormOk(f, s, calls, db[f]) /\ s \in FormStates
      /\ s.saved = TRUE => s.busy = FALSE
      /\ s.loading = FALSE => NoneOf(LoadsOf(f), calls)
      /\ s.busy = FALSE => NoneOf(SavesOf(f), calls)
  BY <1>1, OpenForm
<1>3. s.saved \in BOOLEAN /\ s.loading = FALSE /\ s.busy \in BOOLEAN /\ s.error \in BOOLEAN
      /\ s.draft \in FormTexts \cup {Blank}
  BY <1>1, <1>2 DEF FormStates
<1>4. NoneOf(LoadsOf(f), calls) /\ NoneOf(SavesOf(f), calls) /\ NoneOf(Misfits(f, db[f]), calls)
  BY <1>2, <1>3 DEF FormOk
<1>5. /\ t \in FormStates /\ t.saved = FALSE /\ t.loading = TRUE /\ t.busy = FALSE
  <2>1. t = [Forms!Loading EXCEPT !.draft = s.draft, !.error = f # "runtime" /\ s.error]
    BY DEF Forms!Reload
  <2>2. Forms!Loading = [Forms!NoForm EXCEPT !.loading = TRUE]
    BY DEF Forms!Loading
  <2>3. (f # "runtime" /\ s.error) \in BOOLEAN
    OBVIOUS
  <2> HIDE DEF t, s
  <2> QED
    BY <1>3, <2>1, <2>2, <2>3, NoFormIs DEF FormStates
<1>6. c \in LoadsOf(f) /\ c.st = "sent"
  BY <1>2, LoadCallIs
<1>7. ui' = Forms!Put(ui, f, t) /\ calls' = Append(calls, c)
  BY DEF Forms!LoadAgain, Forms!Send
<1> HIDE DEF s, t, c
<1>8. c \notin SavesOf(f) /\ c \notin Strays(f, t) /\ c \notin Misfits(f, db[f])
  BY <1>2, <1>6, LoadIs, SaveIs, FormKindsFor DEF Misfits
<1>9. calls \in Seq(FormCalls)
  BY DEF FormsInv
<1>10. NoneOf(Strays(f, t), calls)
  BY <1>2, <1>4, FormKindsFor DEF NoneOf
<1>11. /\ OneOf(LoadsOf(f), calls') /\ NoneOf(SavesOf(f), calls')
       /\ NoneOf(Strays(f, t), calls') /\ NoneOf(Misfits(f, db[f]), calls')
  BY <1>4, <1>7, <1>8, <1>9, <1>10, AppendOf
<1>12. FormOk(f, t, calls', db[f])
  BY <1>5, <1>11, NoneIsOne DEF FormOk
<1> QED
  BY <1>1, <1>6, <1>7, <1>12, FormSends


LEMMA FormsEdit ==
    ASSUME FormsInv, NEW f \in ui.forms, NEW x \in FormTexts, Forms!Edit(f, x), db' = db
    PROVE  FormsInv' /\ OthersKept(f)
<1> DEFINE s == ui.form[f]
           t == [s EXCEPT !.draft = x, !.notice = FALSE]
<1>1. f \in Forms!OpenForms /\ f \in Opened(ui) /\ ui' = Forms!Put(ui, f, t) /\ calls' = calls
  BY DEF FormsInv, Forms!Edit, Forms!OpenForms, Forms!Set
<1>2. s \in FormStates /\ s.saved = TRUE /\ s.loading = FALSE /\ s.busy = FALSE
  BY <1>1, OpenForm
<1>3. /\ t \in FormStates /\ t.draft \in FormTexts /\ t.saved = TRUE /\ t.loading = FALSE /\ t.busy = FALSE
      /\ t.base = s.base /\ t.rev = s.rev
  BY <1>2 DEF FormStates
<1> HIDE DEF t
<1> QED
  BY <1>1, <1>3, FormEdited

LEMMA FormsTypeSecret ==
    ASSUME FormsInv, Forms!TypeSecret, db' = db
    PROVE  FormsInv' /\ OthersKept("captcha")
<1> DEFINE s == ui.form["captcha"]
           t == [s EXCEPT !.secret = ~@, !.notice = FALSE]
<1>1. /\ "captcha" \in Forms!OpenForms /\ "captcha" \in Opened(ui)
      /\ ui' = Forms!Put(ui, "captcha", t) /\ calls' = calls
  BY DEF FormsInv, Forms!TypeSecret, Forms!OpenForms, Forms!Set
<1>2. s \in FormStates /\ s.saved = TRUE /\ s.loading = FALSE /\ s.busy = FALSE /\ s.draft \in FormTexts
  BY <1>1, OpenForm DEF FormOk
<1>3. /\ t \in FormStates /\ t.draft = s.draft /\ t.saved = TRUE /\ t.loading = FALSE /\ t.busy = FALSE
      /\ t.base = s.base /\ t.rev = s.rev
  BY <1>2 DEF FormStates
<1> HIDE DEF t
<1> QED
  BY <1>1, <1>2, <1>3, FormEdited

LEMMA FormsDiscard ==
    ASSUME FormsInv, NEW f \in ui.forms, Forms!Discard(f), db' = db
    PROVE  FormsInv' /\ OthersKept(f)
<1> DEFINE s == ui.form[f]
           t == [s EXCEPT !.draft = s.base, !.secret = FALSE, !.error = FALSE, !.notice = FALSE]
<1>1. f \in Forms!OpenForms /\ f \in Opened(ui) /\ ui' = Forms!Put(ui, f, t) /\ calls' = calls
  BY DEF FormsInv, Forms!Discard, Forms!OpenForms, Forms!Set
<1>2. s \in FormStates /\ s.saved = TRUE /\ s.loading = FALSE /\ s.busy = FALSE /\ s.base \in FormTexts
  BY <1>1, OpenForm, FormsAssumption DEF FormOk
<1> HIDE DEF s
<1>3. /\ t \in FormStates /\ t.draft = s.base /\ t.saved = TRUE /\ t.loading = FALSE /\ t.busy = FALSE
      /\ t.base = s.base /\ t.rev = s.rev
  BY <1>2 DEF FormStates
<1> HIDE DEF t
<1> QED
  BY <1>1, <1>2, <1>3, FormEdited DEF s

\* The guard of the page, and a change of language, leave the forms as they are.
LEMMA FormsGuard ==
    ASSUME FormsInv, DOMAIN ui' = FormsFields, ui'.forms = ui.forms, ui'.access = ui.access, ui'.form = ui.form,
           ui'.dirty = ui.dirty, ui'.pending \in BOOLEAN, ui'.left \in BOOLEAN, calls' = calls, db' = db
    PROVE  FormsInv'
<1>1. Opened(ui') = Opened(ui)
  BY DEF Opened
<1> QED
  BY <1>1 DEF FormsInv, Opened

LEMMA FormsRetryAccess ==
    ASSUME FormsInv, Forms!RetryAccess, db' = db
    PROVE  FormsInv' /\ ui'.form = ui.form
<1> DEFINE c == Forms!Get("me", Forms!Effect)
<1>1. /\ ui.access = "error" /\ ui' = [ui EXCEPT !.access = "loading"] /\ calls' = Append(calls, c)
  BY DEF Forms!RetryAccess, Forms!Send
<1>2. /\ DOMAIN ui = FormsFields /\ calls \in Seq(FormCalls) /\ NoneOf(Whos, calls)
      /\ ui.form \in [Opened(ui) -> FormStates]
      /\ \A f \in FormNames \ Opened(ui) : NoneOf(LoadsOf(f), calls) /\ NoneOf(SavesOf(f), calls)
  BY <1>1 DEF FormsInv
<1>3. Opened(ui) = {}
  BY <1>1 DEF Opened
<1>4. /\ DOMAIN ui' = FormsFields /\ ui'.forms = ui.forms /\ ui'.dirty = ui.dirty /\ ui'.access = "loading"
      /\ ui'.pending = ui.pending /\ ui'.left = ui.left /\ ui'.form = ui.form
  BY <1>1, <1>2 DEF FormsFields
<1>5. Opened(ui') = {}
  BY <1>4 DEF Opened
<1>6. c \in Whos /\ c \in FormCalls
  BY CallSent DEF Forms!Get, Forms!Call, Forms!Refused, Whos, FormCalls
<1> HIDE DEF c
<1>7. \A f \in FormNames : c \notin LoadsOf(f) /\ c \notin SavesOf(f)
  <2>1. c.op = "me"
    BY <1>6, CallHas DEF Whos
  <2>2. \A f \in FormNames : f # "me"
    BY DEF FormNames
  <2> QED
    BY <2>1, <2>2, LoadIs, SaveIs
<1>8. calls' \in Seq(FormCalls) /\ OneOf(Whos, calls')
  BY <1>1, <1>2, <1>6, AppendOf
<1>9. \A f \in FormNames : NoneOf(LoadsOf(f), calls') /\ NoneOf(SavesOf(f), calls')
  BY <1>1, <1>2, <1>3, <1>7, AppendOf
<1> QED
  BY <1>2, <1>3, <1>4, <1>5, <1>8, <1>9 DEF FormsInv, Opened

\* The guard knows the forms that hold a draft.
LEMMA GuardKnows ==
    ASSUME FormsInv' PROVE ui'.dirty = {f \in DOMAIN ui'.form : Forms!Dirty(ui'.form[f])}
<1>1. /\ DOMAIN ui'.form = Opened(ui)' /\ ui'.dirty \subseteq Opened(ui)'
      /\ \A f \in Opened(ui)' : Forms!Dirty(ui'.form[f]) <=> f \in ui'.dirty
  BY DEF FormsInv
<1> QED
  BY <1>1

\* A click changes what was typed into no form but the one it is for.
LEMMA FormsClick ==
    ASSUME FormsInv, Forms!Click
    PROVE  /\ FormsInv'
           /\ \A f \in DOMAIN ui.form : ui'.form[f] = ui.form[f] \/ Forms!ByItsAuthor(f)
<1>1. /\ db' = db /\ DOMAIN ui = FormsFields /\ ui.pending \in BOOLEAN /\ ui.left \in BOOLEAN
      /\ DOMAIN ui.form = Opened(ui)
  BY DEF FormsInv, Forms!Click
<1> DEFINE Told == \A f \in DOMAIN ui.form : ui'.form[f] = ui.form[f] \/ Forms!ByItsAuthor(f)
<1>2. ASSUME NEW f \in ui.forms, NEW x \in FormTexts, Forms!Edit(f, x)
      PROVE  FormsInv' /\ Told
  <2>1. FormsInv' /\ OthersKept(f)
    BY <1>1, <1>2, FormsEdit
  <2>2. Forms!ByItsAuthor(f)
    BY <1>2 DEF Forms!ByItsAuthor
  <2> QED
    BY <1>1, <2>1, <2>2 DEF OthersKept
<1>3. ASSUME NEW f \in ui.forms, Forms!Save(f) \/ Forms!Discard(f) \/ Forms!LoadAgain(f)
      PROVE  FormsInv' /\ Told
  <2>1. FormsInv' /\ OthersKept(f)
    BY <1>1, <1>3, FormsSave, FormsDiscard, FormsLoadAgain
  <2>2. Forms!ByItsAuthor(f)
    BY <1>3 DEF Forms!ByItsAuthor
  <2> QED
    BY <1>1, <2>1, <2>2 DEF OthersKept
<1>4. CASE Forms!TypeSecret
  <2>1. FormsInv' /\ OthersKept("captcha")
    BY <1>1, <1>4, FormsTypeSecret
  <2>2. Forms!ByItsAuthor("captcha")
    BY <1>4 DEF Forms!ByItsAuthor
  <2> QED
    BY <1>1, <2>1, <2>2 DEF OthersKept
<1>5. CASE Forms!RetryAccess
  BY <1>1, <1>5, FormsRetryAccess
<1>6. CASE Forms!ChangeLanguage
  <2>1. ui' = ui /\ calls' = calls
    BY <1>6 DEF Forms!ChangeLanguage, Forms!AfterLanguage, Forms!Show
  <2> QED
    BY <1>1, <2>1, FormsGuard
<1>7. CASE Forms!FollowLink \/ Forms!KeepEditing \/ Forms!DiscardAndLeave \/ Forms!LeaveUnasked
  <2>1. /\ calls' = calls
        /\ \/ ui' = [ui EXCEPT !.left = TRUE]
           \/ ui' = [ui EXCEPT !.pending = TRUE]
           \/ ui' = [ui EXCEPT !.pending = FALSE]
           \/ ui' = [ui EXCEPT !.pending = FALSE, !.left = TRUE]
    BY <1>7 DEF Forms!FollowLink, Forms!KeepEditing, Forms!DiscardAndLeave, Forms!LeaveUnasked, Forms!Set
  <2>2. /\ DOMAIN ui' = FormsFields /\ ui'.forms = ui.forms /\ ui'.access = ui.access /\ ui'.form = ui.form
        /\ ui'.dirty = ui.dirty /\ ui'.pending \in BOOLEAN /\ ui'.left \in BOOLEAN
    <3> DEFINE Kept == /\ DOMAIN ui' = FormsFields /\ ui'.forms = ui.forms /\ ui'.access = ui.access
                       /\ ui'.form = ui.form /\ ui'.dirty = ui.dirty
                       /\ ui'.pending \in BOOLEAN /\ ui'.left \in BOOLEAN
    <3>1. CASE ui' = [ui EXCEPT !.left = TRUE]
      BY <1>1, <3>1 DEF FormsFields
    <3>2. CASE ui' = [ui EXCEPT !.pending = TRUE]
      BY <1>1, <3>2 DEF FormsFields
    <3>3. CASE ui' = [ui EXCEPT !.pending = FALSE]
      BY <1>1, <3>3 DEF FormsFields
    <3>4. CASE ui' = [ui EXCEPT !.pending = FALSE, !.left = TRUE]
      BY <1>1, <3>4 DEF FormsFields
    <3> QED
      BY <2>1, <3>1, <3>2, <3>3, <3>4
  <2> QED
    BY <1>1, <2>1, <2>2, FormsGuard
<1> QED
  BY <1>2, <1>3, <1>4, <1>5, <1>6, <1>7 DEF Forms!Click, Forms!Controls

LEMMA FormsSaved ==
    ASSUME FormsInv, NEW i \in DOMAIN calls, Forms!Serve(i), "runtime" \in ui.forms, db'["runtime"] # db["runtime"]
    PROVE  ui.form["runtime"].base = db["runtime"].v
<1> DEFINE f == "runtime"
           c == calls[i]
           s == ui.form[f]
<1>1. f = c.op /\ c \in SavesOf(f) /\ c.arg.rev = db[f].rev
  BY FormsServe
<1>2. FormOk(f, s, calls, db[f]) /\ s.saved = TRUE
  <2>1. c.op # "me" /\ c.arg.save = TRUE
    BY <1>1, SaveIs
  <2> QED
    BY <1>1, <2>1, CallIsOfAForm
<1>3. c \notin Strays(f, s)
  BY <1>2 DEF FormOk, NoneOf
<1>4. c.arg.rev = s.rev
  BY <1>1, <1>3 DEF Strays
<1>5. Fits([v |-> s.base, rev |-> s.rev], db[f])
  BY <1>2 DEF FormOk
<1> QED
  BY <1>1, <1>4, <1>5 DEF Fits

LEMMA FormsNext ==
    ASSUME FormsInv, clicks \in Nat, Forms!Next \/ Still
    PROVE  FormsInv' /\ clicks' \in Nat /\ Forms!DraftKept /\ Forms!SavesOverWhatIsShown
<1>1. DOMAIN db = ui.forms /\ ui.left \in BOOLEAN
  BY DEF FormsInv
<1>2. CASE Forms!UserActs /\ (Forms!Click \/ \E f \in ui.forms, v \in FormValues : Forms!OtherAdmin(f, v))
  <2>1. clicks' \in Nat /\ clicks' # clicks
    BY <1>2 DEF Forms!UserActs
  <2>2. CASE Forms!Click
    BY <2>1, <2>2, FormsClick, GuardKnows DEF Forms!DraftKept, Forms!SavesOverWhatIsShown
  <2>3. ASSUME NEW f \in ui.forms, NEW v \in FormValues, Forms!OtherAdmin(f, v)
        PROVE  FormsInv' /\ ui' = ui
    <3> DEFINE d == [v |-> v, rev |-> db[f].rev + 1]
    <3>1. db[f] \in Datas /\ db \in [ui.forms -> Datas]
      BY DEF FormsInv
    <3>2. db' = [db EXCEPT ![f] = d] /\ ui' = ui /\ calls' = calls
      BY <2>3, <3>1 DEF Forms!OtherAdmin
    <3>3. d \in Datas /\ d.rev = db[f].rev + 1
      BY <3>1 DEF Datas
    <3> HIDE DEF d
    <3> QED
      BY <3>2, <3>3, FormsMoveOn
  <2> QED
    BY <1>2, <2>1, <2>2, <2>3, GuardKnows DEF Forms!DraftKept, Forms!SavesOverWhatIsShown
<1>3. ASSUME NEW i \in DOMAIN calls, Forms!Serve(i), clicks' = clicks
      PROVE  FormsInv' /\ clicks' \in Nat /\ Forms!DraftKept /\ Forms!SavesOverWhatIsShown
  <2>1. FormsInv' /\ ui' = ui
    BY <1>3, FormsServe
  <2>2. Forms!SavesOverWhatIsShown
    BY <1>1, <1>3, FormsSaved DEF Forms!SavesOverWhatIsShown
  <2> QED
    BY <1>3, <2>1, <2>2, GuardKnows DEF Forms!DraftKept
<1>4. ASSUME NEW i \in DOMAIN calls, Forms!Deliver(i), clicks' = clicks
      PROVE  FormsInv' /\ clicks' \in Nat /\ Forms!DraftKept /\ Forms!SavesOverWhatIsShown
  <2>1. FormsInv' /\ db' = db /\ KeptAsTyped
    BY <1>4, FormsDeliver
  <2> QED
    BY <1>4, <2>1, GuardKnows DEF Forms!DraftKept, Forms!SavesOverWhatIsShown, KeptAsTyped
<1>5. CASE Still
  <2>1. FormsInv' /\ ui' = ui /\ db' = db /\ clicks' = clicks
    BY <1>5 DEF Still, FormsInv, Opened
  <2> QED
    BY <2>1, GuardKnows DEF Forms!DraftKept, Forms!SavesOverWhatIsShown
<1> QED
  BY <1>2, <1>3, <1>4, <1>5 DEF Forms!Next

\* The forms along a behaviour.
FormsAlways == page = "forms" => FormsInv /\ clicks \in Nat

LEMMA FormsAlwaysInit == Init => FormsAlways
<1>1. Forms!Init => clicks = 0
  BY DEF Forms!Init
<1> QED
  BY <1>1, Mounts, FormsInit DEF FormsAlways

LEMMA FormsAlwaysNext ==
    FormsAlways /\ [Next]_vars =>
        FormsAlways' /\ (page = "forms" => Forms!DraftKept /\ Forms!SavesOverWhatIsShown)
BY Steps, FormsNext DEF FormsAlways

(* What was typed into an open settings form, a secret too, stays until    *)
(* its author gives it up in that form, or it is what was saved; and the   *)
(* guard knows exactly the forms that hold such a draft, whatever loads,   *)
(* saves, fails or is discarded around them (settings-draft-guard.tsx:12,  *)
(* 90).                                                                    *)
THEOREM DraftKeptAlways == Spec => DraftKept
<1> DEFINE A == page = "forms" => Forms!DraftKept
<1>1. FormsAlways /\ [Next]_vars => FormsAlways' /\ [A]_vars
  BY FormsAlwaysNext
<1> QED
  BY FormsAlwaysInit, <1>1, PTL DEF Spec, DraftKept

(* A save of the runtime settings that goes through replaces the value its *)
(* form was showing as saved: the revision it is made at stands for that   *)
(* value, whoever else saved meanwhile (runtime-form.tsx:57-80).           *)
THEOREM SavesOverWhatIsShownAlways == Spec => SavesOverWhatIsShown
<1> DEFINE A == page = "forms" => Forms!SavesOverWhatIsShown
<1>1. FormsAlways /\ [Next]_vars => FormsAlways' /\ [A]_vars
  BY FormsAlwaysNext
<1> QED
  BY FormsAlwaysInit, <1>1, PTL DEF Spec, SavesOverWhatIsShown


-----------------------------------------------------------------------------
(* Signing in from several tabs.  Besides the calls that ask who is signed *)
(* in, a tab waits for one answer at most, and while it waits for that of  *)
(* a mutation it keeps the token the mutation was sent with; a tab that    *)
(* signed in keeps the token of its own session.                           *)
Given == [session : Nat]
Granted == Given \cup [challenge : TwoFactor]
Whom == SignIns \cup TwoFactor \cup {Blank, "mutate", "logout"}

SessionOps == {"me", "csrf", "mutate", "logout", "login", "verify"}
ArgsOf(op) ==
    [tab : BrowserTabs \cup {0}, cookie : Nat, csrf : Nat,
     who : IF op = "csrf" THEN {"mutate", "logout"} ELSE Whom]
DataOf(op) == IF op \in {"login", "verify"} THEN Granted ELSE Given
TabCalls(op) == CallsOf(op, ArgsOf(op), {Session!Effect}, Answered(DataOf(op)))
SessionCalls == UNION {TabCalls(op) : op \in SessionOps}

TabStates ==
    [at : {"checking", "login", "console"}, csrf : Nat, signed : Nat, user : Nat,
     challenge : TwoFactor \cup {"none"}, mfa : BOOLEAN, error : BOOLEAN, busy : BOOLEAN]
SessionFields == {"cookie", "mfa", "tab"}
SessionUi(u) ==
    /\ DOMAIN u = SessionFields /\ u.cookie \in Nat /\ u.mfa \in SUBSET TwoFactor
    /\ u.tab \in [BrowserTabs -> TabStates]
SessionDb == [made : Nat, live : SUBSET Nat, open : SUBSET TwoFactor]

\* The calls of tab t, those it is disabled for, and those that do not fit its token.
Toward(t) == {c \in SessionCalls : c.arg.tab = t}
Busy(t) == {c \in Toward(t) : c.op # "me"}
Mutations == {"mutate", "logout"}
Wrong(t, s) ==
    {c \in Busy(t) : \/ c.op = "csrf" /\ s.csrf # 0
                     \/ /\ c.op \in Mutations
                        /\ \/ c.arg.csrf # s.csrf
                           \/ c.st = "served" /\ c.res.ok = TRUE /\ c.res.data.session # c.arg.csrf}

TabOk(t, s, cs) ==
    /\ s.signed # 0 => s.csrf = s.signed
    /\ s.busy = FALSE => NoneOf(Busy(t), cs)
    /\ OneOf(Busy(t), cs)
    /\ NoneOf(Wrong(t, s), cs)

SessionInv ==
    /\ SessionUi(ui) /\ db \in SessionDb /\ calls \in Seq(SessionCalls)
    /\ \A t \in BrowserTabs : TabOk(t, ui.tab[t], calls)

LEMMA SessionKinds ==
    ASSUME NEW c \in SessionCalls
    PROVE  /\ c.op \in SessionOps /\ c.arg \in ArgsOf(c.op)
           /\ c.st = "served" => c.res \in Answered(DataOf(c.op))
           /\ \A res \in Answered(DataOf(c.op)) : [c EXCEPT !.st = "served", !.res = res] \in SessionCalls
           /\ c.arg.tab \in BrowserTabs \cup {0}
<1>1. PICK op \in SessionOps : c \in TabCalls(op)
  BY DEF SessionCalls
<1>2. c.op = op /\ c.arg \in ArgsOf(op) /\ (c.st = "served" => c.res \in Answered(DataOf(op)))
  BY <1>1, CallHas DEF TabCalls
<1>3. \A res \in Answered(DataOf(op)) : [c EXCEPT !.st = "served", !.res = res] \in TabCalls(op)
  BY <1>1, CallServed DEF TabCalls
<1>4. TabCalls(op) \subseteq SessionCalls
  BY DEF SessionCalls
<1>5. c.arg.tab \in BrowserTabs \cup {0}
  BY <1>2 DEF ArgsOf
<1> QED
  BY <1>1, <1>2, <1>3, <1>4, <1>5

\* The tab of a call is told to forget it.
LEMMA SessionForgets ==
    ASSUME NEW c \in SessionCalls
    PROVE  [c EXCEPT !.arg.tab = 0] \in SessionCalls /\ [c EXCEPT !.arg.tab = 0].arg.tab = 0
<1>1. PICK op \in SessionOps : c \in TabCalls(op)
  BY DEF SessionCalls
<1> DEFINE arg == [c.arg EXCEPT !.tab = 0]
<1>2. c.arg \in ArgsOf(op)
  BY <1>1, CallHas DEF TabCalls
<1>3. arg \in ArgsOf(op) /\ arg.tab = 0
  BY <1>2 DEF ArgsOf
<1>4. [c EXCEPT !.arg.tab = 0] = [c EXCEPT !.arg = arg]
  OBVIOUS
<1> HIDE DEF arg
<1>5. [c EXCEPT !.arg = arg] \in TabCalls(op) /\ [c EXCEPT !.arg = arg].arg = arg
  BY <1>1, <1>3 DEF TabCalls, CallsOf, Sent, Served
<1> QED
  BY <1>3, <1>4, <1>5 DEF SessionCalls

\* Whatever is said of the calls of tab t is kept from cs to cs2.
Untouched(t, cs, cs2) ==
    \A K \in SUBSET Toward(t) : (NoneOf(K, cs) => NoneOf(K, cs2)) /\ (OneOf(K, cs) => OneOf(K, cs2))

LEMMA TabKinds == ASSUME NEW t, NEW s PROVE Busy(t) \subseteq Toward(t) /\ Wrong(t, s) \subseteq Busy(t)
BY DEF Busy, Wrong

LEMMA UntouchedRest ==
    ASSUME NEW cs \in Seq(SessionCalls), NEW i \in DOMAIN cs, NEW t PROVE Untouched(t, cs, Without(cs, i))
BY RestOf DEF Untouched

LEMMA UntouchedAppend ==
    ASSUME NEW cs \in Seq(SessionCalls), NEW c, NEW t, c.arg.tab # t PROVE Untouched(t, cs, Append(cs, c))
<1>1. \A K \in SUBSET Toward(t) : c \notin K
  BY DEF Toward
<1> QED
  BY <1>1, AppendOf DEF Untouched

LEMMA UntouchedThen ==
    ASSUME NEW t, NEW a, NEW b, NEW c, Untouched(t, a, b), Untouched(t, b, c) PROVE Untouched(t, a, c)
BY DEF Untouched

LEMMA ForgottenOf ==
    ASSUME NEW cs \in Seq(SessionCalls), NEW t \in BrowserTabs
    PROVE  /\ Session!Forgotten(cs, t) \in Seq(SessionCalls)
           /\ NoneOf(Toward(t), Session!Forgotten(cs, t))
           /\ \A u \in BrowserTabs \ {t} : Untouched(u, cs, Session!Forgotten(cs, t))
<1> DEFINE s == Session!Forgotten(cs, t)
<1>1. s = [k \in DOMAIN cs |-> IF cs[k].arg.tab = t THEN [cs[k] EXCEPT !.arg.tab = 0] ELSE cs[k]]
  BY DEF Session!Forgotten, Session!NoTab
<1>2. Len(cs) \in Nat /\ DOMAIN cs = 1 .. Len(cs) /\ \A k \in DOMAIN cs : cs[k] \in SessionCalls
  OBVIOUS
<1>3. 0 \notin BrowserTabs
  BY TabsAssumption, FS_CardinalityType
<1> HIDE DEF s
<1>4. ASSUME NEW k \in DOMAIN cs
      PROVE  /\ s[k] \in SessionCalls /\ s[k].arg.tab # t
             /\ cs[k].arg.tab # t => s[k] = cs[k]
             /\ cs[k].arg.tab = t => s[k].arg.tab = 0
  <2>1. CASE cs[k].arg.tab = t
    <3>1. s[k] = [cs[k] EXCEPT !.arg.tab = 0]
      BY <1>1, <2>1
    <3>2. s[k] \in SessionCalls /\ s[k].arg.tab = 0
      <4>1. cs[k] \in SessionCalls
        BY <1>2
      <4> QED
        BY <3>1, <4>1, SessionForgets, Zenon
    <3> QED
      BY <1>3, <2>1, <3>2
  <2>2. CASE cs[k].arg.tab # t
    BY <1>1, <1>2, <2>2
  <2> QED
    BY <2>1, <2>2
<1>5. DOMAIN s = DOMAIN cs
  BY <1>1
<1>6. s \in Seq(SessionCalls)
  <2>1. s = [k \in 1 .. Len(cs) |-> s[k]]
    BY <1>1, <1>2
  <2>2. \A k \in 1 .. Len(cs) : s[k] \in SessionCalls
    BY <1>2, <1>4
  <2> QED
    BY <1>2, <2>1, <2>2
<1>7. NoneOf(Toward(t), s)
  BY <1>4, <1>5 DEF NoneOf, Toward
<1>8. ASSUME NEW u \in BrowserTabs \ {t}, NEW K \in SUBSET Toward(u), NEW k \in DOMAIN s, s[k] \in K
      PROVE  cs[k] \in K
  <2>1. s[k].arg.tab = u
    BY <1>8 DEF Toward
  <2> QED
    BY <1>3, <1>4, <1>5, <1>8, <2>1
<1>9. \A u \in BrowserTabs \ {t} : Untouched(u, cs, s)
  BY <1>5, <1>8 DEF Untouched, NoneOf, OneOf
<1> QED
  BY <1>6, <1>7, <1>9 DEF s


\* A tab that waits for nothing but to learn who is signed in.
LEMMA TabQuiet ==
    ASSUME NEW t, NEW s, NEW cs, s.signed # 0 => s.csrf = s.signed, NoneOf(Busy(t), cs) PROVE TabOk(t, s, cs)
<1>1. NoneOf(Wrong(t, s), cs)
  BY TabKinds DEF NoneOf
<1> QED
  BY <1>1, NoneIsOne DEF TabOk

LEMMA TabFrame ==
    ASSUME NEW t, NEW s, NEW s2, NEW cs, NEW cs2, TabOk(t, s, cs), Untouched(t, cs, cs2),
           s2.signed = s.signed, s2.csrf = s.csrf, s2.busy = s.busy
    PROVE  TabOk(t, s2, cs2)
<1>1. Wrong(t, s2) = Wrong(t, s)
  BY DEF Wrong
<1>2. Busy(t) \in SUBSET Toward(t) /\ Wrong(t, s) \in SUBSET Toward(t)
  BY TabKinds
<1> QED
  BY <1>1, <1>2 DEF TabOk, Untouched

\* A step of one tab leaves the others alone.
LEMMA TabStep ==
    ASSUME SessionInv, NEW t \in BrowserTabs, NEW s \in TabStates,
           DOMAIN ui' = SessionFields, ui'.cookie \in Nat, ui'.mfa \in SUBSET TwoFactor,
           ui'.tab = [ui.tab EXCEPT ![t] = s], db' \in SessionDb, calls' \in Seq(SessionCalls),
           \A u \in BrowserTabs \ {t} : Untouched(u, calls, calls'), TabOk(t, s, calls')
    PROVE  SessionInv'
<1>1. ui.tab \in [BrowserTabs -> TabStates]
  BY DEF SessionInv, SessionUi
<1>2. ui'.tab \in [BrowserTabs -> TabStates] /\ ui'.tab[t] = s
      /\ \A u \in BrowserTabs \ {t} : ui'.tab[u] = ui.tab[u]
  BY <1>1
<1>3. \A u \in BrowserTabs \ {t} : TabOk(u, ui'.tab[u], calls')
  BY <1>2, TabFrame DEF SessionInv
<1>4. SessionUi(ui')
  BY <1>2 DEF SessionUi
<1> QED
  BY <1>2, <1>3, <1>4 DEF SessionInv

\* The state u but for tab t, which is in state s.
TabPut(u, t, s, v) ==
    DOMAIN v = SessionFields /\ v.cookie = u.cookie /\ v.mfa = u.mfa /\ v.tab = [u.tab EXCEPT ![t] = s]

LEMMA PutTabIs ==
    ASSUME NEW u, SessionUi(u), NEW t, NEW s PROVE TabPut(u, t, s, Session!PutTab(u, t, s))
BY DEF Session!PutTab, SessionUi, SessionFields, TabPut

LEMMA PutTabUi ==
    ASSUME NEW u, SessionUi(u), NEW t \in BrowserTabs, NEW s \in TabStates
    PROVE  SessionUi(Session!PutTab(u, t, s)) /\ Session!PutTab(u, t, s).tab[t] = s
<1> DEFINE v == Session!PutTab(u, t, s)
<1>1. TabPut(u, t, s, v)
  BY PutTabIs
<1> HIDE DEF v
<1> QED
  BY <1>1 DEF SessionUi, TabPut, v

LEMMA TabCallIs ==
    ASSUME NEW u, SessionUi(u), NEW t \in BrowserTabs, NEW op \in SessionOps,
           NEW who \in IF op = "csrf" THEN {"mutate", "logout"} ELSE Whom
    PROVE  LET c == Session!CallOf(u, t, op, who) IN
           /\ c \in SessionCalls /\ c.op = op /\ c.arg.tab = t /\ c.arg.csrf = u.tab[t].csrf /\ c.st = "sent"
           /\ c \in Toward(t) /\ (op # "me" => c \in Busy(t)) /\ (op = "me" => c \notin Busy(t))
<1> DEFINE arg == [tab |-> t, cookie |-> u.cookie, csrf |-> u.tab[t].csrf, who |-> who]
           c == Session!CallOf(u, t, op, who)
<1>1. u.cookie \in Nat /\ u.tab[t].csrf \in Nat
  BY DEF SessionUi, TabStates
<1>2. arg \in ArgsOf(op) /\ arg.tab = t /\ arg.csrf = u.tab[t].csrf
  BY <1>1 DEF ArgsOf
<1>3. c = Session!Call(op, arg, Session!Effect)
  BY DEF Session!CallOf
<1> HIDE DEF arg, c
<1>4. Session!Call(op, arg, Session!Effect) \in TabCalls(op)
  BY <1>2, CallSent DEF Session!Call, Session!Refused, TabCalls
<1>5. c.op = op /\ c.arg = arg /\ c.st = "sent"
  BY <1>3 DEF Session!Call
<1>6. c \in SessionCalls
  BY <1>3, <1>4 DEF SessionCalls
<1>7. c \in Toward(t) /\ (op # "me" => c \in Busy(t)) /\ (op = "me" => c \notin Busy(t))
  BY <1>2, <1>5, <1>6 DEF Toward, Busy
<1> QED
  BY <1>2, <1>5, <1>6, <1>7 DEF c

\* Tab t is given state s, forgets what it waited for and asks who is signed in.
LEMMA TabAsks ==
    ASSUME SessionInv, NEW t \in BrowserTabs, NEW s \in TabStates, NEW v, SessionUi(v),
           v.tab = [ui.tab EXCEPT ![t] = s], ui' = v, db' \in SessionDb, NEW cs \in Seq(SessionCalls),
           \A u \in BrowserTabs : Untouched(u, calls, cs), s.signed # 0 => s.csrf = s.signed,
           calls' = Append(Session!Forgotten(cs, t), Session!CallOf(v, t, "me", Blank))
    PROVE  SessionInv'
<1> DEFINE f == Session!Forgotten(cs, t)
           c == Session!CallOf(v, t, "me", Blank)
<1>1. f \in Seq(SessionCalls) /\ NoneOf(Toward(t), f) /\ \A u \in BrowserTabs \ {t} : Untouched(u, cs, f)
  BY ForgottenOf
<1>2. c \in SessionCalls /\ c.arg.tab = t /\ c \notin Busy(t)
  <2>1. "me" \in SessionOps /\ Blank \in IF "me" = "csrf" THEN {"mutate", "logout"} ELSE Whom
    BY DEF SessionOps, Whom
  <2> QED
    BY <2>1, TabCallIs
<1>3. calls' = Append(f, c)
  OBVIOUS
<1> HIDE DEF f, c
<1>4. calls' \in Seq(SessionCalls)
  <2>1. Append(f, c) \in Seq(SessionCalls)
    BY <1>1, <1>2
  <2> QED
    BY <1>3, <2>1
<1>5. ASSUME NEW u \in BrowserTabs \ {t} PROVE Untouched(u, calls, calls')
  BY <1>1, <1>2, <1>3, UntouchedAppend, UntouchedThen
<1>6. NoneOf(Busy(t), calls')
  <2>1. NoneOf(Busy(t), f)
    BY <1>1, TabKinds DEF NoneOf
  <2>2. NoneOf(Busy(t), Append(f, c))
    BY <1>1, <1>2, <2>1, AppendOf
  <2> QED
    BY <1>3, <2>2
<1>7. TabOk(t, s, calls')
  BY <1>6, TabQuiet
<1> QED
  BY <1>4, <1>5, <1>7, TabStep DEF SessionUi

\* The API answers a call.
LEMMA SessionAnswered ==
    ASSUME SessionInv, NEW i \in DOMAIN calls, NEW res \in Answered(DataOf(calls[i].op)),
           calls[i].op \in Mutations /\ res.ok = TRUE => res.data.session = calls[i].arg.csrf,
           calls' = Session!Served(i, res), ui' = ui, db' \in SessionDb
    PROVE  SessionInv'
<1> DEFINE c == [calls[i] EXCEPT !.st = "served", !.res = res]
<1>1. calls \in Seq(SessionCalls) /\ calls[i] \in SessionCalls
  BY DEF SessionInv
<1>2. c \in SessionCalls
  BY <1>1, SessionKinds
<1>3. c.op = calls[i].op /\ c.arg = calls[i].arg /\ c.res = res
  BY <1>1 DEF SessionCalls, TabCalls, CallsOf, Sent, Served
<1>4. calls' = Answer(calls, i, res)
  BY Zenon DEF Session!Served, Answer
<1>5. Answer(calls, i, res) \in Seq(SessionCalls)
  BY <1>1, <1>2, ServeOne DEF Answer
<1>6. \A K : (c \in K => calls[i] \in K) =>
                /\ NoneOf(K, calls) => NoneOf(K, Answer(calls, i, res))
                /\ OneOf(K, calls) => OneOf(K, Answer(calls, i, res))
  BY <1>1, <1>2, AnswerOf
<1> HIDE DEF c
<1>7. ASSUME NEW t \in BrowserTabs PROVE TabOk(t, ui.tab[t], calls')
  <2>1. c \in Busy(t) => calls[i] \in Busy(t)
    BY <1>1, <1>3 DEF Busy, Toward
  <2>2. c \in Wrong(t, ui.tab[t]) => calls[i] \in Wrong(t, ui.tab[t])
    BY <1>3, <2>1 DEF Wrong
  <2>3. TabOk(t, ui.tab[t], calls)
    BY DEF SessionInv
  <2> QED
    BY <1>4, <1>6, <2>1, <2>2, <2>3 DEF TabOk
<1> QED
  BY <1>4, <1>5, <1>7 DEF SessionInv


LEMMA SessionInit == ASSUME Session!Init PROVE SessionInv
<1>1. PICK mfa \in SUBSET TwoFactor :
          /\ db = [made |-> 1, live |-> {1}, open |-> mfa]
          /\ ui = [cookie |-> IF mfa = {} THEN 1 ELSE Session!NoSession, mfa |-> mfa,
                   tab |-> [t \in BrowserTabs |->
                               Session!Document(IF t = 1 THEN "checking" ELSE "console", t = 1 /\ mfa # {})]]
  BY DEF Session!Init
<1>2. calls = [t \in BrowserTabs |-> Session!CallOf(ui, t, "me", Blank)]
  BY Zenon DEF Session!Init, Blank
<1>3. db \in SessionDb
  BY <1>1 DEF SessionDb
<1>4. ASSUME NEW at \in {"checking", "console"}, NEW b \in BOOLEAN
      PROVE  /\ Session!Document(at, b) \in TabStates
             /\ Session!Document(at, b).csrf = 0 /\ Session!Document(at, b).signed = 0
  BY DEF Session!Document, Session!NoSession, Session!NoChallenge, TabStates
<1>5. ASSUME NEW t \in BrowserTabs
      PROVE  /\ ui.tab[t] \in TabStates
             /\ ui.tab[t].csrf = 0 /\ ui.tab[t].signed = 0
  <2>1. ui.tab[t] = Session!Document(IF t = 1 THEN "checking" ELSE "console", t = 1 /\ mfa # {})
    BY <1>1
  <2>2. /\ (IF t = 1 THEN "checking" ELSE "console") \in {"checking", "console"}
        /\ (t = 1 /\ mfa # {}) \in BOOLEAN
    OBVIOUS
  <2> QED
    BY <1>4, <2>1, <2>2
<1>6. SessionUi(ui)
  <2>1. DOMAIN ui = SessionFields /\ ui.cookie \in Nat /\ ui.mfa \in SUBSET TwoFactor
    BY <1>1 DEF SessionFields, Session!NoSession
  <2>2. ui.tab = [t \in BrowserTabs |-> ui.tab[t]]
    BY <1>1
  <2>3. ui.tab \in [BrowserTabs -> TabStates]
    BY <1>5, <2>2
  <2> QED
    BY <2>1, <2>3 DEF SessionUi
<1>7. ASSUME NEW t \in BrowserTabs
      PROVE  calls[t] \in SessionCalls /\ calls[t].op = "me"
  <2>1. "me" \in SessionOps /\ Blank \in IF "me" = "csrf" THEN {"mutate", "logout"} ELSE Whom
    BY DEF SessionOps, Whom
  <2>2. calls[t] = Session!CallOf(ui, t, "me", Blank)
    BY <1>2
  <2> QED
    BY <1>6, <2>1, <2>2, TabCallIs
<1>8. calls \in Seq(SessionCalls) /\ DOMAIN calls = BrowserTabs
  <2>1. PICK n \in Nat : BrowserTabs = 1 .. n
    BY TabsAssumption, FS_CardinalityType
  <2>2. DOMAIN calls = BrowserTabs /\ calls = [t \in 1 .. n |-> calls[t]]
    BY <1>2, <2>1
  <2>3. \A t \in 1 .. n : calls[t] \in SessionCalls
    BY <1>7, <2>1
  <2> QED
    BY <2>1, <2>2, <2>3
<1>9. ASSUME NEW t \in BrowserTabs PROVE TabOk(t, ui.tab[t], calls)
  <2>1. NoneOf(Busy(t), calls)
    BY <1>7, <1>8 DEF NoneOf, Busy
  <2> QED
    BY <1>5, <2>1, TabQuiet
<1> QED
  BY <1>3, <1>6, <1>8, <1>9 DEF SessionInv

LEMMA SessionServe == ASSUME SessionInv, NEW i \in DOMAIN calls, Session!Serve(i) PROVE SessionInv'
<1> DEFINE c == calls[i]
<1>1. ui' = ui /\ db \in SessionDb /\ c \in SessionCalls
  BY DEF SessionInv, Session!Serve
<1>2. c.op \in SessionOps /\ c.arg \in ArgsOf(c.op)
  BY <1>1, SessionKinds
<1>3. c.arg.cookie \in Nat /\ c.arg.csrf \in Nat
  BY <1>2 DEF ArgsOf
<1>4. db.made + 1 \in Nat /\ db.open \in SUBSET TwoFactor /\ db.live \in SUBSET Nat
  BY <1>1 DEF SessionDb
<1>5. \A op : /\ \A code \in Codes : Session!Refused(code) \in Answered(DataOf(op)) /\ Session!Refused(code).ok = FALSE
              /\ \A s \in Nat : /\ Session!Ok([session |-> s]) \in Answered(DataOf(op))
                                /\ Session!Ok([session |-> s]).data.session = s
  <2>1. \A op : \A s \in Nat : [session |-> s] \in DataOf(op)
    BY DEF DataOf, Given, Granted
  <2>2. \A s : Session!Ok([session |-> s]).data.session = s
    BY DEF Session!Ok
  <2>3. \A op : \A s \in Nat : Session!Ok([session |-> s]) \in Answered(DataOf(op))
    BY <2>1, AnswerIs DEF Session!Ok
  <2>4. \A op : \A code \in Codes : Session!Refused(code) \in Answered(DataOf(op)) /\ Session!Refused(code).ok = FALSE
    BY AnswerIs DEF Session!Refused
  <2> QED
    BY <2>2, <2>3, <2>4
<1>6. "invalid" \in Codes /\ "unavailable" \in Codes /\ "401" \in Codes /\ "csrf_invalid" \in Codes
  BY DEF Codes
<1> HIDE DEF c
<1>7. ASSUME NEW open \in SUBSET TwoFactor, Session!Grant(i, open), c.op \notin Mutations
      PROVE  SessionInv'
  <2>1. /\ calls' = Session!Served(i, Session!Ok([session |-> db.made + 1]))
        /\ db' = [made |-> db.made + 1, live |-> db.live \cup {db.made + 1}, open |-> open]
    BY <1>7 DEF Session!Grant, Session!NewSession
  <2>2. db' \in SessionDb
    BY <1>4, <2>1 DEF SessionDb
  <2> QED
    BY <1>1, <1>4, <1>5, <1>7, <2>1, <2>2, SessionAnswered DEF c
<1>8. ASSUME NEW open \in SUBSET TwoFactor, NEW code \in Codes, Session!Refuse(i, code, open)
      PROVE  SessionInv'
  <2>1. calls' = Session!Served(i, Session!Refused(code)) /\ db' = [db EXCEPT !.open = open]
    BY <1>8 DEF Session!Refuse
  <2>2. db' \in SessionDb
    BY <1>1, <2>1 DEF SessionDb
  <2>3. Session!Refused(code) \in Answered(DataOf(c.op)) /\ Session!Refused(code).ok = FALSE
    BY <1>5
  <2> QED
    BY <1>1, <2>1, <2>2, <2>3, SessionAnswered DEF c
<1>9. CASE Session!ServeLogin(i)
  <2>1. c.op = "login" /\ c.op \notin Mutations
    BY <1>9 DEF Session!ServeLogin, Mutations, c
  <2>2. CASE Session!Grant(i, db.open) \/ Session!Refuse(i, "invalid", db.open)
    BY <1>4, <1>6, <1>7, <1>8, <2>1, <2>2
  <2>3. CASE /\ c.arg.who \in TwoFactor /\ calls' = Session!Served(i, Session!Ok([challenge |-> c.arg.who]))
             /\ db' = [db EXCEPT !.open = @ \cup {c.arg.who}]
    <3>1. db' \in SessionDb
      BY <1>1, <2>3 DEF SessionDb
    <3>2. [challenge |-> c.arg.who] \in DataOf("login")
      BY <2>3 DEF DataOf, Granted
    <3>3. Session!Ok([challenge |-> c.arg.who]) \in Answered(DataOf(c.op))
      BY <2>1, <3>2, AnswerIs DEF Session!Ok
    <3> QED
      BY <1>1, <2>1, <2>3, <3>1, <3>3, SessionAnswered DEF c
  <2> QED
    BY <1>9, <2>2, <2>3 DEF Session!ServeLogin, c
<1>10. CASE Session!ServeVerify(i)
  <2>1. c.op = "verify" /\ c.op \notin Mutations
    BY <1>10 DEF Session!ServeVerify, Mutations, c
  <2>2. db.open \ {c.arg.who} \in SUBSET TwoFactor
    BY <1>4
  <2> QED
    BY <1>4, <1>6, <1>7, <1>8, <1>10, <2>1, <2>2 DEF Session!ServeVerify, c
<1>11. CASE Session!ServeRead(i)
  <2>1. c.op \notin Mutations /\ db' = db
    BY <1>11 DEF Session!ServeRead, Mutations, c
  <2>2. \/ calls' = Session!Served(i, Session!Refused("unavailable"))
        \/ calls' = Session!Served(i, Session!Refused("401"))
        \/ calls' = Session!Served(i, Session!Ok([session |-> c.arg.cookie]))
    BY <1>11 DEF Session!ServeRead, c
  <2>3. PICK res \in Answered(DataOf(c.op)) : calls' = Session!Served(i, res)
    BY <1>3, <1>5, <1>6, <2>2
  <2> QED
    BY <1>1, <2>1, <2>3, SessionAnswered DEF c
<1>12. CASE Session!ServeMutation(i)
  <2>1. CASE Session!Allowed(c)
    <3>1. calls' = Session!Served(i, Session!Ok([session |-> c.arg.cookie])) /\ c.arg.cookie = c.arg.csrf
      BY <1>12, <2>1 DEF Session!ServeMutation, Session!Allowed, Session!Csrf, c
    <3>2. db' = [db EXCEPT !.live = @ \ {c.arg.cookie}] \/ db' = db
      BY <1>12, <2>1 DEF Session!ServeMutation, c
    <3>3. db' \in SessionDb
      BY <1>1, <3>2 DEF SessionDb
    <3> QED
      BY <1>1, <1>3, <1>5, <3>1, <3>3, SessionAnswered DEF c
  <2>2. CASE ~Session!Allowed(c)
    <3>1. /\ db' = db
          /\ \/ calls' = Session!Served(i, Session!Refused("csrf_invalid"))
             \/ calls' = Session!Served(i, Session!Refused("401"))
      BY <1>12, <2>2 DEF Session!ServeMutation, c
    <3>2. PICK code \in Codes : calls' = Session!Served(i, Session!Refused(code))
      BY <1>6, <3>1
    <3>3. Session!Refused(code) \in Answered(DataOf(c.op)) /\ Session!Refused(code).ok = FALSE
      BY <1>5
    <3> QED
      BY <1>1, <3>1, <3>2, <3>3, SessionAnswered DEF c
  <2> QED
    BY <2>1, <2>2
<1> QED
  BY <1>9, <1>10, <1>11, <1>12 DEF Session!Serve


\* Tab t goes to a page that asks who is signed in; the answer to call i got it there.
LEMMA TabGoesOn ==
    ASSUME SessionInv, NEW t \in BrowserTabs, NEW i \in DOMAIN calls, NEW s \in TabStates, NEW u, SessionUi(u),
           \A x \in BrowserTabs \ {t} : u.tab[x] = ui.tab[x], s.signed # 0 => s.csrf = s.signed,
           db' \in SessionDb, ui' = Session!PutTab(u, t, s),
           calls' = Append(Session!Else(i, t), Session!CallOf(Session!PutTab(u, t, s), t, "me", Blank))
    PROVE  SessionInv'
<1> DEFINE v == Session!PutTab(u, t, s)
<1>1. calls \in Seq(SessionCalls) /\ SessionUi(ui)
  BY DEF SessionInv
<1>2. TabPut(u, t, s, v) /\ SessionUi(v)
  BY PutTabIs, PutTabUi
<1>3. Session!Else(i, t) = Session!Forgotten(Without(calls, i), t)
  BY Zenon DEF Session!Else, Session!Rest, Session!Without, Without
<1>4. Without(calls, i) \in Seq(SessionCalls)
  BY <1>1, WithoutOne
<1>5. \A x \in BrowserTabs : Untouched(x, calls, Without(calls, i))
  BY <1>1, UntouchedRest
<1>6. v.tab = [ui.tab EXCEPT ![t] = s]
  <2>1. v.tab = [u.tab EXCEPT ![t] = s] /\ u.tab \in [BrowserTabs -> TabStates] /\ ui.tab \in [BrowserTabs -> TabStates]
    BY <1>1, <1>2 DEF TabPut, SessionUi
  <2> QED
    BY <2>1
<1>7. ui' = v /\ calls' = Append(Session!Forgotten(Without(calls, i), t), Session!CallOf(v, t, "me", Blank))
  BY <1>3
<1> HIDE DEF v
<1> QED
  BY <1>2, <1>4, <1>5, <1>6, <1>7, TabAsks

\* Tab t takes the answer to call i and goes on with nothing.
LEMMA TabRests ==
    ASSUME SessionInv, NEW t \in BrowserTabs, NEW i \in DOMAIN calls, NEW s \in TabStates,
           \/ s.csrf = ui.tab[t].csrf /\ s.signed = ui.tab[t].signed /\ s.busy = ui.tab[t].busy
           \/ calls[i] \in Busy(t) /\ (s.signed # 0 => s.csrf = s.signed),
           db' \in SessionDb, ui' = Session!PutTab(ui, t, s), calls' = Without(calls, i)
    PROVE  SessionInv'
<1>1. calls \in Seq(SessionCalls) /\ SessionUi(ui) /\ TabOk(t, ui.tab[t], calls)
  BY DEF SessionInv
<1>2. TabPut(ui, t, s, ui')
  BY <1>1, PutTabIs
<1>3. calls' \in Seq(SessionCalls)
  BY <1>1, WithoutOne
<1>4. \A u \in BrowserTabs : Untouched(u, calls, calls')
  BY <1>1, UntouchedRest
<1>5. TabOk(t, s, calls')
  <2>1. CASE s.csrf = ui.tab[t].csrf /\ s.signed = ui.tab[t].signed /\ s.busy = ui.tab[t].busy
    BY <1>1, <1>4, <2>1, TabFrame
  <2>2. CASE calls[i] \in Busy(t) /\ (s.signed # 0 => s.csrf = s.signed)
    <3>1. NoneOf(Busy(t), Without(calls, i))
      BY <1>1, <2>2, RestOf DEF TabOk
    <3> QED
      BY <2>2, <3>1, TabQuiet
  <2> QED
    BY <2>1, <2>2
<1> QED
  BY <1>1, <1>2, <1>3, <1>4, <1>5, TabStep DEF TabPut, SessionUi

\* What is known of call i when tab t is given an answer to it.
Handed(i, t, a) ==
    /\ i \in DOMAIN calls /\ t \in BrowserTabs /\ calls[i].arg.tab = t /\ ui.tab[t] \in TabStates
    /\ calls[i] \in Toward(t) /\ a \in Answered(DataOf(calls[i].op)) /\ db' \in SessionDb

LEMMA BounceIs ==
    ASSUME SessionInv, NEW i, NEW t, NEW a, Handed(i, t, a), Session!Show(Session!Bounce(i, t))
    PROVE  SessionInv'
<1> DEFINE s == Session!Document("checking", FALSE)
<1>1. s \in TabStates /\ s.signed = 0
  BY DEF Session!Document, Session!NoSession, Session!NoChallenge, TabStates
<1>2. /\ ui' = Session!PutTab(ui, t, s)
      /\ calls' = Append(Session!Else(i, t), Session!CallOf(Session!PutTab(ui, t, s), t, "me", Blank))
  <2>1. Session!Bounce(i, t) =
            [u |-> Session!PutTab(ui, t, s),
             cs |-> Append(Session!Else(i, t), Session!CallOf(Session!PutTab(ui, t, s), t, "me", Blank))]
    BY Zenon DEF Session!Bounce, Blank
  <2>2. ui' = Session!Bounce(i, t).u /\ calls' = Session!Bounce(i, t).cs
    BY Zenon DEF Session!Show
  <2> HIDE DEF s
  <2> QED
    BY <2>1, <2>2
<1> HIDE DEF s
<1> QED
  BY <1>1, <1>2, TabGoesOn DEF SessionInv, Handed

LEMMA HomeOf ==
    ASSUME SessionInv, NEW i, NEW t, NEW a, Handed(i, t, a), NEW u, SessionUi(u),
           \A x \in BrowserTabs \ {t} : u.tab[x] = ui.tab[x], u.tab[t].signed # 0 => u.tab[t].csrf = u.tab[t].signed,
           Session!Show(Session!Home(u, i, t))
    PROVE  SessionInv'
<1> DEFINE s == [u.tab[t] EXCEPT !.at = "console", !.user = Session!NoSession, !.busy = FALSE,
                                 !.challenge = Session!NoChallenge, !.mfa = FALSE, !.error = FALSE]
<1>1. u.tab[t] \in TabStates
  BY DEF SessionUi, Handed
<1>2. s \in TabStates /\ s.signed = u.tab[t].signed /\ s.csrf = u.tab[t].csrf
  BY <1>1 DEF Session!NoSession, Session!NoChallenge, TabStates
<1>3. /\ ui' = Session!PutTab(u, t, s)
      /\ calls' = Append(Session!Else(i, t), Session!CallOf(Session!PutTab(u, t, s), t, "me", Blank))
  <2>1. Session!Home(u, i, t) =
            [u |-> Session!PutTab(u, t, s),
             cs |-> Append(Session!Else(i, t), Session!CallOf(Session!PutTab(u, t, s), t, "me", Blank))]
    BY Zenon DEF Session!Home, Blank
  <2> QED
    BY <2>1 DEF Session!Show
<1> HIDE DEF s
<1> QED
  BY <1>2, <1>3, TabGoesOn DEF Handed

LEMMA ToLoginOf ==
    ASSUME SessionInv, NEW i, NEW t, NEW a, Handed(i, t, a), NEW u, SessionUi(u), u.tab = ui.tab,
           Session!Show(Session!ToLogin(u, i, t))
    PROVE  SessionInv'
<1> DEFINE s == [u.tab[t] EXCEPT !.at = "checking", !.busy = FALSE]
<1>1. u.tab[t] \in TabStates /\ (u.tab[t].signed # 0 => u.tab[t].csrf = u.tab[t].signed)
  BY DEF SessionInv, SessionUi, Handed, TabOk
<1>2. s \in TabStates /\ s.signed = u.tab[t].signed /\ s.csrf = u.tab[t].csrf
  BY <1>1 DEF TabStates
<1>3. /\ ui' = Session!PutTab(u, t, s)
      /\ calls' = Append(Session!Else(i, t), Session!CallOf(Session!PutTab(u, t, s), t, "me", Blank))
  <2>1. Session!ToLogin(u, i, t) =
            [u |-> Session!PutTab(u, t, s),
             cs |-> Append(Session!Else(i, t), Session!CallOf(Session!PutTab(u, t, s), t, "me", Blank))]
    BY Zenon DEF Session!ToLogin, Blank
  <2> QED
    BY <2>1 DEF Session!Show
<1> HIDE DEF s
<1> QED
  BY <1>1, <1>2, <1>3, TabGoesOn DEF Handed


LEMMA DeliveredCheck ==
    ASSUME SessionInv, NEW i, NEW t, NEW a, Handed(i, t, a), Session!DeliverCheck(i, t, a) PROVE SessionInv'
<1>1. SessionUi(ui) /\ TabOk(t, ui.tab[t], calls)
  BY DEF SessionInv, Handed
<1>2. CASE Session!Show(Session!Home(ui, i, t))
  <2>1. ui.tab[t].signed # 0 => ui.tab[t].csrf = ui.tab[t].signed
    BY <1>1 DEF TabOk
  <2> QED
    BY <1>1, <1>2, <2>1, HomeOf
<1> DEFINE s == [ui.tab[t] EXCEPT !.at = "login"]
<1>3. CASE ui' = Session!PutTab(ui, t, s) /\ calls' = Without(calls, i)
  <2>1. s \in TabStates /\ s.csrf = ui.tab[t].csrf /\ s.signed = ui.tab[t].signed /\ s.busy = ui.tab[t].busy
    BY DEF Handed, TabStates
  <2> HIDE DEF s
  <2> QED
    BY <1>3, <2>1, TabRests DEF Handed
<1>4. \/ Session!Show(Session!Home(ui, i, t))
      \/ ui' = Session!PutTab(ui, t, s) /\ calls' = Without(calls, i)
  BY DEF Session!DeliverCheck, Session!Show, Session!Rest, Session!Without, Without
<1> QED
  BY <1>2, <1>3, <1>4

LEMMA DeliveredMe ==
    ASSUME SessionInv, NEW i, NEW t, NEW a, Handed(i, t, a), calls[i].op = "me", Session!DeliverMe(i, t, a)
    PROVE  SessionInv'
<1> DEFINE who == IF a.ok THEN a.data.session ELSE Session!NoSession
           s == [ui.tab[t] EXCEPT !.user = who]
<1>1. CASE Session!Show(Session!Bounce(i, t))
  BY <1>1, BounceIs
<1>2. CASE ui' = Session!PutTab(ui, t, s) /\ calls' = Without(calls, i)
  <2>1. a.ok = TRUE => a.data \in Given
    BY AnswerHas DEF Handed, DataOf
  <2>2. a.ok \in BOOLEAN
    BY AnswerHas DEF Handed
  <2>3. who \in Nat
    BY <2>1, <2>2 DEF Given, Session!NoSession
  <2> HIDE DEF who
  <2>4. s \in TabStates /\ s.csrf = ui.tab[t].csrf /\ s.signed = ui.tab[t].signed /\ s.busy = ui.tab[t].busy
    BY <2>3 DEF Handed, TabStates
  <2> HIDE DEF s
  <2> QED
    BY <1>2, <2>4, TabRests DEF Handed
<1>3. \/ Session!Show(Session!Bounce(i, t))
      \/ ui' = Session!PutTab(ui, t, s) /\ calls' = Without(calls, i)
  BY DEF Session!DeliverMe, Session!Show, Session!Rest, Session!Without, Without
<1> QED
  BY <1>1, <1>2, <1>3

LEMMA DeliveredMutation ==
    ASSUME SessionInv, NEW i, NEW t, NEW a, Handed(i, t, a), Session!DeliverMutation(i, t, a) PROVE SessionInv'
<1> DEFINE failed == ~a.ok
           s == [ui.tab[t] EXCEPT !.error = failed, !.busy = FALSE]
<1>1. CASE Session!Show(Session!Bounce(i, t))
  BY <1>1, BounceIs
<1>2. CASE ui' = Session!PutTab(ui, t, s) /\ calls' = Without(calls, i)
  <2>1. failed \in BOOLEAN
    OBVIOUS
  <2> HIDE DEF failed
  <2>2. s \in TabStates /\ s.csrf = ui.tab[t].csrf /\ s.signed = ui.tab[t].signed
    BY <2>1 DEF Handed, TabStates
  <2>3. calls[i] \in Busy(t)
    BY DEF Session!DeliverMutation, Handed, Busy
  <2>4. s.signed # 0 => s.csrf = s.signed
    BY <2>2 DEF SessionInv, TabOk, Handed
  <2> HIDE DEF s
  <2> QED
    BY <1>2, <2>2, <2>3, <2>4, TabRests DEF Handed
<1>3. \/ Session!Show(Session!Bounce(i, t))
      \/ ui' = Session!PutTab(ui, t, s) /\ calls' = Without(calls, i)
  BY DEF Session!DeliverMutation, Session!Show, Session!Rest, Session!Without, Without
<1> QED
  BY <1>1, <1>2, <1>3

LEMMA DeliveredLogout ==
    ASSUME SessionInv, NEW i, NEW t, NEW a, Handed(i, t, a), Session!DeliverLogout(i, t, a) PROVE SessionInv'
<1>1. CASE Session!Show(Session!Bounce(i, t))
  BY <1>1, BounceIs
<1>2. CASE Session!Show(Session!ToLogin(ui, i, t))
  BY <1>2, ToLoginOf DEF SessionInv
<1> DEFINE u == [ui EXCEPT !.cookie = Session!NoSession, !.mfa = {}]
<1>3. CASE Session!Show(Session!ToLogin(u, i, t))
  <2>1. SessionUi(ui)
    BY DEF SessionInv
  <2>2. SessionUi(u) /\ u.tab = ui.tab
    BY <2>1 DEF SessionUi, SessionFields, Session!NoSession
  <2> HIDE DEF u
  <2> QED
    BY <1>3, <2>2, ToLoginOf
<1>4. \/ Session!Show(Session!Bounce(i, t))
      \/ Session!Show(Session!ToLogin(ui, i, t))
      \/ Session!Show(Session!ToLogin(u, i, t))
  BY DEF Session!DeliverLogout
<1> QED
  BY <1>1, <1>2, <1>3, <1>4

\* A granted session is the cookie of every tab, and the token of the one that asked.
LEMMA DeliveredSignIn ==
    ASSUME SessionInv, NEW i, NEW t, NEW a, Handed(i, t, a), calls[i].op \in {"login", "verify"},
           Session!DeliverSignIn(i, t, a)
    PROVE  SessionInv'
<1>1. SessionUi(ui) /\ TabOk(t, ui.tab[t], calls) /\ ui.tab[t] \in TabStates /\ calls[i] \in Busy(t)
  BY DEF SessionInv, Handed, Busy
<1>2. a.ok = TRUE => a.data \in Granted
  BY AnswerHas DEF Handed, DataOf
<1>3. a.ok \in BOOLEAN
  BY AnswerHas DEF Handed
<1> DEFINE s1 == [ui.tab[t] EXCEPT !.error = TRUE, !.busy = FALSE]
           s3 == [ui.tab[t] EXCEPT !.challenge = a.data.challenge, !.busy = FALSE,
                                   !.csrf = Session!NoSession, !.signed = Session!NoSession]
           u2 == Session!SignedIn(t, a.data.session)
<1>4. CASE ui' = Session!PutTab(ui, t, s1) /\ calls' = Without(calls, i)
  <2>1. s1 \in TabStates /\ s1.csrf = ui.tab[t].csrf /\ s1.signed = ui.tab[t].signed
    BY <1>1 DEF TabStates
  <2>2. s1.signed # 0 => s1.csrf = s1.signed
    BY <1>1, <2>1 DEF TabOk
  <2> HIDE DEF s1
  <2> QED
    BY <1>1, <1>4, <2>1, <2>2, TabRests DEF Handed
<1>5. CASE a.ok = TRUE /\ "session" \in DOMAIN a.data /\ Session!Show(Session!Home(u2, i, t))
  <2> DEFINE n == a.data.session
  <2>1. n \in Nat
    BY <1>2, <1>5 DEF Given, Granted
  <2> HIDE DEF n
  <2> DEFINE s2 == [ui.tab[t] EXCEPT !.csrf = n, !.signed = n]
             v == Session!SignedIn(t, n)
  <2>2. s2 \in TabStates /\ s2.csrf = s2.signed
    BY <1>1, <2>1 DEF TabStates
  <2>3. /\ DOMAIN v = SessionFields /\ v.cookie = n /\ v.mfa = {}
        /\ v.tab = [ui.tab EXCEPT ![t] = s2]
    BY <1>1 DEF Session!SignedIn, SessionUi, SessionFields, Handed
  <2>4. u2 = v
    BY DEF n
  <2> HIDE DEF s2, v, u2
  <2>5. SessionUi(v) /\ v.tab[t] = s2 /\ \A x \in BrowserTabs \ {t} : v.tab[x] = ui.tab[x]
    BY <1>1, <2>1, <2>2, <2>3 DEF SessionUi, Handed
  <2> QED
    BY <1>5, <2>2, <2>4, <2>5, HomeOf
<1>6. CASE /\ a.ok = TRUE /\ "session" \notin DOMAIN a.data
           /\ ui' = Session!PutTab(ui, t, s3) /\ calls' = Without(calls, i)
  <2> DEFINE ch == a.data.challenge
  <2>1. ch \in TwoFactor
    BY <1>2, <1>6 DEF Given, Granted
  <2> HIDE DEF ch
  <2> DEFINE s == [ui.tab[t] EXCEPT !.challenge = ch, !.busy = FALSE,
                                    !.csrf = Session!NoSession, !.signed = Session!NoSession]
  <2>2. s \in TabStates /\ s.signed = 0
    BY <1>1, <2>1 DEF TabStates, Session!NoSession
  <2>3. s3 = s
    BY DEF ch
  <2> HIDE DEF s, s3
  <2> QED
    BY <1>1, <1>6, <2>2, <2>3, TabRests DEF Handed
<1>7. \/ ui' = Session!PutTab(ui, t, s1) /\ calls' = Without(calls, i)
      \/ a.ok = TRUE /\ "session" \in DOMAIN a.data /\ Session!Show(Session!Home(u2, i, t))
      \/ /\ a.ok = TRUE /\ "session" \notin DOMAIN a.data
         /\ ui' = Session!PutTab(ui, t, s3) /\ calls' = Without(calls, i)
  BY <1>3 DEF Session!DeliverSignIn, Session!Show, Session!Rest, Session!Without, Without
<1> QED
  BY <1>4, <1>5, <1>6, <1>7


\* A tab whose handler sends its next call, op, in state s2 of the tab.
LEMMA TabSends ==
    ASSUME SessionInv, NEW t \in BrowserTabs, NEW s \in TabStates, NEW v, SessionUi(v), db' \in SessionDb,
           v.tab = [ui.tab EXCEPT ![t] = s], ui' = v, NEW cs \in Seq(SessionCalls),
           \A u \in BrowserTabs : Untouched(u, calls, cs), NoneOf(Busy(t), cs), s.busy = TRUE,
           s.signed # 0 => s.csrf = s.signed, NEW c \in SessionCalls, c.arg.tab = t, c \notin Wrong(t, s),
           calls' = Append(cs, c)
    PROVE  SessionInv'
<1>1. calls' \in Seq(SessionCalls)
  <2>1. Append(cs, c) \in Seq(SessionCalls)
    OBVIOUS
  <2> QED
    BY <2>1
<1>2. ASSUME NEW u \in BrowserTabs \ {t} PROVE Untouched(u, calls, calls')
  BY UntouchedAppend, UntouchedThen
<1>3. NoneOf(Wrong(t, s), cs)
  BY TabKinds DEF NoneOf
<1>4. OneOf(Busy(t), calls') /\ NoneOf(Wrong(t, s), calls')
  BY <1>3, AppendOf
<1>5. TabOk(t, s, calls')
  BY <1>4 DEF TabOk
<1> QED
  BY <1>1, <1>2, <1>5, TabStep DEF SessionUi

\* The token a tab had none of is in.
LEMMA DeliveredCsrf ==
    ASSUME SessionInv, NEW i, NEW t, NEW a, Handed(i, t, a), Session!DeliverCsrf(i, t, a) PROVE SessionInv'
<1> DEFINE s == ui.tab[t]
           who == calls[i].arg.who
           v == IF a.ok THEN [ui EXCEPT !.tab[t].csrf = a.data.session] ELSE ui
           c == Session!CallOf(v, t, who, Blank)
<1>1. /\ SessionUi(ui) /\ calls \in Seq(SessionCalls) /\ TabOk(t, s, calls) /\ s \in TabStates
      /\ calls[i] \in SessionCalls /\ calls[i].op = "csrf" /\ calls[i] \in Busy(t)
  <2>1. calls[i].op = "csrf"
    BY Zenon DEF Session!DeliverCsrf
  <2>2. calls[i] \in Busy(t)
    BY <2>1 DEF Handed, Busy
  <2> QED
    BY <2>1, <2>2 DEF SessionInv, Handed
<1>2. who \in {"mutate", "logout"}
  BY <1>1, SessionKinds DEF ArgsOf
<1>3. s.csrf = 0 /\ s.signed = 0
  <2>1. calls[i] \notin Wrong(t, s)
    BY <1>1 DEF TabOk, NoneOf, Handed
  <2>2. s.csrf = 0
    BY <1>1, <2>1 DEF Wrong
  <2> QED
    BY <1>1, <2>2 DEF TabOk
<1>4. s.busy = TRUE
  <2>1. s.busy \in BOOLEAN
    BY <1>1 DEF TabStates
  <2>2. s.busy # FALSE
    BY <1>1 DEF TabOk, NoneOf, Handed
  <2> QED
    BY <2>1, <2>2
<1>5. a.ok \in BOOLEAN /\ (a.ok = TRUE => a.data.session \in Nat)
  <2>1. a.ok = TRUE => a.data \in Given
    BY <1>1, AnswerHas DEF Handed, DataOf
  <2> QED
    BY <2>1, AnswerHas DEF Given, Handed
<1>6. PICK n \in Nat : v.tab = [ui.tab EXCEPT ![t] = [s EXCEPT !.csrf = n]] /\ DOMAIN v = SessionFields
                       /\ v.cookie = ui.cookie /\ v.mfa = ui.mfa
  <2>1. CASE a.ok = TRUE
    <3> DEFINE m == a.data.session
    <3>1. m \in Nat
      BY <1>5, <2>1
    <3>2. v = [ui EXCEPT !.tab[t].csrf = m]
      BY <2>1
    <3> HIDE DEF m, v
    <3>3. v.tab = [ui.tab EXCEPT ![t] = [s EXCEPT !.csrf = m]] /\ DOMAIN v = SessionFields
          /\ v.cookie = ui.cookie /\ v.mfa = ui.mfa
      BY <1>1, <3>2 DEF SessionUi, SessionFields
    <3> QED
      BY <3>1, <3>3
  <2>2. CASE a.ok = FALSE
    <3>1. v = ui
      BY <2>2
    <3>2. [s EXCEPT !.csrf = 0] = s
      BY <1>1, <1>3 DEF TabStates
    <3>3. ui.tab = [ui.tab EXCEPT ![t] = s]
      BY <1>1 DEF SessionUi
    <3> HIDE DEF v, s
    <3>4. v.tab = [ui.tab EXCEPT ![t] = [s EXCEPT !.csrf = 0]] /\ 0 \in Nat
      BY <3>1, <3>2, <3>3
    <3> QED
      BY <1>1, <3>1, <3>4 DEF SessionUi
  <2> QED
    BY <1>5, <2>1, <2>2
<1> DEFINE s2 == [s EXCEPT !.csrf = n]
<1>7. s2 \in TabStates /\ s2.csrf = n /\ s2.signed = 0 /\ s2.busy = TRUE
  BY <1>1, <1>3, <1>4 DEF TabStates
<1>8. ui' = v /\ calls' = Append(Without(calls, i), c)
  <2>1. ui' = v /\ calls' = Append(Session!Rest(i), c)
    BY Zenon DEF Session!DeliverCsrf, Session!Show, Session!Then, Blank
  <2> QED
    BY <2>1, Zenon DEF Session!Rest, Session!Without, Without
<1> HIDE DEF v
<1>9. v.tab[t] = s2 /\ SessionUi(v)
  BY <1>1, <1>6, <1>7 DEF SessionUi, Handed
<1>10. /\ c \in SessionCalls /\ c.op = who /\ c.arg.tab = t /\ c.arg.csrf = v.tab[t].csrf /\ c.st = "sent"
  <2>1. who \in SessionOps /\ Blank \in IF who = "csrf" THEN {"mutate", "logout"} ELSE Whom
    BY <1>2 DEF SessionOps, Whom
  <2>2. t \in BrowserTabs /\ SessionUi(v)
    BY <1>9 DEF Handed
  <2> HIDE DEF who
  <2> QED
    BY <2>1, <2>2, TabCallIs
<1> HIDE DEF c, who, s
<1>11. c \notin Wrong(t, s2)
  BY <1>2, <1>7, <1>9, <1>10 DEF Wrong
<1>12. NoneOf(Busy(t), Without(calls, i)) /\ Without(calls, i) \in Seq(SessionCalls)
  BY <1>1, RestOf, WithoutOne DEF TabOk, Handed
<1>13. \A u \in BrowserTabs : Untouched(u, calls, Without(calls, i))
  BY <1>1, UntouchedRest DEF Handed
<1> HIDE DEF s2
<1>14. v.tab = [ui.tab EXCEPT ![t] = s2]
  BY <1>6 DEF s2
<1> QED
  BY <1>7, <1>8, <1>9, <1>10, <1>11, <1>12, <1>13, <1>14, TabSends DEF Handed

LEMMA SessionDeliver == ASSUME SessionInv, NEW i \in DOMAIN calls, Session!Deliver(i) PROVE SessionInv'
<1> DEFINE t == calls[i].arg.tab
<1>1. calls \in Seq(SessionCalls) /\ SessionUi(ui) /\ calls[i] \in SessionCalls /\ db' = db /\ db \in SessionDb
  BY DEF SessionInv, Session!Deliver
<1>2. t \in BrowserTabs \cup {0}
  BY <1>1, SessionKinds
<1>3. CASE t = 0
  <2>1. ui' = ui /\ calls' = Without(calls, i)
    BY <1>3 DEF Session!Deliver, Session!DeliverToNobody, Session!Show, Session!NoTab, Session!Rest,
                Session!Without, Without
  <2>2. calls' \in Seq(SessionCalls) /\ \A u \in BrowserTabs : Untouched(u, calls, calls')
    BY <1>1, <2>1, WithoutOne, UntouchedRest
  <2>3. ASSUME NEW u \in BrowserTabs PROVE TabOk(u, ui.tab[u], calls')
    BY <2>2, TabFrame DEF SessionInv
  <2> QED
    BY <1>1, <2>1, <2>2, <2>3 DEF SessionInv
<1>4. CASE t # 0
  <2>1. t \in BrowserTabs
    BY <1>2, <1>4
  <2>2. PICK a \in Session!Answers(i) :
            \/ Session!DeliverCheck(i, t, a) \/ Session!DeliverMe(i, t, a) \/ Session!DeliverSignIn(i, t, a)
            \/ Session!DeliverCsrf(i, t, a) \/ Session!DeliverMutation(i, t, a) \/ Session!DeliverLogout(i, t, a)
    BY <1>4 DEF Session!Deliver, Session!NoTab
  <2>3. a \in Answered(DataOf(calls[i].op))
    <3>1. "network" \in Codes
      BY DEF Codes
    <3>2. Session!NetworkError \in Answered(DataOf(calls[i].op))
      BY <3>1, AnswerIs DEF Session!NetworkError, Session!Refused
    <3> QED
      BY <1>1, <2>2, <3>2, SessionKinds DEF Session!Answers
  <2>4. Handed(i, t, a)
    BY <1>1, <2>1, <2>3 DEF Handed, Toward, SessionUi
  <2> HIDE DEF t
  <2>5. Session!DeliverMe(i, t, a) => calls[i].op = "me"
    BY DEF Session!DeliverMe
  <2>6. Session!DeliverSignIn(i, t, a) => calls[i].op \in {"login", "verify"}
    BY DEF Session!DeliverSignIn
  <2> QED
    BY <2>2, <2>4, <2>5, <2>6, DeliveredCheck, DeliveredMe, DeliveredSignIn, DeliveredCsrf, DeliveredMutation,
       DeliveredLogout
<1> QED
  BY <1>3, <1>4


\* A tab that is not busy sends a call and waits for it.
LEMMA TabClicks ==
    ASSUME SessionInv, NEW t \in BrowserTabs, ui.tab[t].busy = FALSE, db' = db,
           NEW op \in SessionOps, NEW who \in IF op = "csrf" THEN {"mutate", "logout"} ELSE Whom,
           op = "csrf" => ui.tab[t].csrf = 0,
           LET u == Session!PutTab(ui, t, [ui.tab[t] EXCEPT !.busy = TRUE, !.error = FALSE])
           IN  ui' = u /\ calls' = Append(calls, Session!CallOf(u, t, op, who))
    PROVE  SessionInv'
<1> DEFINE s == [ui.tab[t] EXCEPT !.busy = TRUE, !.error = FALSE]
           v == Session!PutTab(ui, t, s)
           c == Session!CallOf(v, t, op, who)
<1>1. SessionUi(ui) /\ calls \in Seq(SessionCalls) /\ TabOk(t, ui.tab[t], calls) /\ db' \in SessionDb
  BY DEF SessionInv
<1>2. ui.tab[t] \in TabStates
  BY <1>1 DEF SessionUi
<1>3. s \in TabStates /\ s.csrf = ui.tab[t].csrf /\ s.signed = ui.tab[t].signed /\ s.busy = TRUE
  BY <1>2 DEF TabStates
<1>4. ui' = v /\ calls' = Append(calls, c)
  OBVIOUS
<1> HIDE DEF s
<1>5. TabPut(ui, t, s, v) /\ SessionUi(v) /\ v.tab[t] = s
  BY <1>1, <1>3, PutTabIs, PutTabUi
<1> HIDE DEF v
<1>6. c \in SessionCalls /\ c.op = op /\ c.arg.tab = t /\ c.arg.csrf = v.tab[t].csrf /\ c.st = "sent"
  BY <1>5, TabCallIs
<1> HIDE DEF c
<1>7. c \notin Wrong(t, s)
  BY <1>3, <1>5, <1>6 DEF Wrong
<1>8. NoneOf(Busy(t), calls)
  BY <1>1 DEF TabOk
<1>9. s.signed # 0 => s.csrf = s.signed
  BY <1>1, <1>3 DEF TabOk
<1>10. \A u \in BrowserTabs : Untouched(u, calls, calls)
  BY DEF Untouched
<1> QED
  BY <1>1, <1>3, <1>4, <1>5, <1>6, <1>7, <1>8, <1>9, <1>10, TabSends DEF TabPut

LEMMA SessionClick == ASSUME SessionInv, Session!Click PROVE SessionInv'
<1>1. SessionUi(ui) /\ db' = db /\ db \in SessionDb /\ calls \in Seq(SessionCalls)
  BY DEF SessionInv, Session!Click
<1>2. PICK t \in BrowserTabs :
          \/ Session!Mutate(t, "mutate") \/ Session!Mutate(t, "logout") \/ Session!Verify(t)
          \/ Session!Restart(t) \/ Session!Reload(t) \/ \E a \in SignIns : Session!Submit(t, a)
  BY DEF Session!Click
<1>3. ui.tab[t] \in TabStates /\ ui.tab[t].busy \in BOOLEAN
  BY <1>1 DEF SessionUi, TabStates
<1> DEFINE u == Session!PutTab(ui, t, [ui.tab[t] EXCEPT !.busy = TRUE, !.error = FALSE])
<1>4. ASSUME NEW op \in Mutations, Session!Mutate(t, op) PROVE SessionInv'
  <2>1. ui.tab[t].busy = FALSE
    BY <1>3, <1>4 DEF Session!Mutate
  <2>2. op \in {"mutate", "logout"} /\ op \in SessionOps /\ op # "csrf" /\ "csrf" \in SessionOps /\ Blank \in Whom
    BY DEF Mutations, SessionOps, Whom
  <2>3. CASE /\ ui.tab[t].csrf = 0
             /\ ui' = u /\ calls' = Append(calls, Session!CallOf(u, t, "csrf", op))
    <3>1. op \in IF "csrf" = "csrf" THEN {"mutate", "logout"} ELSE Whom
      BY <2>2
    <3> HIDE DEF Mutations
    <3> QED
      BY <1>1, <2>1, <2>2, <2>3, <3>1, TabClicks
  <2>4. CASE ui' = u /\ calls' = Append(calls, Session!CallOf(u, t, op, Blank))
    <3>1. Blank \in IF op = "csrf" THEN {"mutate", "logout"} ELSE Whom
      BY <2>2
    <3> QED
      BY <1>1, <2>1, <2>2, <2>4, <3>1, TabClicks
  <2>5. \/ /\ ui.tab[t].csrf = 0
           /\ ui' = u /\ calls' = Append(calls, Session!CallOf(u, t, "csrf", op))
        \/ ui' = u /\ calls' = Append(calls, Session!CallOf(u, t, op, Blank))
    BY <1>4, Zenon DEF Session!Mutate, Session!Send, Session!NeedsToken, Session!NoSession, Blank
  <2> QED
    BY <2>3, <2>4, <2>5
<1>5. ASSUME NEW a \in SignIns, Session!Submit(t, a) PROVE SessionInv'
  <2>1. ui.tab[t].busy = FALSE
    BY <1>3, <1>5 DEF Session!Submit
  <2>2. "login" \in SessionOps /\ a \in IF "login" = "csrf" THEN {"mutate", "logout"} ELSE Whom
    BY DEF SessionOps, Whom
  <2>3. ui' = u /\ calls' = Append(calls, Session!CallOf(u, t, "login", a))
    BY <1>5, Zenon DEF Session!Submit, Session!Send
  <2> QED
    BY <1>1, <2>1, <2>2, <2>3, TabClicks
<1>6. CASE Session!Verify(t)
  <2>1. ui.tab[t].busy = FALSE
    BY <1>3, <1>6 DEF Session!Verify
  <2> DEFINE who == Session!Challenged(ui.tab[t])
             w == IF who = {} THEN Blank ELSE CHOOSE a \in who : TRUE
  <2>2. ui.tab[t].challenge \in TwoFactor \cup {"none"} /\ ui.mfa \in SUBSET TwoFactor
    BY <1>1, <1>3 DEF SessionUi, TabStates
  <2>3. who \in SUBSET TwoFactor
    <3>1. CASE ui.tab[t].challenge = "none"
      BY <2>2, <3>1 DEF Session!Challenged, Session!NoChallenge
    <3>2. CASE ui.tab[t].challenge # "none"
      BY <2>2, <3>2 DEF Session!Challenged, Session!NoChallenge
    <3> QED
      BY <3>1, <3>2
  <2>4. w \in Whom
    <3> HIDE DEF who
    <3>1. CASE who = {}
      BY <3>1 DEF Whom
    <3>2. CASE who # {}
      <4>1. (CHOOSE a \in who : TRUE) \in who
        BY <3>2
      <4> QED
        BY <2>3, <3>2, <4>1 DEF Whom
    <3> QED
      BY <3>1, <3>2
  <2>5. "verify" \in SessionOps /\ w \in IF "verify" = "csrf" THEN {"mutate", "logout"} ELSE Whom
    BY <2>4 DEF SessionOps
  <2>6. ui' = u /\ calls' = Append(calls, Session!CallOf(u, t, "verify", w))
    BY <1>6, Zenon DEF Session!Verify, Session!Send, Blank
  <2> HIDE DEF w
  <2> QED
    BY <1>1, <2>1, <2>5, <2>6, TabClicks
<1>7. CASE Session!Restart(t)
  <2> DEFINE s == [ui.tab[t] EXCEPT !.challenge = Session!NoChallenge, !.mfa = FALSE, !.error = FALSE]
  <2>1. ui' = Session!PutTab(ui, t, s) /\ calls' = calls
    BY <1>7 DEF Session!Restart, Session!Set
  <2>2. s \in TabStates /\ s.csrf = ui.tab[t].csrf /\ s.signed = ui.tab[t].signed /\ s.busy = ui.tab[t].busy
    BY <1>3 DEF TabStates, Session!NoChallenge
  <2> HIDE DEF s
  <2>3. TabPut(ui, t, s, ui')
    BY <1>1, <2>1, PutTabIs
  <2>4. \A x \in BrowserTabs : Untouched(x, calls, calls')
    BY <2>1 DEF Untouched
  <2>5. TabOk(t, s, calls')
    BY <2>2, <2>4, TabFrame DEF SessionInv
  <2> QED
    BY <1>1, <2>1, <2>2, <2>3, <2>4, <2>5, TabStep DEF TabPut, SessionUi
<1>8. CASE Session!Reload(t)
  <2> DEFINE at == IF ui.tab[t].at = "console" THEN "console" ELSE "checking"
             s == Session!Document(at, FALSE)
             v == Session!PutTab(ui, t, s)
  <2>1. s \in TabStates /\ s.signed = 0
    BY DEF Session!Document, Session!NoSession, Session!NoChallenge, TabStates
  <2>2. ui' = v /\ calls' = Append(Session!Forgotten(calls, t), Session!CallOf(v, t, "me", Blank))
    BY <1>8, Zenon DEF Session!Reload, Blank
  <2> HIDE DEF s
  <2>3. TabPut(ui, t, s, v) /\ SessionUi(v)
    BY <1>1, <2>1, PutTabIs, PutTabUi
  <2>4. \A x \in BrowserTabs : Untouched(x, calls, calls)
    BY DEF Untouched
  <2> HIDE DEF v
  <2> QED
    BY <1>1, <2>1, <2>2, <2>3, <2>4, TabAsks DEF TabPut
<1> QED
  BY <1>2, <1>4, <1>5, <1>6, <1>7, <1>8 DEF Mutations

LEMMA SessionNext == ASSUME SessionInv, Session!Next \/ Still PROVE SessionInv'
<1>1. CASE Session!Click
  BY <1>1, SessionClick
<1>2. ASSUME NEW s \in db.live, Session!Expire(s) PROVE SessionInv'
  <2>1. ui' = ui /\ calls' = calls /\ db' = [db EXCEPT !.live = @ \ {s}]
    BY <1>2 DEF Session!Expire
  <2>2. db' \in SessionDb
    BY <2>1 DEF SessionInv, SessionDb
  <2> QED
    BY <2>1, <2>2 DEF SessionInv
<1>3. ASSUME NEW i \in DOMAIN calls, Session!Serve(i) \/ Session!Deliver(i) PROVE SessionInv'
  BY <1>3, SessionServe, SessionDeliver
<1>4. CASE Still
  BY <1>4 DEF Still, SessionInv
<1> QED
  BY <1>1, <1>2, <1>3, <1>4 DEF Session!Next

\* A tab that signed in never changes anything under a session another tab
\* signed in to afterwards, although the cookies are that session's by then
\* (api-client.ts:513-522, middleware.go:71-95).
THEOREM ActsAsSignedInAlways == Spec => []ActsAsSignedIn
<1> DEFINE I == page = "session" => SessionInv
<1>1. Init => I
  BY Mounts, SessionInit
<1>2. I /\ [Next]_vars => I'
  BY Steps, SessionNext
<1>3. I => ActsAsSignedIn
  <2> SUFFICES ASSUME page = "session", SessionInv, NEW i \in DOMAIN calls,
                      calls[i].op \in {"mutate", "logout"}, calls[i].st = "served", calls[i].res.ok,
                      calls[i].arg.tab # 0, ui.tab[calls[i].arg.tab].signed # 0
               PROVE  calls[i].res.data.session = ui.tab[calls[i].arg.tab].signed
    BY DEF ActsAsSignedIn, Session!ActsAsSignedIn, Session!NoTab, Session!NoSession
  <2> DEFINE c == calls[i]
             t == c.arg.tab
  <2>1. c \in SessionCalls
    BY DEF SessionInv
  <2>2. t \in BrowserTabs
    BY <2>1, SessionKinds
  <2>3. c \in Busy(t)
    BY <2>1 DEF Busy, Toward
  <2>4. c.res.ok = TRUE
    BY <2>1, SessionKinds, AnswerHas
  <2>5. TabOk(t, ui.tab[t], calls)
    BY <2>2 DEF SessionInv
  <2>6. c \notin Wrong(t, ui.tab[t])
    BY <2>5 DEF TabOk, NoneOf
  <2>7. c.arg.csrf = ui.tab[t].csrf /\ c.res.data.session = c.arg.csrf
    BY <2>3, <2>4, <2>6 DEF Wrong, Mutations
  <2>8. ui.tab[t].csrf = ui.tab[t].signed
    BY <2>5 DEF TabOk
  <2> QED
    BY <2>7, <2>8
<1> QED
  BY <1>1, <1>2, <1>3, PTL DEF Spec
-----------------------------------------------------------------------------
(* Typing of the pages whose invariants above already say enough.          *)
LEMMA DashboardTyped == ASSUME DashboardInv PROVE Dashboard!TypeOK
BY DEF DashboardInv, DashboardUi, Dashboard!TypeOK, Verdicts

LEMMA SecurityTyped == ASSUME SecurityInv PROVE Security!TypeOK
BY DEF SecurityInv, SecurityUi, Statuses, Security!TypeOK

\* The tokens are 1 .. n, so as many were made at most.
LEMMA SameCardinalities ==
    ASSUME NEW S
    PROVE  /\ TokenList!Cardinality(S) = Cardinality(S)
           /\ Audit!Cardinality(S) = Cardinality(S)
           /\ LinkList!Cardinality(S) = Cardinality(S)
BY DEF TokenList!Cardinality, Audit!Cardinality, LinkList!Cardinality, Cardinality

LEMMA TokensTyped == ASSUME TokensInv PROVE TokenList!TypeOK
<1> DEFINE n == Cardinality(TokenIds)
<1>1. n \in Nat /\ TokenIds = 1 .. n
  BY TokensAssumption, FS_CardinalityType
<1> HIDE DEF n
<1>2. db.made \in 0 .. n
  <2>1. db.made \in Nat /\ 1 .. db.made \subseteq 1 .. n
    BY <1>1 DEF TokensInv, TokensDb
  <2>2. db.made = 0 \/ db.made \in 1 .. db.made
    BY <2>1
  <2> QED
    BY <1>1, <2>1, <2>2
<1>3. TokenList!Cardinality(TokenIds) = n
  BY SameCardinalities DEF n
<1> QED
  BY <1>2, <1>3 DEF TokensInv, TokensUi, TokenList!TypeOK, TokenList!NoSecret

LEMMA FormsTyped == ASSUME FormsInv PROVE Forms!TypeOK
<1>1. DOMAIN ui.form \in {{}, ui.forms} /\ \A f \in DOMAIN ui.form : ui.form[f] \in FormStates
  BY DEF FormsInv, Opened
<1>2. \A f \in DOMAIN db : db[f].v \in FormValues /\ db[f].rev \in Nat
  BY DEF FormsInv, Datas
<1>3. ASSUME NEW s \in FormStates
      PROVE  /\ s.draft \in FormTexts \cup {Blank} /\ s.base \in FormValues \cup {Blank}
             /\ {s.saved, s.secret, s.error, s.notice, s.loading, s.busy, s.conflict} \subseteq BOOLEAN
  BY DEF FormStates
<1> QED
  BY <1>1, <1>2, <1>3, Zenon DEF FormsInv, Forms!TypeOK, Blank

-----------------------------------------------------------------------------
(* Sessions are numbered as they are made: no cookie, token or answer is of *)
(* one that was not.                                                        *)
TabMade(s, m) == s.csrf <= m /\ s.signed <= m /\ s.user <= m
Made(u, m) == u.cookie <= m /\ \A t \in BrowserTabs : TabMade(u.tab[t], m)
Unmade(m) ==
    {c \in SessionCalls :
        \/ ~(c.arg.cookie <= m)
        \/ /\ c.st = "served" /\ c.res.ok = TRUE /\ "session" \in DOMAIN c.res.data
           /\ ~(c.res.data.session <= m)}
SessionTypes ==
    SessionInv /\ Made(ui, db.made) /\ db.live \subseteq 1 .. db.made /\ NoneOf(Unmade(db.made), calls)

LEMMA MadeGrows == ASSUME NEW m \in Nat, NEW u, SessionUi(u), Made(u, m) PROVE Made(u, m + 1)
<1>1. u.cookie \in Nat /\ u.cookie <= m + 1
  BY DEF SessionUi, Made
<1>2. ASSUME NEW t \in BrowserTabs PROVE TabMade(u.tab[t], m + 1)
  <2>1. u.tab[t] \in TabStates /\ TabMade(u.tab[t], m)
    BY DEF SessionUi, Made
  <2>2. u.tab[t].csrf \in Nat /\ u.tab[t].signed \in Nat /\ u.tab[t].user \in Nat
    BY <2>1 DEF TabStates
  <2> QED
    BY <2>1, <2>2 DEF TabMade
<1> QED
  BY <1>1, <1>2 DEF Made

LEMMA SessionNumbers ==
    ASSUME NEW c \in SessionCalls
    PROVE  /\ c.arg.cookie \in Nat
           /\ c.st = "served" /\ c.res.ok = TRUE /\ "session" \in DOMAIN c.res.data => c.res.data.session \in Nat
<1>1. c.op \in SessionOps /\ c.arg \in ArgsOf(c.op) /\ (c.st = "served" => c.res \in Answered(DataOf(c.op)))
  BY SessionKinds
<1>2. c.arg.cookie \in Nat
  BY <1>1 DEF ArgsOf
<1>3. ASSUME c.st = "served", c.res.ok = TRUE, "session" \in DOMAIN c.res.data PROVE c.res.data.session \in Nat
  <2>1. c.res.data \in DataOf(c.op)
    BY <1>1, <1>3, AnswerHas
  <2>2. c.res.data \in Given \cup Granted
    BY <2>1 DEF DataOf
  <2> QED
    BY <1>3, <2>2 DEF Given, Granted
<1> QED
  BY <1>2, <1>3

LEMMA UnmadeGrows == ASSUME NEW m \in Nat PROVE Unmade(m + 1) \subseteq Unmade(m)
<1> SUFFICES ASSUME NEW c \in Unmade(m + 1) PROVE c \in Unmade(m)
  OBVIOUS
<1>1. c \in SessionCalls
  BY DEF Unmade
<1>2. c.arg.cookie \in Nat
  BY <1>1, SessionNumbers
<1>3. CASE ~(c.arg.cookie <= m + 1)
  <2> DEFINE n == c.arg.cookie
  <2>1. n \in Nat /\ ~(n <= m + 1)
    BY <1>2, <1>3
  <2> HIDE DEF n
  <2>2. ~(n <= m)
    BY <2>1
  <2> QED
    BY <1>1, <2>2 DEF Unmade, n
<1>4. CASE c.st = "served" /\ c.res.ok = TRUE /\ "session" \in DOMAIN c.res.data /\ ~(c.res.data.session <= m + 1)
  <2> DEFINE n == c.res.data.session
  <2>1. n \in Nat /\ ~(n <= m + 1)
    BY <1>1, <1>4, SessionNumbers
  <2> HIDE DEF n
  <2>2. ~(n <= m)
    BY <2>1
  <2> QED
    BY <1>1, <1>4, <2>2 DEF Unmade, n
<1> QED
  BY <1>3, <1>4 DEF Unmade

LEMMA MadePut ==
    ASSUME NEW m \in Nat, NEW u, SessionUi(u), Made(u, m), NEW t \in BrowserTabs, NEW s \in TabStates, TabMade(s, m)
    PROVE  LET v == Session!PutTab(u, t, s) IN
           SessionUi(v) /\ Made(v, m)
<1> DEFINE v == Session!PutTab(u, t, s)
<1>1. TabPut(u, t, s, v) /\ SessionUi(v)
  BY PutTabIs, PutTabUi
<1> HIDE DEF v
<1>2. v.cookie = u.cookie /\ v.tab[t] = s /\ \A x \in BrowserTabs \ {t} : v.tab[x] = u.tab[x]
  BY <1>1 DEF TabPut, SessionUi
<1>3. Made(v, m)
  BY <1>2 DEF Made
<1> QED
  BY <1>1, <1>3 DEF v

LEMMA CallMade ==
    ASSUME NEW m \in Nat, NEW u, Made(u, m), NEW t, NEW op, NEW who
    PROVE  Session!CallOf(u, t, op, who) \notin Unmade(m)
<1> DEFINE arg == [tab |-> t, cookie |-> u.cookie, csrf |-> u.tab[t].csrf, who |-> who]
           c == Session!CallOf(u, t, op, who)
<1>1. c = Session!Call(op, arg, Session!Effect) /\ arg.cookie = u.cookie
  BY DEF Session!CallOf
<1> HIDE DEF arg, c
<1>2. c.arg = arg /\ c.st = "sent"
  BY <1>1 DEF Session!Call
<1>3. c \notin Unmade(m)
  BY <1>1, <1>2 DEF Unmade, Made
<1> QED
  BY <1>3 DEF c

LEMMA ForgottenMade ==
    ASSUME NEW m \in Nat, NEW cs \in Seq(SessionCalls), NoneOf(Unmade(m), cs), NEW t \in BrowserTabs
    PROVE  NoneOf(Unmade(m), Session!Forgotten(cs, t))
<1> DEFINE s == Session!Forgotten(cs, t)
<1>1. s = [k \in DOMAIN cs |-> IF cs[k].arg.tab = t THEN [cs[k] EXCEPT !.arg.tab = 0] ELSE cs[k]]
  BY DEF Session!Forgotten, Session!NoTab
<1>2. s \in Seq(SessionCalls)
  BY ForgottenOf
<1> HIDE DEF s
<1>3. DOMAIN s = DOMAIN cs
  BY <1>1
<1>4. ASSUME NEW k \in DOMAIN s, s[k] \in Unmade(m) PROVE cs[k] \in Unmade(m)
  <2>1. cs[k] \in SessionCalls /\ (s[k] = cs[k] \/ s[k] = [cs[k] EXCEPT !.arg.tab = 0])
    BY <1>1, <1>3
  <2>2. s[k] = [cs[k] EXCEPT !.arg.tab = 0] =>
            s[k].arg.cookie = cs[k].arg.cookie /\ s[k].st = cs[k].st /\ s[k].res = cs[k].res
    <3> SUFFICES ASSUME s[k] = [cs[k] EXCEPT !.arg.tab = 0]
                 PROVE  s[k].arg.cookie = cs[k].arg.cookie /\ s[k].st = cs[k].st /\ s[k].res = cs[k].res
      OBVIOUS
    <3>1. PICK op \in SessionOps : cs[k] \in TabCalls(op)
      BY <2>1 DEF SessionCalls
    <3> DEFINE arg == [cs[k].arg EXCEPT !.tab = 0]
    <3>2. cs[k].arg \in ArgsOf(op)
      BY <3>1, CallHas DEF TabCalls
    <3>3. arg.cookie = cs[k].arg.cookie
      BY <3>2 DEF ArgsOf
    <3>4. s[k] = [cs[k] EXCEPT !.arg = arg]
      OBVIOUS
    <3> HIDE DEF arg
    <3>5. s[k].arg = arg /\ s[k].st = cs[k].st /\ s[k].res = cs[k].res
      BY <3>1, <3>4 DEF TabCalls, CallsOf, Sent, Served
    <3> QED
      BY <3>3, <3>5
  <2> QED
    BY <1>4, <2>1, <2>2 DEF Unmade
<1>5. NoneOf(Unmade(m), s)
  BY <1>3, <1>4 DEF NoneOf
<1> QED
  BY <1>5 DEF s

\* A call of a tab that has everything made is added.
LEMMA SendMade ==
    ASSUME NEW m \in Nat, NEW cs \in Seq(SessionCalls), NoneOf(Unmade(m), cs),
           NEW u, Made(u, m), NEW t, NEW op, NEW who
    PROVE  NoneOf(Unmade(m), Append(cs, Session!CallOf(u, t, op, who)))
<1> DEFINE c == Session!CallOf(u, t, op, who)
<1>1. c \notin Unmade(m)
  BY CallMade
<1> HIDE DEF c
<1>2. NoneOf(Unmade(m), Append(cs, c))
  BY <1>1, AppendOf
<1> QED
  BY <1>2 DEF c

LEMMA GoesOnMade ==
    ASSUME SessionTypes, NEW t \in BrowserTabs, NEW i \in DOMAIN calls, NEW s \in TabStates, TabMade(s, db.made),
           NEW u, SessionUi(u), Made(u, db.made), ui' = Session!PutTab(u, t, s),
           calls' = Append(Session!Else(i, t), Session!CallOf(Session!PutTab(u, t, s), t, "me", Blank))
    PROVE  Made(ui', db.made) /\ NoneOf(Unmade(db.made), calls')
<1> DEFINE v == Session!PutTab(u, t, s)
           m == db.made
           w == Without(calls, i)
<1>1. calls \in Seq(SessionCalls) /\ m \in Nat /\ NoneOf(Unmade(m), calls)
  BY DEF SessionTypes, SessionInv, SessionDb
<1>2. Session!Else(i, t) = Session!Forgotten(w, t)
  BY Zenon DEF Session!Else, Session!Rest, Session!Without, Without
<1>3. ui' = v /\ calls' = Append(Session!Forgotten(w, t), Session!CallOf(v, t, "me", Blank))
  BY <1>2
<1> HIDE DEF m
<1>4. w \in Seq(SessionCalls) /\ NoneOf(Unmade(m), w)
  BY <1>1, WithoutOne, RestOf
<1>5. Made(v, m)
  BY <1>1, MadePut DEF m
<1> HIDE DEF v, w
<1>6. Session!Forgotten(w, t) \in Seq(SessionCalls) /\ NoneOf(Unmade(m), Session!Forgotten(w, t))
  BY <1>1, <1>4, ForgottenOf, ForgottenMade
<1> QED
  BY <1>1, <1>3, <1>5, <1>6, SendMade DEF m

LEMMA RestsMade ==
    ASSUME SessionTypes, NEW t \in BrowserTabs, NEW i \in DOMAIN calls, NEW s \in TabStates, TabMade(s, db.made),
           ui' = Session!PutTab(ui, t, s), calls' = Without(calls, i)
    PROVE  Made(ui', db.made) /\ NoneOf(Unmade(db.made), calls')
<1>1. /\ calls \in Seq(SessionCalls) /\ db.made \in Nat /\ SessionUi(ui) /\ Made(ui, db.made)
      /\ NoneOf(Unmade(db.made), calls)
  BY DEF SessionTypes, SessionInv, SessionDb
<1>2. Made(Session!PutTab(ui, t, s), db.made)
  BY <1>1, MadePut
<1> QED
  BY <1>1, <1>2, RestOf

\* What the tab that is handed an answer is known to be.
LEMMA HandedMade ==
    ASSUME SessionTypes, NEW i, NEW t, NEW a, Handed(i, t, a)
    PROVE  /\ SessionUi(ui) /\ Made(ui, db.made) /\ ui.tab[t] \in TabStates /\ TabMade(ui.tab[t], db.made)
           /\ db.made \in Nat /\ t \in BrowserTabs /\ i \in DOMAIN calls
BY DEF SessionTypes, SessionInv, SessionDb, Made, Handed

LEMMA BounceMade ==
    ASSUME SessionTypes, NEW i, NEW t, NEW a, Handed(i, t, a), Session!Show(Session!Bounce(i, t))
    PROVE  Made(ui', db.made) /\ NoneOf(Unmade(db.made), calls')
<1> DEFINE s == Session!Document("checking", FALSE)
<1>1. s \in TabStates /\ s.csrf = 0 /\ s.signed = 0 /\ s.user = 0
  BY DEF Session!Document, Session!NoSession, Session!NoChallenge, TabStates
<1>2. /\ ui' = Session!PutTab(ui, t, s)
      /\ calls' = Append(Session!Else(i, t), Session!CallOf(Session!PutTab(ui, t, s), t, "me", Blank))
  <2>1. Session!Bounce(i, t) =
            [u |-> Session!PutTab(ui, t, s),
             cs |-> Append(Session!Else(i, t), Session!CallOf(Session!PutTab(ui, t, s), t, "me", Blank))]
    BY Zenon DEF Session!Bounce, Blank
  <2>2. ui' = Session!Bounce(i, t).u /\ calls' = Session!Bounce(i, t).cs
    BY Zenon DEF Session!Show
  <2> HIDE DEF s
  <2> QED
    BY <2>1, <2>2
<1> HIDE DEF s
<1>3. TabMade(s, db.made)
  BY <1>1, HandedMade DEF TabMade
<1> QED
  BY <1>1, <1>2, <1>3, HandedMade, GoesOnMade

LEMMA HomeMade ==
    ASSUME SessionTypes, NEW i, NEW t, NEW a, Handed(i, t, a), NEW u, SessionUi(u), Made(u, db.made),
           Session!Show(Session!Home(u, i, t))
    PROVE  Made(ui', db.made) /\ NoneOf(Unmade(db.made), calls')
<1> DEFINE s == [u.tab[t] EXCEPT !.at = "console", !.user = Session!NoSession, !.busy = FALSE,
                                 !.challenge = Session!NoChallenge, !.mfa = FALSE, !.error = FALSE]
<1>1. u.tab[t] \in TabStates /\ TabMade(u.tab[t], db.made)
  BY DEF SessionUi, Handed, Made
<1>2. s \in TabStates /\ s.signed = u.tab[t].signed /\ s.csrf = u.tab[t].csrf /\ s.user = 0
  BY <1>1 DEF Session!NoSession, Session!NoChallenge, TabStates
<1>3. /\ ui' = Session!PutTab(u, t, s)
      /\ calls' = Append(Session!Else(i, t), Session!CallOf(Session!PutTab(u, t, s), t, "me", Blank))
  <2>1. Session!Home(u, i, t) =
            [u |-> Session!PutTab(u, t, s),
             cs |-> Append(Session!Else(i, t), Session!CallOf(Session!PutTab(u, t, s), t, "me", Blank))]
    BY Zenon DEF Session!Home, Blank
  <2> QED
    BY <2>1 DEF Session!Show
<1> HIDE DEF s
<1>4. TabMade(s, db.made)
  BY <1>1, <1>2, HandedMade DEF TabMade
<1> QED
  BY <1>2, <1>3, <1>4, HandedMade, GoesOnMade

LEMMA ToLoginMade ==
    ASSUME SessionTypes, NEW i, NEW t, NEW a, Handed(i, t, a), NEW u, SessionUi(u), Made(u, db.made),
           Session!Show(Session!ToLogin(u, i, t))
    PROVE  Made(ui', db.made) /\ NoneOf(Unmade(db.made), calls')
<1> DEFINE s == [u.tab[t] EXCEPT !.at = "checking", !.busy = FALSE]
<1>1. u.tab[t] \in TabStates /\ TabMade(u.tab[t], db.made)
  BY DEF SessionUi, Handed, Made
<1>2. s \in TabStates /\ s.signed = u.tab[t].signed /\ s.csrf = u.tab[t].csrf /\ s.user = u.tab[t].user
  BY <1>1 DEF TabStates
<1>3. /\ ui' = Session!PutTab(u, t, s)
      /\ calls' = Append(Session!Else(i, t), Session!CallOf(Session!PutTab(u, t, s), t, "me", Blank))
  <2>1. Session!ToLogin(u, i, t) =
            [u |-> Session!PutTab(u, t, s),
             cs |-> Append(Session!Else(i, t), Session!CallOf(Session!PutTab(u, t, s), t, "me", Blank))]
    BY Zenon DEF Session!ToLogin, Blank
  <2> QED
    BY <2>1 DEF Session!Show
<1> HIDE DEF s
<1>4. TabMade(s, db.made)
  BY <1>1, <1>2 DEF TabMade
<1> QED
  BY <1>2, <1>3, <1>4, HandedMade, GoesOnMade

LEMMA CheckMade ==
    ASSUME SessionTypes, NEW i, NEW t, NEW a, Handed(i, t, a), Session!DeliverCheck(i, t, a)
    PROVE  Made(ui', db.made) /\ NoneOf(Unmade(db.made), calls')
<1> DEFINE s == [ui.tab[t] EXCEPT !.at = "login"]
<1>1. CASE Session!Show(Session!Home(ui, i, t))
  BY <1>1, HandedMade, HomeMade
<1>2. CASE ui' = Session!PutTab(ui, t, s) /\ calls' = Without(calls, i)
  <2>1. ui.tab[t] \in TabStates /\ TabMade(ui.tab[t], db.made)
    BY HandedMade
  <2>2. s \in TabStates /\ TabMade(s, db.made)
    BY <2>1 DEF TabStates, TabMade
  <2> HIDE DEF s
  <2> QED
    BY <1>2, <2>2, HandedMade, RestsMade
<1>3. \/ Session!Show(Session!Home(ui, i, t))
      \/ ui' = Session!PutTab(ui, t, s) /\ calls' = Without(calls, i)
  BY DEF Session!DeliverCheck, Session!Show, Session!Rest, Session!Without, Without
<1> QED
  BY <1>1, <1>2, <1>3

\* An answer with a session is of one that was made.
Brought(a, m) == a.ok = TRUE /\ "session" \in DOMAIN a.data => a.data.session <= m

LEMMA MeMade ==
    ASSUME SessionTypes, NEW i, NEW t, NEW a, Handed(i, t, a), Brought(a, db.made), calls[i].op = "me",
           Session!DeliverMe(i, t, a)
    PROVE  Made(ui', db.made) /\ NoneOf(Unmade(db.made), calls')
<1> DEFINE who == IF a.ok THEN a.data.session ELSE Session!NoSession
           s == [ui.tab[t] EXCEPT !.user = who]
<1>1. CASE Session!Show(Session!Bounce(i, t))
  BY <1>1, BounceMade
<1>2. CASE ui' = Session!PutTab(ui, t, s) /\ calls' = Without(calls, i)
  <2>1. a.ok = TRUE => a.data \in Given
    BY AnswerHas DEF Handed, DataOf
  <2>2. a.ok \in BOOLEAN
    BY AnswerHas DEF Handed
  <2>3. a.ok = TRUE => who \in Nat /\ who <= db.made
    BY <2>1 DEF Given, Brought
  <2>4. a.ok = FALSE => who = 0
    BY DEF Session!NoSession
  <2>5. db.made \in Nat /\ ui.tab[t] \in TabStates /\ TabMade(ui.tab[t], db.made)
    BY HandedMade
  <2> HIDE DEF who
  <2>6. who \in Nat /\ who <= db.made
    BY <2>2, <2>3, <2>4, <2>5
  <2>7. s \in TabStates /\ TabMade(s, db.made)
    BY <2>5, <2>6 DEF TabStates, TabMade
  <2> HIDE DEF s
  <2> QED
    BY <1>2, <2>7, HandedMade, RestsMade
<1>3. \/ Session!Show(Session!Bounce(i, t))
      \/ ui' = Session!PutTab(ui, t, s) /\ calls' = Without(calls, i)
  BY DEF Session!DeliverMe, Session!Show, Session!Rest, Session!Without, Without
<1> QED
  BY <1>1, <1>2, <1>3

LEMMA MutationMade ==
    ASSUME SessionTypes, NEW i, NEW t, NEW a, Handed(i, t, a), Session!DeliverMutation(i, t, a)
    PROVE  Made(ui', db.made) /\ NoneOf(Unmade(db.made), calls')
<1> DEFINE failed == ~a.ok
           s == [ui.tab[t] EXCEPT !.error = failed, !.busy = FALSE]
<1>1. CASE Session!Show(Session!Bounce(i, t))
  BY <1>1, BounceMade
<1>2. CASE ui' = Session!PutTab(ui, t, s) /\ calls' = Without(calls, i)
  <2>1. failed \in BOOLEAN
    OBVIOUS
  <2>2. ui.tab[t] \in TabStates /\ TabMade(ui.tab[t], db.made)
    BY HandedMade
  <2> HIDE DEF failed
  <2>3. s \in TabStates /\ TabMade(s, db.made)
    BY <2>1, <2>2 DEF TabStates, TabMade
  <2> HIDE DEF s
  <2> QED
    BY <1>2, <2>3, HandedMade, RestsMade
<1>3. \/ Session!Show(Session!Bounce(i, t))
      \/ ui' = Session!PutTab(ui, t, s) /\ calls' = Without(calls, i)
  BY DEF Session!DeliverMutation, Session!Show, Session!Rest, Session!Without, Without
<1> QED
  BY <1>1, <1>2, <1>3

LEMMA LogoutMade ==
    ASSUME SessionTypes, NEW i, NEW t, NEW a, Handed(i, t, a), Session!DeliverLogout(i, t, a)
    PROVE  Made(ui', db.made) /\ NoneOf(Unmade(db.made), calls')
<1>1. CASE Session!Show(Session!Bounce(i, t))
  BY <1>1, BounceMade
<1>2. CASE Session!Show(Session!ToLogin(ui, i, t))
  BY <1>2, HandedMade, ToLoginMade
<1> DEFINE u == [ui EXCEPT !.cookie = Session!NoSession, !.mfa = {}]
<1>3. CASE Session!Show(Session!ToLogin(u, i, t))
  <2>1. SessionUi(ui) /\ Made(ui, db.made) /\ db.made \in Nat
    BY HandedMade
  <2>2. SessionUi(u) /\ u.tab = ui.tab /\ u.cookie = 0
    BY <2>1 DEF SessionUi, SessionFields, Session!NoSession
  <2> HIDE DEF u
  <2>3. Made(u, db.made)
    BY <2>1, <2>2 DEF Made
  <2> QED
    BY <1>3, <2>2, <2>3, ToLoginMade
<1>4. \/ Session!Show(Session!Bounce(i, t))
      \/ Session!Show(Session!ToLogin(ui, i, t))
      \/ Session!Show(Session!ToLogin(u, i, t))
  BY DEF Session!DeliverLogout
<1> QED
  BY <1>1, <1>2, <1>3, <1>4

LEMMA SignInMade ==
    ASSUME SessionTypes, NEW i, NEW t, NEW a, Handed(i, t, a), Brought(a, db.made),
           calls[i].op \in {"login", "verify"}, Session!DeliverSignIn(i, t, a)
    PROVE  Made(ui', db.made) /\ NoneOf(Unmade(db.made), calls')
<1>1. /\ SessionUi(ui) /\ ui.tab[t] \in TabStates /\ Made(ui, db.made) /\ TabMade(ui.tab[t], db.made)
      /\ db.made \in Nat /\ t \in BrowserTabs /\ i \in DOMAIN calls
  BY HandedMade
<1>2. a.ok = TRUE => a.data \in Granted
  BY AnswerHas DEF Handed, DataOf
<1>3. a.ok \in BOOLEAN
  BY AnswerHas DEF Handed
<1> DEFINE s1 == [ui.tab[t] EXCEPT !.error = TRUE, !.busy = FALSE]
           s3 == [ui.tab[t] EXCEPT !.challenge = a.data.challenge, !.busy = FALSE,
                                   !.csrf = Session!NoSession, !.signed = Session!NoSession]
           u2 == Session!SignedIn(t, a.data.session)
<1>4. CASE ui' = Session!PutTab(ui, t, s1) /\ calls' = Without(calls, i)
  <2>1. s1 \in TabStates /\ TabMade(s1, db.made)
    BY <1>1 DEF TabStates, TabMade
  <2> HIDE DEF s1
  <2> QED
    BY <1>1, <1>4, <2>1, RestsMade
<1>5. CASE a.ok = TRUE /\ "session" \in DOMAIN a.data /\ Session!Show(Session!Home(u2, i, t))
  <2> DEFINE n == a.data.session
  <2>1. n \in Nat /\ n <= db.made
    BY <1>2, <1>5 DEF Given, Granted, Brought
  <2> HIDE DEF n
  <2> DEFINE s2 == [ui.tab[t] EXCEPT !.csrf = n, !.signed = n]
             v == Session!SignedIn(t, n)
  <2>2. s2 \in TabStates /\ TabMade(s2, db.made)
    BY <1>1, <2>1 DEF TabStates, TabMade
  <2>3. /\ DOMAIN v = SessionFields /\ v.cookie = n /\ v.mfa = {}
        /\ v.tab = [ui.tab EXCEPT ![t] = s2]
    BY <1>1 DEF Session!SignedIn, SessionUi, SessionFields
  <2>4. u2 = v
    BY DEF n
  <2> HIDE DEF s2, v, u2
  <2>5. SessionUi(v) /\ v.tab[t] = s2 /\ \A x \in BrowserTabs \ {t} : v.tab[x] = ui.tab[x]
    BY <1>1, <2>1, <2>2, <2>3 DEF SessionUi
  <2>6. Made(v, db.made)
    BY <1>1, <2>1, <2>2, <2>3, <2>5 DEF Made
  <2> QED
    BY <1>5, <2>4, <2>5, <2>6, HomeMade
<1>6. CASE /\ a.ok = TRUE /\ "session" \notin DOMAIN a.data
           /\ ui' = Session!PutTab(ui, t, s3) /\ calls' = Without(calls, i)
  <2> DEFINE ch == a.data.challenge
  <2>1. ch \in TwoFactor
    BY <1>2, <1>6 DEF Given, Granted
  <2> HIDE DEF ch
  <2> DEFINE s == [ui.tab[t] EXCEPT !.challenge = ch, !.busy = FALSE,
                                    !.csrf = Session!NoSession, !.signed = Session!NoSession]
  <2>2. s \in TabStates /\ s.signed = 0 /\ s.csrf = 0 /\ s.user = ui.tab[t].user
    BY <1>1, <2>1 DEF TabStates, Session!NoSession
  <2>3. s3 = s
    BY DEF ch
  <2> HIDE DEF s, s3
  <2>4. TabMade(s, db.made)
    BY <1>1, <2>2 DEF TabMade
  <2> QED
    BY <1>1, <1>6, <2>2, <2>3, <2>4, RestsMade
<1>7. \/ ui' = Session!PutTab(ui, t, s1) /\ calls' = Without(calls, i)
      \/ a.ok = TRUE /\ "session" \in DOMAIN a.data /\ Session!Show(Session!Home(u2, i, t))
      \/ /\ a.ok = TRUE /\ "session" \notin DOMAIN a.data
         /\ ui' = Session!PutTab(ui, t, s3) /\ calls' = Without(calls, i)
  BY <1>3 DEF Session!DeliverSignIn, Session!Show, Session!Rest, Session!Without, Without
<1> QED
  BY <1>4, <1>5, <1>6, <1>7

LEMMA CsrfMade ==
    ASSUME SessionTypes, NEW i, NEW t, NEW a, Handed(i, t, a), Brought(a, db.made), Session!DeliverCsrf(i, t, a)
    PROVE  Made(ui', db.made) /\ NoneOf(Unmade(db.made), calls')
<1> DEFINE who == calls[i].arg.who
           v == IF a.ok THEN [ui EXCEPT !.tab[t].csrf = a.data.session] ELSE ui
<1>1. /\ SessionUi(ui) /\ ui.tab[t] \in TabStates /\ Made(ui, db.made) /\ TabMade(ui.tab[t], db.made)
      /\ db.made \in Nat /\ t \in BrowserTabs /\ i \in DOMAIN calls
      /\ calls \in Seq(SessionCalls) /\ NoneOf(Unmade(db.made), calls)
  BY HandedMade DEF SessionTypes, SessionInv
<1>2. calls[i].op = "csrf"
  BY Zenon DEF Session!DeliverCsrf
<1>3. a.ok \in BOOLEAN /\ (a.ok = TRUE => a.data.session \in Nat /\ a.data.session <= db.made)
  <2>1. a.ok = TRUE => a.data \in Given
    BY <1>2, AnswerHas DEF Handed, DataOf
  <2> QED
    BY <2>1, AnswerHas DEF Given, Handed, Brought
<1>4. Made(v, db.made)
  <2>1. CASE a.ok = TRUE
    <3> DEFINE n == a.data.session
    <3>1. n \in Nat /\ n <= db.made
      BY <1>3, <2>1
    <3>2. v = [ui EXCEPT !.tab[t].csrf = n]
      BY <2>1
    <3> HIDE DEF n, v
    <3> DEFINE s == [ui.tab[t] EXCEPT !.csrf = n]
    <3>3. v.tab = [ui.tab EXCEPT ![t] = s] /\ v.cookie = ui.cookie
      BY <1>1, <3>2 DEF SessionUi, SessionFields
    <3>4. TabMade(s, db.made)
      BY <1>1, <3>1 DEF TabStates, TabMade
    <3> HIDE DEF s
    <3>5. v.tab[t] = s /\ \A x \in BrowserTabs \ {t} : v.tab[x] = ui.tab[x]
      BY <1>1, <3>3 DEF SessionUi
    <3> QED
      BY <1>1, <3>3, <3>4, <3>5 DEF Made
  <2>2. CASE a.ok = FALSE
    BY <1>1, <2>2
  <2> QED
    BY <1>3, <2>1, <2>2
<1>5. ui' = v /\ calls' = Append(Without(calls, i), Session!CallOf(v, t, who, Blank))
  <2>1. ui' = v /\ calls' = Append(Session!Rest(i), Session!CallOf(v, t, who, Blank))
    BY Zenon DEF Session!DeliverCsrf, Session!Show, Session!Then, Blank
  <2> QED
    BY <2>1, Zenon DEF Session!Rest, Session!Without, Without
<1>6. Without(calls, i) \in Seq(SessionCalls) /\ NoneOf(Unmade(db.made), Without(calls, i))
  BY <1>1, WithoutOne, RestOf
<1> HIDE DEF v, who
<1> QED
  BY <1>1, <1>4, <1>5, <1>6, SendMade

LEMMA DeliverMade ==
    ASSUME SessionTypes, NEW i \in DOMAIN calls, Session!Deliver(i)
    PROVE  Made(ui', db.made) /\ NoneOf(Unmade(db.made), calls') /\ db' = db
<1> DEFINE t == calls[i].arg.tab
<1>1. /\ calls \in Seq(SessionCalls) /\ SessionUi(ui) /\ calls[i] \in SessionCalls /\ db' = db /\ db \in SessionDb
      /\ Made(ui, db.made) /\ NoneOf(Unmade(db.made), calls)
  BY DEF SessionTypes, SessionInv, Session!Deliver
<1>2. t \in BrowserTabs \cup {0}
  BY <1>1, SessionKinds
<1>3. CASE t = 0
  <2>1. ui' = ui /\ calls' = Without(calls, i)
    BY <1>3 DEF Session!Deliver, Session!DeliverToNobody, Session!Show, Session!NoTab, Session!Rest,
                Session!Without, Without
  <2> QED
    BY <1>1, <2>1, RestOf
<1>4. CASE t # 0
  <2>1. t \in BrowserTabs
    BY <1>2, <1>4
  <2>2. PICK a \in Session!Answers(i) :
            \/ Session!DeliverCheck(i, t, a) \/ Session!DeliverMe(i, t, a) \/ Session!DeliverSignIn(i, t, a)
            \/ Session!DeliverCsrf(i, t, a) \/ Session!DeliverMutation(i, t, a) \/ Session!DeliverLogout(i, t, a)
    BY <1>4 DEF Session!Deliver, Session!NoTab
  <2>3. a \in Answered(DataOf(calls[i].op)) /\ Brought(a, db.made)
    <3>1. "network" \in Codes
      BY DEF Codes
    <3>2. Session!NetworkError \in Answered(DataOf(calls[i].op)) /\ Session!NetworkError.ok = FALSE
      BY <3>1, AnswerIs DEF Session!NetworkError, Session!Refused
    <3>3. a = Session!NetworkError \/ (calls[i].st = "served" /\ a = calls[i].res)
      BY <2>2 DEF Session!Answers
    <3>4. CASE a = Session!NetworkError
      BY <3>2, <3>4 DEF Brought
    <3>5. CASE calls[i].st = "served" /\ a = calls[i].res
      <4>1. calls[i] \notin Unmade(db.made)
        BY <1>1 DEF NoneOf
      <4>2. Brought(a, db.made)
        BY <1>1, <3>5, <4>1 DEF Unmade, Brought
      <4> QED
        BY <1>1, <3>5, <4>2, SessionKinds
    <3> QED
      BY <3>3, <3>4, <3>5
  <2>4. Handed(i, t, a)
    BY <1>1, <2>1, <2>3 DEF Handed, Toward, SessionUi
  <2> HIDE DEF t
  <2>5. Session!DeliverMe(i, t, a) => calls[i].op = "me"
    BY DEF Session!DeliverMe
  <2>6. Session!DeliverSignIn(i, t, a) => calls[i].op \in {"login", "verify"}
    BY DEF Session!DeliverSignIn
  <2>7. Made(ui', db.made) /\ NoneOf(Unmade(db.made), calls')
    BY <2>2, <2>3, <2>4, <2>5, <2>6, CheckMade, MeMade, SignInMade, CsrfMade, MutationMade, LogoutMade
  <2> QED
    BY <1>1, <2>7
<1> QED
  BY <1>3, <1>4

LEMMA AnsweredMade ==
    ASSUME NEW m \in Nat, SessionInv, NEW i \in DOMAIN calls, NEW res \in Answered(DataOf(calls[i].op)),
           Brought(res, m), NoneOf(Unmade(m), calls), calls' = Session!Served(i, res)
    PROVE  NoneOf(Unmade(m), calls')
<1> DEFINE c == [calls[i] EXCEPT !.st = "served", !.res = res]
<1>1. calls \in Seq(SessionCalls) /\ calls[i] \in SessionCalls
  BY DEF SessionInv
<1>2. c \in SessionCalls
  BY <1>1, SessionKinds
<1>3. c.arg = calls[i].arg /\ c.res = res
  BY <1>1 DEF SessionCalls, TabCalls, CallsOf, Sent, Served
<1>4. calls' = Answer(calls, i, res)
  BY Zenon DEF Session!Served, Answer
<1>5. (c \in Unmade(m) => calls[i] \in Unmade(m)) => (NoneOf(Unmade(m), calls) => NoneOf(Unmade(m), Answer(calls, i, res)))
  BY <1>1, <1>2, AnswerOf
<1> HIDE DEF c
<1>6. c \notin Unmade(m)
  <2>1. calls[i] \notin Unmade(m)
    BY <1>1 DEF NoneOf
  <2>2. calls[i].arg.cookie <= m
    BY <1>1, <2>1 DEF Unmade
  <2> QED
    BY <1>3, <2>2 DEF Unmade, Brought
<1> QED
  BY <1>4, <1>5, <1>6

LEMMA ServeMade ==
    ASSUME SessionTypes, NEW i \in DOMAIN calls, Session!Serve(i)
    PROVE  Made(ui', db'.made) /\ db'.live \subseteq 1 .. db'.made /\ NoneOf(Unmade(db'.made), calls')
<1> DEFINE c == calls[i]
           m == db.made
<1>1. /\ ui' = ui /\ db \in SessionDb /\ c \in SessionCalls /\ SessionUi(ui) /\ Made(ui, m) /\ SessionInv
      /\ m \in Nat /\ db.live \subseteq 1 .. m /\ NoneOf(Unmade(m), calls)
  BY DEF SessionTypes, SessionInv, SessionDb, Session!Serve
<1>2. c.op \in SessionOps /\ c.arg \in ArgsOf(c.op) /\ c \notin Unmade(m)
  BY <1>1, SessionKinds DEF NoneOf
<1>3. c.arg.cookie \in Nat /\ c.arg.cookie <= m
  BY <1>1, <1>2 DEF ArgsOf, Unmade
<1>4. \A op : /\ \A code \in Codes : Session!Refused(code) \in Answered(DataOf(op)) /\ Session!Refused(code).ok = FALSE
              /\ \A s \in Nat : /\ Session!Ok([session |-> s]) \in Answered(DataOf(op))
                                /\ Session!Ok([session |-> s]).data.session = s
  <2>1. \A op : \A s \in Nat : [session |-> s] \in DataOf(op)
    BY DEF DataOf, Given, Granted
  <2>2. \A s : Session!Ok([session |-> s]).data.session = s
    BY DEF Session!Ok
  <2>3. \A op : \A s \in Nat : Session!Ok([session |-> s]) \in Answered(DataOf(op))
    BY <2>1, AnswerIs DEF Session!Ok
  <2>4. \A op : \A code \in Codes : Session!Refused(code) \in Answered(DataOf(op)) /\ Session!Refused(code).ok = FALSE
    BY AnswerIs DEF Session!Refused
  <2> QED
    BY <2>2, <2>3, <2>4
<1>5. "invalid" \in Codes /\ "unavailable" \in Codes /\ "401" \in Codes /\ "csrf_invalid" \in Codes
  BY DEF Codes
<1> HIDE DEF c
\* The answer brings no session or one that is made, and the sessions are as they were.
<1>6. ASSUME NEW res \in Answered(DataOf(c.op)), calls' = Session!Served(i, res), Brought(res, m),
             db'.made = m, db'.live \subseteq db.live
      PROVE  Made(ui', db'.made) /\ db'.live \subseteq 1 .. db'.made /\ NoneOf(Unmade(db'.made), calls')
  <2>1. NoneOf(Unmade(m), calls')
    BY <1>1, <1>6, AnsweredMade DEF c
  <2> HIDE DEF m
  <2> QED
    BY <1>1, <1>6, <2>1
<1>7. ASSUME NEW open, Session!Grant(i, open)
      PROVE  Made(ui', db'.made) /\ db'.live \subseteq 1 .. db'.made /\ NoneOf(Unmade(db'.made), calls')
  <2> DEFINE n == m + 1
  <2>1. calls' = Session!Served(i, Session!Ok([session |-> n])) /\ db'.made = n /\ db'.live = db.live \cup {n}
    BY <1>7 DEF Session!Grant, Session!NewSession
  <2>2. n \in Nat /\ n <= n /\ db.live \cup {n} \subseteq 1 .. n
    BY <1>1
  <2>3. Made(ui, n) /\ Unmade(n) \subseteq Unmade(m)
    BY <1>1, MadeGrows, UnmadeGrows
  <2> HIDE DEF n
  <2>4. NoneOf(Unmade(n), calls)
    BY <1>1, <2>3 DEF NoneOf
  <2>5. Session!Ok([session |-> n]) \in Answered(DataOf(c.op)) /\ Brought(Session!Ok([session |-> n]), n)
    BY <1>4, <2>2 DEF Brought
  <2>6. NoneOf(Unmade(n), calls')
    BY <1>1, <2>1, <2>2, <2>4, <2>5, AnsweredMade DEF c
  <2> HIDE DEF m
  <2> QED
    BY <1>1, <2>1, <2>2, <2>3, <2>6
<1>8. \A code \in Codes : Brought(Session!Refused(code), m)
  BY <1>4 DEF Brought
<1>9. Brought(Session!Ok([session |-> c.arg.cookie]), m)
  BY <1>3, <1>4 DEF Brought
<1>10. ASSUME NEW open, NEW code \in Codes, Session!Refuse(i, code, open)
       PROVE  Made(ui', db'.made) /\ db'.live \subseteq 1 .. db'.made /\ NoneOf(Unmade(db'.made), calls')
  <2>1. calls' = Session!Served(i, Session!Refused(code)) /\ db'.made = m /\ db'.live = db.live
    BY <1>1, <1>10 DEF Session!Refuse, SessionDb
  <2> QED
    BY <1>4, <1>6, <1>8, <2>1
<1>11. CASE Session!ServeLogin(i)
  <2>1. c.op = "login"
    BY <1>11 DEF Session!ServeLogin, c
  <2>2. CASE Session!Grant(i, db.open) \/ Session!Refuse(i, "invalid", db.open)
    BY <1>5, <1>7, <1>10, <2>2
  <2>3. CASE /\ c.arg.who \in TwoFactor /\ calls' = Session!Served(i, Session!Ok([challenge |-> c.arg.who]))
             /\ db' = [db EXCEPT !.open = @ \cup {c.arg.who}]
    <3>1. db'.made = m /\ db'.live = db.live
      BY <1>1, <2>3 DEF SessionDb
    <3>2. [challenge |-> c.arg.who] \in DataOf("login")
      BY <2>3 DEF DataOf, Granted
    <3>3. Session!Ok([challenge |-> c.arg.who]) \in Answered(DataOf(c.op))
      BY <2>1, <3>2, AnswerIs DEF Session!Ok
    <3>4. Brought(Session!Ok([challenge |-> c.arg.who]), m)
      BY DEF Session!Ok, Brought
    <3> QED
      BY <1>6, <2>3, <3>1, <3>3, <3>4
  <2> QED
    BY <1>11, <2>2, <2>3 DEF Session!ServeLogin, c
<1>12. CASE Session!ServeVerify(i)
  BY <1>5, <1>7, <1>10, <1>12 DEF Session!ServeVerify
<1>13. CASE Session!ServeRead(i)
  <2>1. db' = db
    BY <1>13 DEF Session!ServeRead
  <2>2. \/ calls' = Session!Served(i, Session!Refused("unavailable"))
        \/ calls' = Session!Served(i, Session!Refused("401"))
        \/ calls' = Session!Served(i, Session!Ok([session |-> c.arg.cookie]))
    BY <1>13 DEF Session!ServeRead, c
  <2>3. PICK res \in Answered(DataOf(c.op)) : calls' = Session!Served(i, res) /\ Brought(res, m)
    BY <1>3, <1>4, <1>5, <1>8, <1>9, <2>2
  <2> QED
    BY <1>6, <2>1, <2>3
<1>14. CASE Session!ServeMutation(i)
  <2>1. CASE Session!Allowed(c)
    <3>1. calls' = Session!Served(i, Session!Ok([session |-> c.arg.cookie]))
      BY <1>14, <2>1 DEF Session!ServeMutation, c
    <3>2. db' = [db EXCEPT !.live = @ \ {c.arg.cookie}] \/ db' = db
      BY <1>14, <2>1 DEF Session!ServeMutation, c
    <3>3. db'.made = m /\ db'.live \subseteq db.live
      BY <1>1, <3>2 DEF SessionDb
    <3> QED
      BY <1>3, <1>4, <1>6, <1>9, <3>1, <3>3
  <2>2. CASE ~Session!Allowed(c)
    <3>1. /\ db' = db
          /\ \/ calls' = Session!Served(i, Session!Refused("csrf_invalid"))
             \/ calls' = Session!Served(i, Session!Refused("401"))
      BY <1>14, <2>2 DEF Session!ServeMutation, c
    <3>2. PICK res \in Answered(DataOf(c.op)) : calls' = Session!Served(i, res) /\ Brought(res, m)
      BY <1>4, <1>5, <1>8, <3>1
    <3> QED
      BY <1>6, <3>1, <3>2
  <2> QED
    BY <2>1, <2>2
<1> QED
  BY <1>11, <1>12, <1>13, <1>14 DEF Session!Serve


LEMMA ClickMade ==
    ASSUME SessionTypes, Session!Click
    PROVE  Made(ui', db.made) /\ NoneOf(Unmade(db.made), calls') /\ db' = db
<1> DEFINE m == db.made
<1>1. /\ SessionUi(ui) /\ db' = db /\ calls \in Seq(SessionCalls) /\ m \in Nat /\ Made(ui, m)
      /\ NoneOf(Unmade(m), calls)
  BY DEF SessionTypes, SessionInv, SessionDb, Session!Click
<1>2. PICK t \in BrowserTabs :
          \/ Session!Mutate(t, "mutate") \/ Session!Mutate(t, "logout") \/ Session!Verify(t)
          \/ Session!Restart(t) \/ Session!Reload(t) \/ \E a \in SignIns : Session!Submit(t, a)
  BY DEF Session!Click
<1>3. ui.tab[t] \in TabStates /\ TabMade(ui.tab[t], m)
  BY <1>1 DEF SessionUi, Made
<1> HIDE DEF m
<1> DEFINE s == [ui.tab[t] EXCEPT !.busy = TRUE, !.error = FALSE]
           u == Session!PutTab(ui, t, s)
<1>4. s \in TabStates /\ TabMade(s, m)
  BY <1>3 DEF TabStates, TabMade
<1>5. ASSUME NEW op, NEW who, ui' = u, calls' = Append(calls, Session!CallOf(u, t, op, who))
      PROVE  Made(ui', m) /\ NoneOf(Unmade(m), calls')
  <2> HIDE DEF s
  <2>1. Made(u, m)
    BY <1>1, <1>4, MadePut
  <2> HIDE DEF u
  <2> QED
    BY <1>1, <1>5, <2>1, SendMade
<1>6. ASSUME NEW op, Session!Mutate(t, op) PROVE Made(ui', m) /\ NoneOf(Unmade(m), calls')
  <2>1. \/ ui' = u /\ calls' = Append(calls, Session!CallOf(u, t, "csrf", op))
        \/ ui' = u /\ calls' = Append(calls, Session!CallOf(u, t, op, Blank))
    BY <1>6, Zenon DEF Session!Mutate, Session!Send, Blank
  <2> HIDE DEF s, u
  <2> QED
    BY <1>5, <2>1
<1>7. ASSUME NEW a, Session!Submit(t, a) PROVE Made(ui', m) /\ NoneOf(Unmade(m), calls')
  <2>1. ui' = u /\ calls' = Append(calls, Session!CallOf(u, t, "login", a))
    BY <1>7, Zenon DEF Session!Submit, Session!Send
  <2> HIDE DEF s, u
  <2> QED
    BY <1>5, <2>1
<1>8. ASSUME Session!Verify(t) PROVE Made(ui', m) /\ NoneOf(Unmade(m), calls')
  <2> DEFINE who == Session!Challenged(ui.tab[t])
             w == IF who = {} THEN Blank ELSE CHOOSE a \in who : TRUE
  <2>1. ui' = u /\ calls' = Append(calls, Session!CallOf(u, t, "verify", w))
    BY <1>8, Zenon DEF Session!Verify, Session!Send, Blank
  <2> HIDE DEF s, u, w
  <2> QED
    BY <1>5, <2>1
<1>9. ASSUME Session!Restart(t) PROVE Made(ui', m) /\ NoneOf(Unmade(m), calls')
  <2> DEFINE r == [ui.tab[t] EXCEPT !.challenge = Session!NoChallenge, !.mfa = FALSE, !.error = FALSE]
  <2>1. ui' = Session!PutTab(ui, t, r) /\ calls' = calls
    BY <1>9 DEF Session!Restart, Session!Set
  <2>2. r \in TabStates /\ TabMade(r, m)
    BY <1>3 DEF TabStates, TabMade, Session!NoChallenge
  <2> HIDE DEF r
  <2> QED
    BY <1>1, <2>1, <2>2, MadePut
<1>10. ASSUME Session!Reload(t) PROVE Made(ui', m) /\ NoneOf(Unmade(m), calls')
  <2> DEFINE at == IF ui.tab[t].at = "console" THEN "console" ELSE "checking"
             d == Session!Document(at, FALSE)
             v == Session!PutTab(ui, t, d)
  <2>1. d \in TabStates /\ d.signed = 0 /\ d.csrf = 0 /\ d.user = 0
    BY DEF Session!Document, Session!NoSession, Session!NoChallenge, TabStates
  <2>2. ui' = v /\ calls' = Append(Session!Forgotten(calls, t), Session!CallOf(v, t, "me", Blank))
    BY <1>10, Zenon DEF Session!Reload, Blank
  <2> HIDE DEF d
  <2>3. TabMade(d, m)
    BY <1>1, <2>1 DEF TabMade
  <2>4. Made(v, m)
    BY <1>1, <2>1, <2>3, MadePut
  <2> HIDE DEF v
  <2>5. Session!Forgotten(calls, t) \in Seq(SessionCalls) /\ NoneOf(Unmade(m), Session!Forgotten(calls, t))
    BY <1>1, ForgottenOf, ForgottenMade
  <2> QED
    BY <1>1, <2>2, <2>4, <2>5, SendMade
<1>11. Made(ui', m) /\ NoneOf(Unmade(m), calls')
  BY <1>2, <1>6, <1>7, <1>8, <1>9, <1>10
<1> QED
  BY <1>1, <1>11 DEF m

LEMMA SessionTypesInit == ASSUME Session!Init PROVE SessionTypes
<1>1. SessionInv
  BY SessionInit
<1>2. PICK mfa \in SUBSET TwoFactor :
          /\ db = [made |-> 1, live |-> {1}, open |-> mfa]
          /\ ui = [cookie |-> IF mfa = {} THEN 1 ELSE Session!NoSession, mfa |-> mfa,
                   tab |-> [t \in BrowserTabs |->
                               Session!Document(IF t = 1 THEN "checking" ELSE "console", t = 1 /\ mfa # {})]]
  BY DEF Session!Init
<1>3. calls = [t \in BrowserTabs |-> Session!CallOf(ui, t, "me", Blank)]
  BY Zenon DEF Session!Init, Blank
<1>4. \A at, b : /\ Session!Document(at, b).csrf = 0 /\ Session!Document(at, b).signed = 0
                 /\ Session!Document(at, b).user = 0
  BY DEF Session!Document, Session!NoSession
<1>5. db.made = 1 /\ db.live \subseteq 1 .. 1
  BY <1>2
<1>6. ASSUME NEW t \in BrowserTabs PROVE TabMade(ui.tab[t], 1)
  <2>1. ui.tab[t] = Session!Document(IF t = 1 THEN "checking" ELSE "console", t = 1 /\ mfa # {})
    BY <1>2
  <2>2. ui.tab[t].csrf = 0 /\ ui.tab[t].signed = 0 /\ ui.tab[t].user = 0
    BY <1>4, <2>1
  <2> QED
    BY <2>2 DEF TabMade
<1>7. Made(ui, 1)
  <2>1. ui.cookie <= 1
    BY <1>2 DEF Session!NoSession
  <2> QED
    BY <1>6, <2>1 DEF Made
<1>8. ASSUME NEW t \in BrowserTabs PROVE calls[t] \notin Unmade(1)
  <2>1. calls[t] = Session!CallOf(ui, t, "me", Blank)
    BY <1>3
  <2> QED
    BY <1>7, <2>1, CallMade
<1>9. DOMAIN calls = BrowserTabs
  BY <1>3
<1>10. NoneOf(Unmade(1), calls)
  BY <1>8, <1>9 DEF NoneOf
<1> QED
  BY <1>1, <1>5, <1>7, <1>10 DEF SessionTypes

LEMMA SessionTypesNext == ASSUME SessionTypes, Session!Next \/ Still PROVE SessionTypes'
<1>1. SessionInv'
  BY SessionNext DEF SessionTypes
<1>2. /\ db \in SessionDb /\ db.made \in Nat /\ db.live \subseteq 1 .. db.made
      /\ Made(ui, db.made) /\ NoneOf(Unmade(db.made), calls)
  BY DEF SessionTypes, SessionInv, SessionDb
<1>3. Made(ui', db'.made) /\ db'.live \subseteq 1 .. db'.made /\ NoneOf(Unmade(db'.made), calls')
  <2>1. CASE Session!Click
    BY <1>2, <2>1, ClickMade
  <2>2. ASSUME NEW s \in db.live, Session!Expire(s)
        PROVE  Made(ui', db'.made) /\ db'.live \subseteq 1 .. db'.made /\ NoneOf(Unmade(db'.made), calls')
    <3>1. ui' = ui /\ calls' = calls /\ db' = [db EXCEPT !.live = @ \ {s}]
      BY <2>2 DEF Session!Expire
    <3>2. db'.made = db.made /\ db'.live = db.live \ {s}
      BY <1>2, <3>1 DEF SessionDb
    <3> QED
      BY <1>2, <3>1, <3>2
  <2>3. ASSUME NEW i \in DOMAIN calls, Session!Serve(i) \/ Session!Deliver(i)
        PROVE  Made(ui', db'.made) /\ db'.live \subseteq 1 .. db'.made /\ NoneOf(Unmade(db'.made), calls')
    BY <1>2, <2>3, ServeMade, DeliverMade
  <2>4. CASE Still
    BY <1>2, <2>4 DEF Still
  <2> QED
    BY <2>1, <2>2, <2>3, <2>4 DEF Session!Next
<1> QED
  BY <1>1, <1>3 DEF SessionTypes, Made, TabMade, Unmade, NoneOf

LEMMA SessionTyped == ASSUME SessionTypes PROVE Session!TypeOK
<1>1. /\ SessionUi(ui) /\ db \in SessionDb /\ db.made \in Nat /\ Made(ui, db.made)
      /\ db.live \subseteq 1 .. db.made /\ db.open \subseteq TwoFactor
  BY DEF SessionTypes, SessionInv, SessionDb
<1> DEFINE m == db.made
<1>2. ui.cookie \in 0 .. m
  BY <1>1 DEF SessionUi, Made
<1>3. ASSUME NEW t \in BrowserTabs
      PROVE  /\ ui.tab[t].at \in {"checking", "login", "console"}
             /\ {ui.tab[t].csrf, ui.tab[t].signed, ui.tab[t].user} \subseteq 0 .. m
             /\ ui.tab[t].challenge \in TwoFactor \cup {"none"}
             /\ {ui.tab[t].mfa, ui.tab[t].error, ui.tab[t].busy} \subseteq BOOLEAN
  <2>1. ui.tab[t] \in TabStates /\ TabMade(ui.tab[t], m)
    BY <1>1 DEF SessionUi, Made
  <2>2. ui.tab[t].csrf \in 0 .. m /\ ui.tab[t].signed \in 0 .. m /\ ui.tab[t].user \in 0 .. m
    BY <1>1, <2>1 DEF TabStates, TabMade
  <2>3. /\ ui.tab[t].at \in {"checking", "login", "console"}
        /\ ui.tab[t].challenge \in TwoFactor \cup {"none"}
        /\ {ui.tab[t].mfa, ui.tab[t].error, ui.tab[t].busy} \subseteq BOOLEAN
    BY <2>1 DEF TabStates
  <2> QED
    BY <2>2, <2>3
<1> QED
  BY <1>1, <1>2, <1>3 DEF Session!TypeOK, Session!NoSession, Session!NoChallenge

-----------------------------------------------------------------------------
(* The audit trail: what is shown, and what is on its way, is of entries    *)
(* that there are.                                                          *)
AuditAsked == [filter : AuditKinds \cup {"all"}, page : 0 .. AuditEntries]
AuditRows == [rows : Seq(1 .. AuditEntries), total : 0 .. AuditEntries]
AuditCalls == CallsOf("list", AuditAsked, {Audit!Effect}, Answered(AuditRows))

AuditInv ==
    /\ ui \in Audit!PageState /\ calls \in Seq(AuditCalls)
    /\ db.live \subseteq 1 .. AuditEntries /\ db.next \in 1 .. AuditEntries

\* A list of distinct numbers up to n is no longer than n, nor is a page of it.
LEMMA ListedUpTo ==
    ASSUME NEW n \in Nat, NEW S, S \subseteq 1 .. n
    PROVE  Cardinality(S) \in 0 .. n
<1>1. IsFiniteSet(1 .. n) /\ Cardinality(1 .. n) = n
  BY FS_Interval
<1>2. Cardinality(S) \in Nat /\ Cardinality(S) <= n
  BY <1>1, FS_Subset, FS_CardinalityType
<1> QED
  BY <1>2

LEMMA ListIs ==
    ASSUME NEW n \in Nat, NEW m \in 0 .. n, NEW S, S \subseteq 1 .. n, NEW s \in [1 .. m -> S]
    PROVE  s \in Seq(1 .. n) /\ Len(s) = m
<1>1. s \in Seq(S) /\ Len(s) = m
  <2>1. m \in Nat
    OBVIOUS
  <2> QED
    BY <2>1
<1>2. \A x \in S : x \in 1 .. n
  OBVIOUS
<1> DEFINE T == 1 .. n
<1>3. \A x \in S : x \in T
  BY <1>2
<1> HIDE DEF T
<1>4. m \in Nat
  OBVIOUS
<1>5. s \in [1 .. m -> T]
  BY <1>3
<1>6. s \in Seq(T)
  BY <1>4, <1>5
<1> QED
  BY <1>1, <1>6 DEF T

LEMMA PageOfOne ==
    ASSUME NEW T, NEW s \in Seq(T), NEW p \in Nat
    PROVE  SubSeq(s, p * 1 + 1, IF (p + 1) * 1 < Len(s) THEN (p + 1) * 1 ELSE Len(s)) \in Seq(T)
OBVIOUS

LEMMA AuditServe == ASSUME AuditInv, NEW i \in DOMAIN calls, Audit!Serve(i) PROVE AuditInv'
<1>1. calls \in Seq(AuditCalls) /\ calls[i] \in AuditCalls /\ ui' = ui /\ db' = db
  BY DEF AuditInv, Audit!Serve
<1> DEFINE f == calls[i].arg.filter
           p == calls[i].arg.page
<1>2. p \in 0 .. AuditEntries
  <2>1. calls[i].arg \in AuditAsked
    BY <1>1, CallHas, Zenon DEF AuditCalls
  <2> QED
    BY <2>1 DEF AuditAsked
<1>3. PICK all \in Audit!Matching(f) :
          calls' = Audit!Served(i, Audit!Ok([rows |-> Audit!Slice(all, p), total |-> Len(all)]))
  BY DEF Audit!Serve
<1> DEFINE S == {e \in db.live : f \in {"all", AuditKindOf[e]}}
<1>4. S \subseteq 1 .. AuditEntries
  BY DEF AuditInv
<1>5. Cardinality(S) \in 0 .. AuditEntries
  BY <1>4, ListedUpTo, ListsAssumption
<1>6. all \in [1 .. Cardinality(S) -> S]
  BY <1>3, SameCardinalities DEF Audit!Matching, Audit!Descending, Audit!AllActions
<1> HIDE DEF S
<1>7. all \in Seq(1 .. AuditEntries) /\ Len(all) \in 0 .. AuditEntries
  BY <1>4, <1>5, <1>6, ListIs, ListsAssumption
<1>8. Audit!Slice(all, p) \in Seq(1 .. AuditEntries)
  BY <1>2, <1>7, PageOfOne, ListsAssumption DEF Audit!Slice
<1> DEFINE data == [rows |-> Audit!Slice(all, p), total |-> Len(all)]
<1>9. data \in AuditRows
  BY <1>7, <1>8 DEF AuditRows
<1> HIDE DEF data
<1>10. Audit!Ok(data) \in Answered(AuditRows)
  BY <1>9, AnswerIs DEF Audit!Ok
<1>11. calls' = Answer(calls, i, Audit!Ok(data))
  BY <1>3, Zenon DEF Audit!Served, Answer, data
<1>12. calls' \in Seq(AuditCalls)
  BY <1>1, <1>10, <1>11, ServeKeeps DEF AuditCalls
<1> QED
  BY <1>1, <1>12 DEF AuditInv

LEMMA AuditSent ==
    ASSUME NEW u \in Audit!PageState
    PROVE  Audit!Call("list", Audit!Asked(u), Audit!Effect) \in AuditCalls
<1>1. Audit!Asked(u) \in AuditAsked
  BY DEF Audit!Asked, AuditAsked, Audit!PageState, Audit!AllActions
<1> QED
  BY <1>1, CallSent DEF Audit!Call, Audit!Refused, AuditCalls

LEMMA AuditInit == ASSUME Audit!Init PROVE AuditInv
<1>1. Audit!Mounted \in Audit!PageState
  BY ListsAssumption DEF Audit!Mounted, Audit!PageState
<1>2. /\ ui = Audit!Mounted /\ calls = <<Audit!Call("list", Audit!Asked(Audit!Mounted), Audit!Effect)>>
      /\ db \in [live : {1 .. n : n \in 0 .. AuditEntries - 1}, next : {AuditEntries}]
  BY DEF Audit!Init
<1>3. calls \in Seq(AuditCalls)
  BY <1>1, <1>2, AuditSent
<1>4. db.live \subseteq 1 .. AuditEntries /\ db.next \in 1 .. AuditEntries
  BY <1>2, ListsAssumption
<1> QED
  BY <1>1, <1>2, <1>3, <1>4 DEF AuditInv

\* A render of the page, and a load of its own.
LEMMA AuditRender ==
    ASSUME AuditInv, NEW u \in Audit!PageState, NEW cs \in Seq(AuditCalls), db' = db,
           \/ Audit!Show(Audit!Render(u, cs))
           \/ Audit!Show(Audit!Load(u, cs, Audit!Asked(u), Audit!Effect))
    PROVE  AuditInv'
<1> DEFINE v == [u EXCEPT !.loading = TRUE]
           c == Audit!Call("list", Audit!Asked(u), Audit!Effect)
<1>1. v \in Audit!PageState
  BY DEF Audit!PageState
<1>2. c \in AuditCalls
  BY AuditSent
<1>3. \/ ui' = u /\ calls' = cs
      \/ ui' = v /\ calls' = Append(cs, c)
  BY DEF Audit!Show, Audit!Render, Audit!Load
<1> HIDE DEF v, c
<1>4. ui' \in Audit!PageState /\ calls' \in Seq(AuditCalls)
  BY <1>1, <1>2, <1>3
<1> QED
  BY <1>4 DEF AuditInv

LEMMA BackTyped == ASSUME NEW u \in Audit!PageState PROVE Audit!StepBack(u) \in Audit!PageState
<1> DEFINE p == IF u.page = 0 THEN 0 ELSE u.page - 1
<1>1. u.page \in 0 .. AuditEntries
  BY DEF Audit!PageState
<1>2. p \in 0 .. AuditEntries
  BY <1>1, ListsAssumption
<1>3. Audit!StepBack(u) = [u EXCEPT !.page = p]
  BY DEF Audit!StepBack
<1> HIDE DEF p
<1> QED
  BY <1>2, <1>3 DEF Audit!PageState

LEMMA AuditDeliver == ASSUME AuditInv, NEW i \in DOMAIN calls, Audit!Deliver(i) PROVE AuditInv'
<1>1. calls \in Seq(AuditCalls) /\ calls[i] \in AuditCalls /\ ui \in Audit!PageState /\ db' = db
  BY DEF AuditInv, Audit!Deliver
<1>2. Audit!Rest(i) \in Seq(AuditCalls)
  BY <1>1, WithoutOne DEF Audit!Rest, Audit!Without, Without
<1>3. PICK a \in Audit!Answers(i) : Audit!Show(Audit!Render(Audit!Loaded(ui, calls[i], a), Audit!Rest(i)))
  BY DEF Audit!Deliver
<1>4. a.ok \in BOOLEAN /\ (a.ok = TRUE => a.data \in AuditRows)
  <2>1. CASE a = Audit!NetworkError
    BY <2>1 DEF Audit!NetworkError, Audit!Refused
  <2>2. CASE calls[i].st = "served" /\ a = calls[i].res
    <3>1. a \in Answered(AuditRows)
      BY <1>1, <2>2, CallHas, Zenon DEF AuditCalls
    <3> QED
      BY <3>1, AnswerHas
  <2> QED
    BY <1>3, <2>1, <2>2 DEF Audit!Answers
<1> DEFINE u == Audit!Loaded(ui, calls[i], a)
<1>5. u \in Audit!PageState
  <2> DEFINE done == [ui EXCEPT !.loading = FALSE]
  <2>1. done \in Audit!PageState
    BY <1>1 DEF Audit!PageState
  <2>2. /\ [done EXCEPT !.error = "load"] \in Audit!PageState
        /\ a.ok = TRUE => [done EXCEPT !.rows = a.data.rows, !.total = a.data.total, !.error = ""] \in Audit!PageState
    BY <1>4, <2>1 DEF Audit!PageState, AuditRows
  <2> HIDE DEF done
  <2>3. Audit!StepBack(done) \in Audit!PageState
    BY <2>1, BackTyped
  <2> QED
    BY <1>4, <2>2, <2>3 DEF Audit!Loaded, done
<1> HIDE DEF u
<1> QED
  BY <1>1, <1>2, <1>3, <1>5, AuditRender DEF u

LEMMA AuditClick == ASSUME AuditInv, Audit!Click PROVE AuditInv'
<1>1. calls \in Seq(AuditCalls) /\ ui \in Audit!PageState
  BY DEF AuditInv
<1>2. ASSUME NEW f \in AuditKinds \cup {Audit!AllActions}, Audit!ChooseAction(f) PROVE AuditInv'
  <2> DEFINE u == [ui EXCEPT !.filter = f, !.page = 0]
  <2>1. 0 \in 0 .. AuditEntries
    BY ListsAssumption
  <2>2. u \in Audit!PageState
    BY <1>1, <1>2, <2>1 DEF Audit!PageState
  <2>3. Audit!Show(Audit!Render(u, calls)) /\ db' = db
    BY <1>2 DEF Audit!ChooseAction
  <2> HIDE DEF u
  <2> QED
    BY <1>1, <2>2, <2>3, AuditRender
<1>3. ASSUME Audit!Retry PROVE AuditInv'
  BY <1>1, <1>3, AuditRender DEF Audit!Retry
<1>4. ASSUME Audit!Previous PROVE AuditInv'
  <2>1. Audit!StepBack(ui) \in Audit!PageState
    BY <1>1, BackTyped
  <2> QED
    BY <1>1, <1>4, <2>1, AuditRender DEF Audit!Previous
<1>5. ASSUME Audit!NextPage PROVE AuditInv'
  <2> DEFINE u == [ui EXCEPT !.page = @ + 1]
  <2>1. ui.page \in 0 .. AuditEntries /\ ui.total \in 0 .. AuditEntries
    BY <1>1 DEF Audit!PageState
  <2>5. ui.page + 1 < Audit!PageCount(ui)
    BY <1>5, Zenon DEF Audit!NextPage
  <2>2. ui.page + 1 \in 0 .. AuditEntries
    <3>1. ui.total = 0 => Audit!PageCount(ui) = 1
      BY DEF Audit!PageCount
    <3>2. ui.total # 0 => Audit!PageCount(ui) = ui.total
      BY <2>1 DEF Audit!PageCount
    <3> QED
      BY <2>1, <2>5, <3>1, <3>2, ListsAssumption
  <2>3. u \in Audit!PageState
    BY <1>1, <2>2 DEF Audit!PageState
  <2>4. Audit!Show(Audit!Render(u, calls)) /\ db' = db
    BY <1>5 DEF Audit!NextPage
  <2> HIDE DEF u
  <2> QED
    BY <1>1, <2>3, <2>4, AuditRender
<1> QED
  BY <1>2, <1>3, <1>4, <1>5 DEF Audit!Click

LEMMA AuditNext == ASSUME AuditInv, Audit!Next \/ Still PROVE AuditInv'
<1>1. ASSUME Audit!Prune PROVE AuditInv'
  BY <1>1 DEF AuditInv, Audit!Prune
<1>2. ASSUME Audit!OthersRecord PROVE AuditInv'
  <2>1. /\ ui' = ui /\ calls' = calls /\ db' = [db EXCEPT !.live = db.live \cup {db.next}]
    BY <1>2 DEF Audit!OthersRecord
  <2>2. db'.live \subseteq db.live \cup {db.next} /\ db'.next = db.next
    BY <2>1
  <2> QED
    BY <2>1, <2>2 DEF AuditInv
<1>3. ASSUME Still PROVE AuditInv'
  BY <1>3 DEF AuditInv, Still
<1> QED
  BY <1>1, <1>2, <1>3, AuditServe, AuditDeliver, AuditClick DEF Audit!Next

LEMMA AuditTyped == ASSUME AuditInv PROVE Audit!TypeOK
BY DEF AuditInv, Audit!TypeOK

-----------------------------------------------------------------------------
\* What request() hands over for a call: nothing at all, or what the API served.
LEMMA HandedOver ==
    ASSUME NEW op, NEW args, NEW thens, NEW data, NEW c \in CallsOf(op, args, thens, Answered(data)), NEW a,
           \/ a = [ok |-> FALSE, code |-> "network"]
           \/ a \in (IF c.st = "served" THEN {c.res} ELSE {})
    PROVE  a.ok \in BOOLEAN /\ (a.ok = TRUE => a.data \in data)
<1>1. ASSUME c.st = "served", a = c.res PROVE a \in Answered(data)
  BY <1>1, CallHas
<1>2. ASSUME a \in Answered(data) PROVE a.ok \in BOOLEAN /\ (a.ok = TRUE => a.data \in data)
  BY <1>2, AnswerHas
<1>3. CASE a = [ok |-> FALSE, code |-> "network"]
  BY <1>3
<1> QED
  BY <1>1, <1>2, <1>3

LEMMA ReadsHave ==
    ASSUME NEW d, NEW a \in {[ok |-> FALSE, code |-> "network"], [ok |-> TRUE, data |-> d]}
    PROVE  a.ok \in BOOLEAN /\ (a.ok = TRUE => a.data = d)
<1>1. CASE a = [ok |-> FALSE, code |-> "network"]
  BY <1>1
<1>2. CASE a = [ok |-> TRUE, data |-> d]
  BY <1>2
<1> QED
  BY <1>1, <1>2

(* The roles and their drafts, which are of the same roles.                 *)
Held == [RoleNames -> RoleGrants] \cup {RoleList!Unloaded}
RolesUi ==
    [roles : Held, drafts : Held, error : BOOLEAN, notice : RoleNames \cup {RoleList!NoRole},
     busy : RoleNames \cup {RoleList!NoRole}, loading : BOOLEAN]
AfterSave == {<<r, 0>> : r \in RoleNames}
RoleLoads == CallsOf("load", {[n |-> 0]}, {RoleList!Effect} \cup AfterSave, Answered({}))
RoleSaves == CallsOf("save", [role : RoleNames, draft : RoleGrants], {RoleList!Effect}, Answered({[n |-> 0]}))
RoleCalls == RoleLoads \cup RoleSaves
RolesInv ==
    /\ ui \in RolesUi /\ DOMAIN ui.drafts = DOMAIN ui.roles
    /\ db \in [RoleNames -> RoleGrants] /\ calls \in Seq(RoleCalls)

LEMMA HeldHas == ASSUME NEW h \in Held PROVE /\ DOMAIN h \in {{}, RoleNames}
                                            /\ \A r \in DOMAIN h : r \in RoleNames /\ h[r] \in RoleGrants
<1>1. CASE h \in [RoleNames -> RoleGrants]
  BY <1>1
<1>2. CASE h = RoleList!Unloaded
  BY <1>2 DEF RoleList!Unloaded
<1> QED
  BY <1>1, <1>2 DEF Held

LEMMA RoleCallIs ==
    ASSUME NEW c \in RoleCalls
    PROVE  /\ c.op = "load" => c \in RoleLoads
           /\ c.op = "save" => c \in RoleSaves
           /\ c.then = RoleList!Effect \/ c.then[1] \in RoleNames
<1>1. ASSUME c \in RoleLoads PROVE c.op = "load" /\ c.then \in {RoleList!Effect} \cup AfterSave
  <2> DEFINE thens == {RoleList!Effect} \cup AfterSave
             args == {[n |-> 0]}
             answers == Answered({})
  <2>1. c \in CallsOf("load", args, thens, answers)
    BY <1>1 DEF RoleLoads
  <2> HIDE DEF args, thens, answers
  <2>2. c.op = "load" /\ c.then \in thens
    BY <2>1, CallHas, Zenon
  <2> QED
    BY <2>2 DEF thens
<1>2. ASSUME c \in RoleSaves PROVE c.op = "save" /\ c.then = RoleList!Effect
  BY <1>2, CallHas DEF RoleSaves
<1>3. \A t \in AfterSave : t[1] \in RoleNames
  BY DEF AfterSave
<1> QED
  BY <1>1, <1>2, <1>3 DEF RoleCalls

LEMMA RoleSaveHas ==
    ASSUME NEW c \in RoleSaves PROVE c.arg.role \in RoleNames /\ c.arg.draft \in RoleGrants
<1> DEFINE args == [role : RoleNames, draft : RoleGrants]
<1>1. c.arg \in args
  <2>1. c \in CallsOf("save", args, {RoleList!Effect}, Answered({[n |-> 0]}))
    BY DEF RoleSaves
  <2> HIDE DEF args
  <2> QED
    BY <2>1, CallHas
<1> QED
  BY <1>1

LEMMA RoleLoadSent ==
    ASSUME NEW t \in {RoleList!Effect} \cup AfterSave PROVE RoleList!Get("load", t) \in RoleCalls
<1>1. RoleList!Get("load", t) \in RoleLoads
  BY CallSent DEF RoleList!Get, RoleList!Call, RoleList!Refused, RoleLoads
<1> QED
  BY <1>1 DEF RoleCalls

LEMMA RolesInit == ASSUME RoleList!Init PROVE RolesInv
<1>1. ui = RoleList!Mounted /\ calls = <<RoleList!Get("load", RoleList!Effect)>> /\ db \in [RoleNames -> RoleGrants]
  BY DEF RoleList!Init
<1>2. calls \in Seq(RoleCalls)
  BY <1>1, RoleLoadSent
<1>3. ui \in RolesUi /\ DOMAIN ui.drafts = DOMAIN ui.roles
  BY <1>1 DEF RoleList!Mounted, RolesUi, Held
<1> QED
  BY <1>1, <1>2, <1>3 DEF RolesInv

LEMMA RolesServe == ASSUME RolesInv, NEW i \in DOMAIN calls, RoleList!Serve(i) PROVE RolesInv'
<1>1. calls \in Seq(RoleCalls) /\ calls[i] \in RoleCalls /\ db \in [RoleNames -> RoleGrants]
  BY DEF RolesInv
<1>2. calls[i] \in RoleSaves /\ ui' = ui
  BY <1>1, RoleCallIs DEF RoleList!Serve
<1>3. calls[i].arg.role \in RoleNames /\ calls[i].arg.draft \in RoleGrants
  BY <1>2, RoleSaveHas
<1>4. db' \in [RoleNames -> RoleGrants]
  BY <1>1, <1>3 DEF RoleList!Serve
<1>5. PICK res \in Answered({[n |-> 0]}) : calls' = RoleList!Served(i, res)
  BY AnswerIs DEF RoleList!Serve, RoleList!Ok, RoleList!Refused, Codes
<1>6. calls' = Answer(calls, i, res)
  BY <1>5, Zenon DEF RoleList!Served, Answer
<1>7. RoleSaves \subseteq RoleCalls
  BY DEF RoleCalls
<1>8. calls' \in Seq(RoleCalls)
  BY <1>1, <1>2, <1>6, <1>7, ServeKeeps DEF RoleSaves
<1> QED
  BY <1>2, <1>4, <1>8 DEF RolesInv

LEMMA RolesDeliver == ASSUME RolesInv, NEW i \in DOMAIN calls, RoleList!Deliver(i) PROVE RolesInv'
<1>1. /\ calls \in Seq(RoleCalls) /\ calls[i] \in RoleCalls /\ db \in [RoleNames -> RoleGrants] /\ db' = db
      /\ ui \in RolesUi /\ DOMAIN ui.drafts = DOMAIN ui.roles
  BY DEF RolesInv, RoleList!Deliver
<1>2. RoleList!Rest(i) \in Seq(RoleCalls)
  BY <1>1, WithoutOne DEF RoleList!Rest, RoleList!Without, Without
<1>3. CASE RoleList!DeliverLoad(i)
  <2>1. PICK a \in RoleList!Reads(db) :
            /\ ui' = IF calls[i].then = RoleList!Effect THEN RoleList!Loaded(ui, a)
                     ELSE [RoleList!Loaded(ui, a) EXCEPT !.notice = calls[i].then[1], !.busy = RoleList!NoRole]
            /\ calls' = RoleList!Rest(i)
    BY <1>3 DEF RoleList!DeliverLoad, RoleList!Show
  <2>2. a.ok \in BOOLEAN /\ (a.ok = TRUE => a.data = db)
    BY <2>1, ReadsHave DEF RoleList!Reads, RoleList!NetworkError, RoleList!Refused, RoleList!Ok
  <2> DEFINE u == RoleList!Loaded(ui, a)
  <2>3. u \in RolesUi /\ DOMAIN u.drafts = DOMAIN u.roles
    <3>1. db \in Held
      BY <1>1 DEF Held
    <3> QED
      BY <1>1, <2>2, <3>1 DEF RoleList!Loaded, RolesUi
  <2> HIDE DEF u
  <2>4. ui' \in RolesUi /\ DOMAIN ui'.drafts = DOMAIN ui'.roles
    <3>1. ui' = u \/ (calls[i].then[1] \in RoleNames /\ ui' = [u EXCEPT !.notice = calls[i].then[1], !.busy = RoleList!NoRole])
      BY <1>1, <2>1, RoleCallIs DEF u
    <3> QED
      BY <2>3, <3>1 DEF RolesUi
  <2> QED
    BY <1>1, <1>2, <2>1, <2>4 DEF RolesInv
<1>4. CASE RoleList!DeliverSave(i)
  <2>1. calls[i].arg.role \in RoleNames
    BY <1>1, <1>4, RoleCallIs, RoleSaveHas DEF RoleList!DeliverSave
  <2> DEFINE t == <<calls[i].arg.role, 0>>
  <2>2. t \in {RoleList!Effect} \cup AfterSave
    BY <2>1 DEF AfterSave
  <2> HIDE DEF t
  <2>3. RoleList!Get("load", t) \in RoleCalls
    BY <2>2, RoleLoadSent
  <2>4. \/ ui' = [ui EXCEPT !.loading = TRUE] /\ calls' = Append(RoleList!Rest(i), RoleList!Get("load", t))
        \/ ui' = [ui EXCEPT !.error = TRUE, !.busy = RoleList!NoRole] /\ calls' = RoleList!Rest(i)
    BY <1>4 DEF RoleList!DeliverSave, RoleList!Show, RoleList!Then, t
  <2>5. calls' \in Seq(RoleCalls)
    BY <1>2, <2>3, <2>4
  <2>6. ui' \in RolesUi /\ DOMAIN ui'.drafts = DOMAIN ui'.roles
    BY <1>1, <2>4 DEF RolesUi
  <2> QED
    BY <1>1, <2>5, <2>6 DEF RolesInv
<1> QED
  BY <1>3, <1>4 DEF RoleList!Deliver

LEMMA RolesClick == ASSUME RolesInv, RoleList!Click PROVE RolesInv'
<1>1. /\ calls \in Seq(RoleCalls) /\ db' = db /\ db \in [RoleNames -> RoleGrants]
      /\ ui \in RolesUi /\ DOMAIN ui.drafts = DOMAIN ui.roles /\ ui.drafts \in Held
  BY DEF RolesInv, RoleList!Click, RolesUi
<1>2. ASSUME NEW r \in RoleNames, RoleList!Save(r) PROVE RolesInv'
  <2> DEFINE arg == [role |-> r, draft |-> ui.drafts[r]]
  <2>1. ui.drafts[r] \in RoleGrants
    BY <1>1, <1>2, HeldHas DEF RoleList!Save
  <2>2. arg \in [role : RoleNames, draft : RoleGrants]
    BY <2>1
  <2> HIDE DEF arg
  <2>3. RoleList!Call("save", arg, RoleList!Effect) \in RoleSaves
    BY <2>2, CallSent DEF RoleList!Call, RoleList!Refused, RoleSaves
  <2>4. /\ ui' = [ui EXCEPT !.busy = r, !.error = FALSE, !.notice = RoleList!NoRole]
        /\ calls' = Append(calls, RoleList!Call("save", arg, RoleList!Effect))
    BY <1>2 DEF RoleList!Save, RoleList!Send, arg
  <2>5. ui' \in RolesUi /\ DOMAIN ui'.drafts = DOMAIN ui'.roles
    BY <1>1, <2>4 DEF RolesUi
  <2>6. calls' \in Seq(RoleCalls)
    BY <1>1, <2>3, <2>4 DEF RoleCalls
  <2> QED
    BY <1>1, <2>5, <2>6 DEF RolesInv
<1>3. ASSUME NEW r \in RoleNames, NEW g \in RoleGrants, RoleList!Edit(r, g) PROVE RolesInv'
  <2> DEFINE h == [ui.drafts EXCEPT ![r] = g]
  <2>1. h \in Held /\ DOMAIN h = DOMAIN ui.drafts
    <3>1. ui.drafts \in [RoleNames -> RoleGrants]
      BY <1>1, <1>3 DEF RoleList!Edit, Held, RoleList!Unloaded
    <3> QED
      BY <3>1 DEF Held
  <2>2. ui' = [ui EXCEPT !.notice = RoleList!NoRole, !.drafts = h] /\ calls' = calls
    BY <1>3 DEF RoleList!Edit, RoleList!Set
  <2> HIDE DEF h
  <2>3. ui' \in RolesUi /\ DOMAIN ui'.drafts = DOMAIN ui'.roles
    BY <1>1, <2>1, <2>2 DEF RolesUi
  <2> QED
    BY <1>1, <2>2, <2>3 DEF RolesInv
<1> QED
  BY <1>2, <1>3 DEF RoleList!Click

LEMMA RolesNext == ASSUME RolesInv, RoleList!Next \/ Still PROVE RolesInv'
<1>1. ASSUME NEW r \in RoleNames, NEW g \in RoleGrants, RoleList!OtherAdmin(r, g) PROVE RolesInv'
  BY <1>1 DEF RolesInv, RoleList!OtherAdmin
<1>2. ASSUME Still PROVE RolesInv'
  BY <1>2 DEF RolesInv, Still
<1> QED
  BY <1>1, <1>2, RolesServe, RolesDeliver, RolesClick DEF RoleList!Next

LEMMA RolesTyped == ASSUME RolesInv PROVE RoleList!TypeOK
<1>1. ui \in RolesUi /\ ui.roles \in Held
  BY DEF RolesInv, RolesUi
<1>2. DOMAIN ui.roles \in {{}, RoleNames}
  BY <1>1, HeldHas
<1>3. {ui.busy, ui.notice} \subseteq RoleNames \cup {RoleList!NoRole} /\ {ui.error, ui.loading} \subseteq BOOLEAN
  BY <1>1 DEF RolesUi
<1> QED
  BY <1>2, <1>3 DEF RolesInv, RoleList!TypeOK

-----------------------------------------------------------------------------
(* The directory of accounts.                                               *)
AccountStates == [role : RoleNames, disabled : BOOLEAN, mfa : BOOLEAN]
Directories == [Accounts -> AccountStates]
Patches == [role : RoleNames] \cup [disabled : BOOLEAN]
UsersUi ==
    [accounts : Directories \cup {UserList!Unloaded}, knowsSelf : BOOLEAN, error : BOOLEAN, loading : BOOLEAN,
     busy : Accounts \cup {UserList!NoUser}, target : Accounts \cup {UserList!NoUser}, mfaError : BOOLEAN]
Reloads == {UserList!Effect, <<"update", 0>>, <<"reset", 0>>}
UserLoads == CallsOf("load", {[n |-> 0]}, Reloads, Answered({}))
UserUpdates == CallsOf("update", [id : Accounts, patch : Patches], {UserList!Effect}, Answered({[n |-> 0]}))
UserResets == CallsOf("reset", [id : Accounts], {UserList!Effect}, Answered({[n |-> 0]}))
UserCalls == UserLoads \cup UserUpdates \cup UserResets
UsersInv == ui \in UsersUi /\ db \in Directories /\ calls \in Seq(UserCalls)

LEMMA UserKinds ==
    ASSUME NEW c \in UserCalls
    PROVE  /\ c.op = "load" => c \in UserLoads
           /\ c.op = "update" => c \in UserUpdates
           /\ c.op = "reset" => c \in UserResets
BY CallHas DEF UserCalls, UserLoads, UserUpdates, UserResets

LEMMA UpdateHas ==
    ASSUME NEW c \in UserUpdates PROVE c.arg.id \in Accounts /\ c.arg.patch \in Patches
<1> DEFINE args == [id : Accounts, patch : Patches]
<1>1. c \in CallsOf("update", args, {UserList!Effect}, Answered({[n |-> 0]}))
  BY DEF UserUpdates
<1> HIDE DEF args
<1>2. c.arg \in args
  BY <1>1, CallHas
<1> QED
  BY <1>2 DEF args

LEMMA ResetHas == ASSUME NEW c \in UserResets PROVE c.arg.id \in Accounts
<1> DEFINE args == [id : Accounts]
<1>1. c \in CallsOf("reset", args, {UserList!Effect}, Answered({[n |-> 0]}))
  BY DEF UserResets
<1> HIDE DEF args
<1>2. c.arg \in args
  BY <1>1, CallHas
<1> QED
  BY <1>2 DEF args

LEMMA UserLoadSent == ASSUME NEW t \in Reloads PROVE UserList!Get("load", t) \in UserCalls
<1>1. UserList!Get("load", t) \in UserLoads
  BY CallSent DEF UserList!Get, UserList!Call, UserList!Refused, UserLoads
<1> QED
  BY <1>1 DEF UserCalls

LEMMA PatchedIs ==
    ASSUME NEW s \in AccountStates, NEW p \in Patches PROVE UserList!Patched(s, p) \in AccountStates
<1> DEFINE q == UserList!Patched(s, p)
<1>1. DOMAIN s = {"role", "disabled", "mfa"} /\ s.role \in RoleNames /\ s.disabled \in BOOLEAN /\ s.mfa \in BOOLEAN
  BY DEF AccountStates
<1>2. q = [k \in DOMAIN s |-> IF k \in DOMAIN p THEN p[k] ELSE s[k]]
  BY Zenon DEF UserList!Patched
<1>3. CASE p \in [role : RoleNames]
  <2>1. DOMAIN p = {"role"} /\ p["role"] \in RoleNames
    BY <1>3
  <2>2. q = [role |-> p.role, disabled |-> s.disabled, mfa |-> s.mfa]
    BY <1>1, <1>2, <2>1
  <2> QED
    BY <1>1, <2>1, <2>2 DEF AccountStates
<1>4. CASE p \in [disabled : BOOLEAN]
  <2>1. DOMAIN p = {"disabled"} /\ p["disabled"] \in BOOLEAN
    BY <1>4
  <2>2. q = [role |-> s.role, disabled |-> p.disabled, mfa |-> s.mfa]
    BY <1>1, <1>2, <2>1
  <2> QED
    BY <1>1, <2>1, <2>2 DEF AccountStates
<1> QED
  BY <1>3, <1>4 DEF Patches

LEMMA UsersInit == ASSUME UserList!Init PROVE UsersInv
<1>1. /\ ui = UserList!Mounted /\ calls = <<UserList!Get("load", UserList!Effect)>>
      /\ db \in [Accounts -> [role : RoleNames, disabled : {FALSE}, mfa : BOOLEAN]]
  BY DEF UserList!Init
<1>2. calls \in Seq(UserCalls)
  BY <1>1, UserLoadSent DEF Reloads
<1>3. ui \in UsersUi
  BY <1>1 DEF UserList!Mounted, UsersUi
<1>4. [role : RoleNames, disabled : {FALSE}, mfa : BOOLEAN] \subseteq AccountStates
  BY DEF AccountStates
<1>5. db \in Directories
  BY <1>1, <1>4 DEF Directories
<1> QED
  BY <1>2, <1>3, <1>5 DEF UsersInv

LEMMA UsersServe == ASSUME UsersInv, NEW i \in DOMAIN calls, UserList!Serve(i) PROVE UsersInv'
<1>1. calls \in Seq(UserCalls) /\ calls[i] \in UserCalls /\ db \in Directories /\ ui' = ui /\ ui \in UsersUi
  BY DEF UsersInv, UserList!Serve
<1>2. PICK res \in Answered({[n |-> 0]}) : calls' = UserList!Served(i, res)
  BY AnswerIs DEF UserList!Serve, UserList!Ok, UserList!Refused, Codes
<1>3. calls' = Answer(calls, i, res)
  BY <1>2, Zenon DEF UserList!Served, Answer
<1>4. calls[i] \in UserUpdates \/ calls[i] \in UserResets
  BY <1>1, UserKinds DEF UserList!Serve
<1>5. calls' \in Seq(UserCalls)
  <2>1. UserUpdates \subseteq UserCalls /\ UserResets \subseteq UserCalls
    BY DEF UserCalls
  <2>2. CASE calls[i] \in UserUpdates
    BY <1>1, <1>3, <2>1, <2>2, ServeKeeps DEF UserUpdates
  <2>3. CASE calls[i] \in UserResets
    BY <1>1, <1>3, <2>1, <2>3, ServeKeeps DEF UserResets
  <2> QED
    BY <1>4, <2>2, <2>3
<1>6. db' \in Directories
  <2> DEFINE id == calls[i].arg.id
  <2>1. id \in Accounts
    BY <1>4, UpdateHas, ResetHas
  <2>2. db[id] \in AccountStates
    BY <1>1, <2>1 DEF Directories
  <2>3. CASE calls[i].op = "reset"
    <3>1. db' = [db EXCEPT ![id] = [@ EXCEPT !.mfa = FALSE]]
      BY <2>3 DEF UserList!Serve
    <3>2. [db[id] EXCEPT !.mfa = FALSE] \in AccountStates
      BY <2>2 DEF AccountStates
    <3> QED
      BY <1>1, <3>1, <3>2 DEF Directories
  <2>4. CASE calls[i].op = "update"
    <3> DEFINE p == calls[i].arg.patch
    <3>1. db' = db \/ db' = [db EXCEPT ![id] = UserList!Patched(db[id], p)]
      BY <2>4 DEF UserList!Serve
    <3>2. p \in Patches
      BY <1>1, <2>4, UserKinds, UpdateHas
    <3>3. UserList!Patched(db[id], p) \in AccountStates
      BY <2>2, <3>2, PatchedIs
    <3> HIDE DEF p, id
    <3> QED
      BY <1>1, <3>1, <3>3 DEF Directories
  <2> QED
    BY <2>3, <2>4 DEF UserList!Serve
<1> QED
  BY <1>1, <1>5, <1>6 DEF UsersInv

\* The list is asked for, as a handler that awaits it does.
LEMMA UsersLoad ==
    ASSUME UsersInv, NEW u \in UsersUi, NEW cs \in Seq(UserCalls), NEW t \in Reloads, db' = db,
           UserList!Show(UserList!Load(u, cs, t))
    PROVE  UsersInv'
<1>1. ui' = [u EXCEPT !.loading = TRUE] /\ calls' = Append(cs, UserList!Get("load", t))
  BY DEF UserList!Show, UserList!Load
<1>2. ui' \in UsersUi
  BY <1>1 DEF UsersUi
<1>3. calls' \in Seq(UserCalls)
  BY <1>1, UserLoadSent
<1> QED
  BY <1>2, <1>3 DEF UsersInv

LEMMA UsersDeliver == ASSUME UsersInv, NEW i \in DOMAIN calls, UserList!Deliver(i) PROVE UsersInv'
<1>1. /\ calls \in Seq(UserCalls) /\ calls[i] \in UserCalls /\ db \in Directories /\ db' = db /\ ui \in UsersUi
  BY DEF UsersInv, UserList!Deliver
<1>2. UserList!Rest(i) \in Seq(UserCalls)
  BY <1>1, WithoutOne DEF UserList!Rest, UserList!Without, Without
<1>3. CASE UserList!DeliverLoad(i)
  <2>1. PICK a \in UserList!Reads(db), knows \in BOOLEAN :
            /\ ui' = UserList!Free(UserList!Loaded(ui, knows, a), calls[i].then)
            /\ calls' = UserList!Rest(i)
    BY <1>3 DEF UserList!DeliverLoad, UserList!Show
  <2>2. a.ok \in BOOLEAN /\ (a.ok = TRUE => a.data = db)
    BY <2>1, ReadsHave DEF UserList!Reads, UserList!NetworkError, UserList!Refused, UserList!Ok
  <2> DEFINE u == UserList!Loaded(ui, knows, a)
  <2>3. u \in UsersUi
    BY <1>1, <2>2 DEF UserList!Loaded, UsersUi
  <2> HIDE DEF u
  <2>4. UserList!Free(u, calls[i].then) \in UsersUi
    BY <2>3 DEF UserList!Free, UsersUi
  <2> QED
    BY <1>1, <1>2, <2>1, <2>4 DEF UsersInv, u
<1>4. CASE UserList!DeliverUpdate(i)
  <2>1. \/ UserList!Show(UserList!Load(ui, UserList!Rest(i), <<"update", 0>>))
        \/ ui' = [ui EXCEPT !.error = TRUE, !.busy = UserList!NoUser] /\ calls' = UserList!Rest(i)
    BY <1>4 DEF UserList!DeliverUpdate, UserList!Show
  <2>2. CASE UserList!Show(UserList!Load(ui, UserList!Rest(i), <<"update", 0>>))
    BY <1>1, <1>2, <2>2, UsersLoad DEF Reloads
  <2>3. CASE ui' = [ui EXCEPT !.error = TRUE, !.busy = UserList!NoUser] /\ calls' = UserList!Rest(i)
    <3>1. ui' \in UsersUi
      BY <1>1, <2>3 DEF UsersUi
    <3> QED
      BY <1>1, <1>2, <2>3, <3>1 DEF UsersInv
  <2> QED
    BY <2>1, <2>2, <2>3
<1>5. CASE UserList!DeliverReset(i)
  <2> DEFINE u == [ui EXCEPT !.target = UserList!NoUser]
  <2>1. \/ UserList!Show(UserList!Load(u, UserList!Rest(i), <<"reset", 0>>))
        \/ ui' = [ui EXCEPT !.mfaError = TRUE, !.busy = UserList!NoUser] /\ calls' = UserList!Rest(i)
    BY <1>5 DEF UserList!DeliverReset, UserList!Show
  <2>2. CASE UserList!Show(UserList!Load(u, UserList!Rest(i), <<"reset", 0>>))
    <3>1. u \in UsersUi
      BY <1>1 DEF UsersUi
    <3> HIDE DEF u
    <3> QED
      BY <1>1, <1>2, <2>2, <3>1, UsersLoad DEF Reloads
  <2>3. CASE ui' = [ui EXCEPT !.mfaError = TRUE, !.busy = UserList!NoUser] /\ calls' = UserList!Rest(i)
    <3>1. ui' \in UsersUi
      BY <1>1, <2>3 DEF UsersUi
    <3> QED
      BY <1>1, <1>2, <2>3, <3>1 DEF UsersInv
  <2> QED
    BY <2>1, <2>2, <2>3
<1> QED
  BY <1>3, <1>4, <1>5 DEF UserList!Deliver

LEMMA UsersUpdate ==
    ASSUME UsersInv, NEW id \in Accounts, NEW p \in Patches, db' = db, UserList!Update(id, p) PROVE UsersInv'
<1> DEFINE arg == [id |-> id, patch |-> p]
<1>1. arg \in [id : Accounts, patch : Patches]
  OBVIOUS
<1> HIDE DEF arg
<1>2. UserList!Call("update", arg, UserList!Effect) \in UserCalls
  BY <1>1, CallSent DEF UserList!Call, UserList!Refused, UserUpdates, UserCalls
<1>3. /\ ui' = [ui EXCEPT !.busy = id, !.error = FALSE]
      /\ calls' = Append(calls, UserList!Call("update", arg, UserList!Effect))
  BY DEF UserList!Update, UserList!Send, arg
<1>4. ui' \in UsersUi
  BY <1>3 DEF UsersInv, UsersUi
<1>5. calls' \in Seq(UserCalls)
  BY <1>2, <1>3 DEF UsersInv
<1> QED
  BY <1>4, <1>5 DEF UsersInv

LEMMA UsersClick == ASSUME UsersInv, UserList!Click PROVE UsersInv'
<1>1. calls \in Seq(UserCalls) /\ db' = db /\ db \in Directories /\ ui \in UsersUi
  BY DEF UsersInv, UserList!Click
<1>2. ASSUME NEW id \in Accounts, UserList!Toggle(id) PROVE UsersInv'
  <2>1. ui.accounts[id].disabled \in BOOLEAN
    <3>1. ui.accounts \in Directories
      BY <1>1, <1>2 DEF UserList!Toggle, UserList!Listed, UserList!Unloaded, UsersUi
    <3> QED
      BY <3>1 DEF Directories, AccountStates
  <2> DEFINE p == [disabled |-> ~ui.accounts[id].disabled]
  <2>2. p \in Patches
    BY <2>1 DEF Patches
  <2>3. UserList!Update(id, p)
    BY <1>2, Zenon DEF UserList!Toggle
  <2> HIDE DEF p
  <2> QED
    BY <1>1, <2>2, <2>3, UsersUpdate
<1>3. ASSUME NEW id \in Accounts, NEW r \in RoleNames, UserList!ChooseRole(id, r) PROVE UsersInv'
  <2> DEFINE p == [role |-> r]
  <2>2. p \in Patches
    BY DEF Patches
  <2>3. UserList!Update(id, p)
    BY <1>3, Zenon DEF UserList!ChooseRole
  <2> HIDE DEF p
  <2> QED
    BY <1>1, <2>2, <2>3, UsersUpdate
<1>4. ASSUME NEW id \in Accounts, UserList!OpenReset(id) PROVE UsersInv'
  <2>1. ui' = [ui EXCEPT !.target = id, !.mfaError = FALSE] /\ calls' = calls
    BY <1>4 DEF UserList!OpenReset, UserList!Set
  <2>2. ui' \in UsersUi
    BY <1>1, <2>1 DEF UsersUi
  <2> QED
    BY <1>1, <2>1, <2>2 DEF UsersInv
<1>5. ASSUME UserList!CloseReset PROVE UsersInv'
  <2>1. ui' = [ui EXCEPT !.target = UserList!NoUser] /\ calls' = calls
    BY <1>5 DEF UserList!CloseReset, UserList!Set
  <2>2. ui' \in UsersUi
    BY <1>1, <2>1 DEF UsersUi
  <2> QED
    BY <1>1, <2>1, <2>2 DEF UsersInv
<1>6. ASSUME UserList!ConfirmReset PROVE UsersInv'
  <2> DEFINE arg == [id |-> ui.target]
  <2>1. ui.target \in Accounts
    BY <1>1, <1>6 DEF UserList!ConfirmReset, UsersUi
  <2>2. arg \in [id : Accounts]
    BY <2>1
  <2>3. /\ ui' = [ui EXCEPT !.busy = ui.target, !.mfaError = FALSE]
        /\ calls' = Append(calls, UserList!Call("reset", arg, UserList!Effect))
    BY <1>6 DEF UserList!ConfirmReset, UserList!Send
  <2> HIDE DEF arg
  <2>4. UserList!Call("reset", arg, UserList!Effect) \in UserCalls
    BY <2>2, CallSent DEF UserList!Call, UserList!Refused, UserResets, UserCalls
  <2>5. ui' \in UsersUi
    BY <1>1, <2>1, <2>3 DEF UsersUi
  <2>6. calls' \in Seq(UserCalls)
    BY <1>1, <2>3, <2>4
  <2> QED
    BY <1>1, <2>5, <2>6 DEF UsersInv
<1>7. ASSUME UserList!Retry PROVE UsersInv'
  BY <1>1, <1>7, UsersLoad DEF UserList!Retry, Reloads
<1> QED
  BY <1>2, <1>3, <1>4, <1>5, <1>6, <1>7 DEF UserList!Click

LEMMA UsersNext == ASSUME UsersInv, UserList!Next \/ Still PROVE UsersInv'
<1>1. ASSUME Still PROVE UsersInv'
  BY <1>1 DEF UsersInv, Still
<1> QED
  BY <1>1, UsersServe, UsersDeliver, UsersClick DEF UserList!Next

LEMMA UsersTyped == ASSUME UsersInv PROVE UserList!TypeOK
<1>1. ui \in UsersUi /\ db \in Directories
  BY DEF UsersInv
<1>2. DOMAIN ui.accounts \in {{}, Accounts}
  BY <1>1 DEF UsersUi, Directories, UserList!Unloaded
<1>3. /\ {ui.busy, ui.target} \subseteq Accounts \cup {UserList!NoUser}
      /\ {ui.knowsSelf, ui.error, ui.loading, ui.mfaError} \subseteq BOOLEAN
  BY <1>1 DEF UsersUi
<1> QED
  BY <1>1, <1>2, <1>3 DEF UserList!TypeOK, UserList!Listed, Directories, AccountStates

-----------------------------------------------------------------------------
(* The sign-in providers.  The list and the drafts are of the same ones.    *)
Drafts == [config : ProviderConfigs, secret : BOOLEAN]
Lists == UNION {[S -> Drafts] : S \in SUBSET Providers}
Changes == {"update", "remove", "create"}
ChangeNotes == {Blank} \cup Changes
ProvidersUi ==
    [list : Lists, drafts : Lists, creating : [complete : BOOLEAN, secret : BOOLEAN],
     confirming : Providers \cup {0}, error : BOOLEAN, notice : ChangeNotes, busy : Providers \cup {0, 99},
     loading : BOOLEAN, base : BOOLEAN]
ProvidersDb == [live : SUBSET Providers, config : [Providers -> ProviderConfigs], secret : [Providers -> BOOLEAN]]
Relists == {ProviderList!Effect} \cup {<<op, 0>> : op \in Changes}
ListLoads == CallsOf("list", {[n |-> 0]}, Relists, Answered({}))
ProviderUpdate == [id : Providers, config : ProviderConfigs, secret : BOOLEAN]
ProviderNew == [secret : BOOLEAN]
ListUpdates == CallsOf("update", ProviderUpdate, {ProviderList!Effect}, Answered({[n |-> 0]}))
ListRemoves == CallsOf("remove", [id : Providers], {ProviderList!Effect}, Answered({[n |-> 0]}))
ListCreates == CallsOf("create", ProviderNew, {ProviderList!Effect}, Answered({[n |-> 0]}))
ListChanges == ListUpdates \cup ListRemoves \cup ListCreates
ProviderCalls == ListLoads \cup ListChanges
ProvidersInv ==
    /\ ui \in ProvidersUi /\ DOMAIN ui.drafts = DOMAIN ui.list
    /\ db \in ProvidersDb /\ calls \in Seq(ProviderCalls)

LEMMA ListsHave ==
    ASSUME NEW h \in Lists
    PROVE  DOMAIN h \subseteq Providers /\ \A p \in DOMAIN h : h[p].config \in ProviderConfigs /\ h[p].secret \in BOOLEAN
BY DEF Lists, Drafts

LEMMA ListsAre ==
    ASSUME NEW S \in SUBSET Providers, NEW h \in [S -> Drafts] PROVE h \in Lists /\ DOMAIN h = S
BY DEF Lists

LEMMA ProviderKinds ==
    ASSUME NEW c \in ProviderCalls
    PROVE  /\ c.op = "list" => c \in ListLoads
           /\ c.op # "list" => c \in ListChanges
           /\ c.op = "update" => c \in ListUpdates
           /\ c.op = "remove" => c \in ListRemoves
           /\ c.op = "create" => c \in ListCreates
           /\ c.op \in {"list"} \cup Changes
BY CallHas DEF ProviderCalls, ListChanges, ListLoads, ListUpdates, ListRemoves, ListCreates, Changes

LEMMA ProviderUpdateHas ==
    ASSUME NEW c \in ListUpdates
    PROVE  c.arg.id \in Providers /\ c.arg.config \in ProviderConfigs /\ c.arg.secret \in BOOLEAN
<1>1. c.arg \in ProviderUpdate
  <2>1. c \in CallsOf("update", ProviderUpdate, {ProviderList!Effect}, Answered({[n |-> 0]}))
    BY DEF ListUpdates
  <2> QED
    BY <2>1, CallHas
<1> QED
  BY <1>1 DEF ProviderUpdate

LEMMA ProviderRemoveHas == ASSUME NEW c \in ListRemoves PROVE c.arg.id \in Providers
<1> DEFINE args == [id : Providers]
<1>1. c \in CallsOf("remove", args, {ProviderList!Effect}, Answered({[n |-> 0]}))
  BY DEF ListRemoves
<1> HIDE DEF args
<1>2. c.arg \in args
  BY <1>1, CallHas
<1> QED
  BY <1>2 DEF args

LEMMA ProviderCreateHas == ASSUME NEW c \in ListCreates PROVE c.arg.secret \in BOOLEAN
<1>1. c.arg \in ProviderNew
  <2>1. c \in CallsOf("create", ProviderNew, {ProviderList!Effect}, Answered({[n |-> 0]}))
    BY DEF ListCreates
  <2> QED
    BY <2>1, CallHas
<1> QED
  BY <1>1 DEF ProviderNew

LEMMA RelistIs ==
    ASSUME NEW c \in ListLoads PROVE c.then = ProviderList!Effect \/ c.then[1] \in Changes
<1> DEFINE args == {[n |-> 0]}
           answers == Answered({})
<1>1. c \in CallsOf("list", args, Relists, answers)
  BY DEF ListLoads
<1> HIDE DEF args, answers
<1>2. c.then \in Relists
  BY <1>1, CallHas, Zenon
<1> QED
  BY <1>2 DEF Relists

LEMMA RelistSent == ASSUME NEW t \in Relists PROVE ProviderList!Get("list", t) \in ProviderCalls
<1>1. ProviderList!Get("list", t) \in ListLoads
  BY CallSent DEF ProviderList!Get, ProviderList!Call, ProviderList!Refused, ListLoads
<1> QED
  BY <1>1 DEF ProviderCalls

LEMMA ProvidersInit == ASSUME ProviderList!Init PROVE ProvidersInv
<1>1. /\ ui = ProviderList!Mounted /\ calls = <<ProviderList!Get("list", ProviderList!Effect)>>
      /\ \E v \in ProviderConfigs :
            db = [live |-> {1}, config |-> [p \in Providers |-> v], secret |-> [p \in Providers |-> p = 1]]
  BY DEF ProviderList!Init
<1>2. calls \in Seq(ProviderCalls)
  BY <1>1, RelistSent DEF Relists
<1>3. db \in ProvidersDb
  <2>1. PICK v \in ProviderConfigs :
            db = [live |-> {1}, config |-> [p \in Providers |-> v], secret |-> [p \in Providers |-> p = 1]]
    BY <1>1
  <2>2. [p \in Providers |-> v] \in [Providers -> ProviderConfigs]
    OBVIOUS
  <2>3. [p \in Providers |-> p = 1] \in [Providers -> BOOLEAN]
    OBVIOUS
  <2>4. {1} \in SUBSET Providers
    BY MountedAssumption
  <2> QED
    BY <2>1, <2>2, <2>3, <2>4, Zenon DEF ProvidersDb
<1>4. ProviderList!Unloaded \in Lists /\ DOMAIN ProviderList!Unloaded = {}
  <2>1. ProviderList!Unloaded \in [{} -> Drafts]
    BY DEF ProviderList!Unloaded
  <2> QED
    BY <2>1, ListsAre
<1>5. ui = [list |-> ProviderList!Unloaded, drafts |-> ProviderList!Unloaded, creating |-> ProviderList!Blank,
            confirming |-> 0, error |-> FALSE, notice |-> Blank, busy |-> 0, loading |-> TRUE, base |-> FALSE]
  BY <1>1, Zenon DEF ProviderList!Mounted, ProviderList!None, Blank
<1>6. ui \in ProvidersUi /\ DOMAIN ui.drafts = DOMAIN ui.list
  BY <1>4, <1>5 DEF ProvidersUi, ProviderList!Blank, ChangeNotes
<1> QED
  BY <1>2, <1>3, <1>6 DEF ProvidersInv

LEMMA ProvidersServe == ASSUME ProvidersInv, NEW i \in DOMAIN calls, ProviderList!Serve(i) PROVE ProvidersInv'
<1> DEFINE c == calls[i]
<1>1. /\ calls \in Seq(ProviderCalls) /\ c \in ProviderCalls /\ db \in ProvidersDb /\ ui' = ui
      /\ ui \in ProvidersUi /\ DOMAIN ui.drafts = DOMAIN ui.list
  BY DEF ProvidersInv, ProviderList!Serve
<1>2. c \in ListChanges
  BY <1>1, ProviderKinds DEF ProviderList!Serve
<1>3. PICK res \in Answered({[n |-> 0]}) : calls' = ProviderList!Served(i, res)
  BY AnswerIs DEF ProviderList!Serve, ProviderList!Ok, ProviderList!Refused, Codes
<1>4. calls' = Answer(calls, i, res)
  BY <1>3, Zenon DEF ProviderList!Served, Answer
<1>5. calls' \in Seq(ProviderCalls)
  <2>1. ListUpdates \subseteq ProviderCalls /\ ListRemoves \subseteq ProviderCalls /\ ListCreates \subseteq ProviderCalls
    BY DEF ProviderCalls, ListChanges
  <2>2. CASE c \in ListUpdates
    BY <1>1, <1>4, <2>1, <2>2, ServeKeeps DEF ListUpdates
  <2>3. CASE c \in ListRemoves
    BY <1>1, <1>4, <2>1, <2>3, ServeKeeps DEF ListRemoves
  <2>4. CASE c \in ListCreates
    BY <1>1, <1>4, <2>1, <2>4, ServeKeeps DEF ListCreates
  <2> QED
    BY <1>2, <2>2, <2>3, <2>4 DEF ListChanges
<1>6. db' \in ProvidersDb
  <2> HIDE DEF c
  <2>1. ASSUME ProviderList!ServeUpdate(c) PROVE db' \in ProvidersDb
    <3>1. c.arg.id \in Providers /\ c.arg.config \in ProviderConfigs /\ c.arg.secret \in BOOLEAN
      BY <1>1, <2>1, ProviderKinds, ProviderUpdateHas DEF ProviderList!ServeUpdate
    <3> DEFINE s == ProviderList!SecretAfter(c.arg.id, c.arg.secret)
    <3>2. s \in BOOLEAN
      BY DEF ProviderList!SecretAfter
    <3>3. db' = [db EXCEPT !.config[c.arg.id] = c.arg.config, !.secret[c.arg.id] = s]
      BY <2>1 DEF ProviderList!ServeUpdate
    <3> HIDE DEF s
    <3> QED
      BY <1>1, <3>1, <3>2, <3>3 DEF ProvidersDb
  <2>2. ASSUME ProviderList!ServeRemove(c) PROVE db' \in ProvidersDb
    <3>1. c.arg.id \in Providers
      BY <1>1, <2>2, ProviderKinds, ProviderRemoveHas DEF ProviderList!ServeRemove
    <3> QED
      BY <1>1, <2>2, <3>1 DEF ProviderList!ServeRemove, ProvidersDb
  <2>3. ASSUME ProviderList!ServeCreate(c) PROVE db' \in ProvidersDb
    <3>1. c.arg.secret \in BOOLEAN
      BY <1>1, <2>3, ProviderKinds, ProviderCreateHas DEF ProviderList!ServeCreate
    <3>2. PICK p \in Providers : db' = [db EXCEPT !.live = @ \cup {p}, !.secret[p] = c.arg.secret]
      BY <2>3 DEF ProviderList!ServeCreate
    <3> QED
      BY <1>1, <3>1, <3>2 DEF ProvidersDb
  <2> QED
    BY <1>1, <2>1, <2>2, <2>3 DEF ProviderList!Serve, c
<1> QED
  BY <1>1, <1>5, <1>6 DEF ProvidersInv

LEMMA ProviderLoaded ==
    ASSUME ProvidersInv, NEW a \in ProviderList!Reads(ProviderList!Stored)
    PROVE  /\ ProviderList!Loaded(ui, a) \in ProvidersUi
           /\ DOMAIN ProviderList!Loaded(ui, a).drafts = DOMAIN ProviderList!Loaded(ui, a).list
<1> DEFINE s == ProviderList!Stored
           d == [p \in DOMAIN s |-> ProviderList!ToDraft(s[p])]
<1>1. db \in ProvidersDb /\ ui \in ProvidersUi /\ DOMAIN ui.drafts = DOMAIN ui.list
  BY DEF ProvidersInv
<1>2. s \in [db.live -> Drafts] /\ db.live \in SUBSET Providers
  BY <1>1 DEF ProviderList!Stored, ProvidersDb, Drafts
<1>3. d \in [db.live -> Drafts]
  BY <1>2 DEF ProviderList!ToDraft, Drafts
<1>4. a.ok \in BOOLEAN /\ (a.ok = TRUE => a.data = s)
  BY ReadsHave DEF ProviderList!Reads, ProviderList!NetworkError, ProviderList!Refused, ProviderList!Ok
<1>5. /\ a.ok = TRUE => ProviderList!Loaded(ui, a) = [ui EXCEPT !.list = s, !.drafts = d, !.base = TRUE, !.error = FALSE,
                                                                !.loading = FALSE]
      /\ a.ok = FALSE => ProviderList!Loaded(ui, a) = [ui EXCEPT !.error = TRUE, !.loading = FALSE]
  BY <1>4 DEF ProviderList!Loaded
<1> HIDE DEF s, d
<1>6. s \in Lists /\ d \in Lists /\ DOMAIN d = DOMAIN s
  BY <1>2, <1>3, ListsAre
<1>7. CASE a.ok = TRUE
  <2> DEFINE u == [ui EXCEPT !.list = s, !.drafts = d, !.base = TRUE, !.error = FALSE, !.loading = FALSE]
  <2>1. u \in ProvidersUi /\ u.list = s /\ u.drafts = d
    BY <1>1, <1>6 DEF ProvidersUi
  <2> HIDE DEF u
  <2>2. ProviderList!Loaded(ui, a) = u
    BY <1>5, <1>7 DEF u
  <2> QED
    BY <1>6, <2>1, <2>2
<1>8. CASE a.ok = FALSE
  <2> DEFINE u == [ui EXCEPT !.error = TRUE, !.loading = FALSE]
  <2>1. u \in ProvidersUi /\ u.list = ui.list /\ u.drafts = ui.drafts
    BY <1>1 DEF ProvidersUi
  <2> HIDE DEF u
  <2>2. ProviderList!Loaded(ui, a) = u
    BY <1>5, <1>8 DEF u
  <2> QED
    BY <1>1, <2>1, <2>2
<1> QED
  BY <1>4, <1>7, <1>8

LEMMA ProvidersDeliver == ASSUME ProvidersInv, NEW i \in DOMAIN calls, ProviderList!Deliver(i) PROVE ProvidersInv'
<1>1. /\ calls \in Seq(ProviderCalls) /\ calls[i] \in ProviderCalls /\ db \in ProvidersDb /\ db' = db
      /\ ui \in ProvidersUi /\ DOMAIN ui.drafts = DOMAIN ui.list
  BY DEF ProvidersInv, ProviderList!Deliver
<1>2. ProviderList!Rest(i) \in Seq(ProviderCalls)
  BY <1>1, WithoutOne DEF ProviderList!Rest, ProviderList!Without, Without
<1>3. CASE ProviderList!DeliverList(i)
  <2>1. PICK a \in ProviderList!Reads(ProviderList!Stored) :
            /\ ui' = IF calls[i].then = ProviderList!Effect THEN ProviderList!Loaded(ui, a)
                     ELSE [ProviderList!Loaded(ui, a) EXCEPT !.notice = calls[i].then[1], !.busy = 0]
            /\ calls' = ProviderList!Rest(i)
    BY <1>3 DEF ProviderList!DeliverList, ProviderList!Show, ProviderList!None
  <2> DEFINE u == ProviderList!Loaded(ui, a)
  <2>2. u \in ProvidersUi /\ DOMAIN u.drafts = DOMAIN u.list
    BY <2>1, ProviderLoaded
  <2> HIDE DEF u
  <2>3. ui' = u \/ (calls[i].then[1] \in Changes /\ ui' = [u EXCEPT !.notice = calls[i].then[1], !.busy = 0])
    BY <1>1, <1>3, <2>1, ProviderKinds, RelistIs DEF u, ProviderList!DeliverList
  <2>4. ui' \in ProvidersUi /\ DOMAIN ui'.drafts = DOMAIN ui'.list
    <3>1. CASE ui' = u
      BY <2>2, <3>1
    <3>2. CASE calls[i].then[1] \in Changes /\ ui' = [u EXCEPT !.notice = calls[i].then[1], !.busy = 0]
      <4> DEFINE n == calls[i].then[1]
      <4>1. n \in ChangeNotes /\ ui' = [u EXCEPT !.notice = n, !.busy = 0]
        BY <3>2 DEF ChangeNotes
      <4> HIDE DEF n
      <4> QED
        BY <2>2, <4>1 DEF ProvidersUi
    <3> QED
      BY <2>3, <3>1, <3>2
  <2> QED
    BY <1>1, <1>2, <2>1, <2>4 DEF ProvidersInv
<1>4. CASE ProviderList!DeliverChange(i)
  <2> DEFINE u == ProviderList!Done(ui, calls[i].op)
             t == <<calls[i].op, 0>>
  <2>1. t \in Relists
    BY <1>1, <1>4, ProviderKinds DEF ProviderList!DeliverChange, Relists
  <2>2. u \in ProvidersUi /\ DOMAIN u.drafts = DOMAIN u.list
    BY <1>1 DEF ProviderList!Done, ProviderList!None, ProviderList!Blank, ProvidersUi
  <2>3. \/ ui' = [u EXCEPT !.loading = TRUE] /\ calls' = Append(ProviderList!Rest(i), ProviderList!Get("list", t))
        \/ ui' = [ui EXCEPT !.error = TRUE, !.busy = 0] /\ calls' = ProviderList!Rest(i)
    BY <1>4 DEF ProviderList!DeliverChange, ProviderList!Show, ProviderList!Then, ProviderList!None
  <2> HIDE DEF u, t
  <2>4. ui' \in ProvidersUi /\ DOMAIN ui'.drafts = DOMAIN ui'.list
    <3>1. CASE ui' = [u EXCEPT !.loading = TRUE]
      BY <2>2, <3>1 DEF ProvidersUi
    <3>2. CASE ui' = [ui EXCEPT !.error = TRUE, !.busy = 0]
      BY <1>1, <3>2 DEF ProvidersUi
    <3> QED
      BY <2>3, <3>1, <3>2
  <2>5. calls' \in Seq(ProviderCalls)
    BY <1>2, <2>1, <2>3, RelistSent
  <2> QED
    BY <1>1, <2>4, <2>5 DEF ProvidersInv
<1> QED
  BY <1>3, <1>4 DEF ProviderList!Deliver

\* A handler starts with a call of its own.
LEMMA ProvidersBegin ==
    ASSUME ProvidersInv, NEW who \in Providers \cup {0, 99}, NEW call \in ProviderCalls, db' = db,
           ProviderList!Begin(who, call)
    PROVE  ProvidersInv'
<1>1. /\ ui' = [ui EXCEPT !.busy = who, !.error = FALSE, !.notice = Blank]
      /\ calls' = Append(calls, call)
  BY Zenon DEF ProviderList!Begin, ProviderList!Send, Blank
<1>2. ui' \in ProvidersUi /\ DOMAIN ui'.drafts = DOMAIN ui'.list
  BY <1>1 DEF ProvidersInv, ProvidersUi, ChangeNotes
<1>3. calls' \in Seq(ProviderCalls)
  BY <1>1 DEF ProvidersInv
<1> QED
  BY <1>2, <1>3 DEF ProvidersInv

LEMMA ProvidersEdit ==
    ASSUME ProvidersInv, db' = db, NEW p \in DOMAIN ui.drafts, NEW draft \in Drafts, ProviderList!EditDraft(p, draft)
    PROVE  ProvidersInv'
<1> DEFINE h == [ui.drafts EXCEPT ![p] = draft]
<1>1. ui \in ProvidersUi /\ DOMAIN ui.drafts = DOMAIN ui.list /\ ui.drafts \in Lists
  BY DEF ProvidersInv, ProvidersUi
<1>2. h \in Lists /\ DOMAIN h = DOMAIN ui.drafts
  <2>1. PICK S \in SUBSET Providers : ui.drafts \in [S -> Drafts]
    BY <1>1 DEF Lists
  <2>2. h \in [S -> Drafts]
    BY <2>1
  <2> QED
    BY <2>1, <2>2, ListsAre
<1>3. ui' = [ui EXCEPT !.notice = Blank, !.drafts = h] /\ calls' = calls
  BY Zenon DEF ProviderList!EditDraft, ProviderList!Set, Blank
<1> HIDE DEF h
<1>4. ui' \in ProvidersUi /\ DOMAIN ui'.drafts = DOMAIN ui'.list
  BY <1>1, <1>2, <1>3 DEF ProvidersUi, ChangeNotes
<1> QED
  BY <1>3, <1>4 DEF ProvidersInv

LEMMA ProvidersClick == ASSUME ProvidersInv, ProviderList!Click PROVE ProvidersInv'
<1>1. /\ calls \in Seq(ProviderCalls) /\ db' = db /\ db \in ProvidersDb
      /\ ui \in ProvidersUi /\ DOMAIN ui.drafts = DOMAIN ui.list /\ ui.drafts \in Lists
      /\ DOMAIN ui.list \subseteq Providers
  BY ListsHave DEF ProvidersInv, ProviderList!Click, ProvidersUi
<1>2. ASSUME NEW p \in DOMAIN ui.list, ProviderList!Edit(p) PROVE ProvidersInv'
  <2>1. ui.drafts[p] \in Drafts
    BY <1>1 DEF Lists
  <2>2. ASSUME NEW v \in ProviderConfigs PROVE [ui.drafts[p] EXCEPT !.config = v] \in Drafts
    BY <2>1 DEF Drafts
  <2>3. [ui.drafts[p] EXCEPT !.secret = ~@] \in Drafts
    BY <2>1 DEF Drafts
  <2>4. PICK draft \in Drafts : ProviderList!EditDraft(p, draft)
    BY <1>2, <2>2, <2>3, Zenon DEF ProviderList!Edit
  <2> QED
    BY <1>1, <2>4, ProvidersEdit
<1>3. ASSUME NEW p \in DOMAIN ui.list, ProviderList!Save(p) PROVE ProvidersInv'
  <2> DEFINE arg == [id |-> p, config |-> ui.drafts[p].config, secret |-> ui.drafts[p].secret]
             call == ProviderList!Call("update", arg, ProviderList!Effect)
  <2>1. arg \in ProviderUpdate
    BY <1>1, ListsHave DEF ProviderUpdate
  <2>2. ProviderList!Begin(p, call)
    BY <1>3 DEF ProviderList!Save
  <2> HIDE DEF arg
  <2>3. call \in ListUpdates
    BY <2>1, CallSent DEF ProviderList!Call, ProviderList!Refused, ListUpdates
  <2> HIDE DEF call
  <2> QED
    BY <1>1, <2>2, <2>3, ProvidersBegin DEF ProviderCalls, ListChanges
<1>4. ASSUME NEW p \in DOMAIN ui.list, ProviderList!AskDelete(p) \/ ProviderList!CancelDelete(p) PROVE ProvidersInv'
  <2>1. PICK x \in {p, 0} : ui' = [ui EXCEPT !.confirming = x] /\ calls' = calls
    BY <1>4 DEF ProviderList!AskDelete, ProviderList!CancelDelete, ProviderList!Set, ProviderList!None
  <2>2. ui' \in ProvidersUi /\ DOMAIN ui'.drafts = DOMAIN ui'.list
    BY <1>1, <2>1 DEF ProvidersUi
  <2> QED
    BY <1>1, <2>1, <2>2 DEF ProvidersInv
<1>5. ASSUME NEW p \in DOMAIN ui.list, ProviderList!RemoveProvider(p) PROVE ProvidersInv'
  <2> DEFINE arg == [id |-> p]
             call == ProviderList!Call("remove", arg, ProviderList!Effect)
  <2>1. arg \in [id : Providers]
    BY <1>1
  <2>2. ProviderList!Begin(p, call)
    BY <1>5 DEF ProviderList!RemoveProvider
  <2> HIDE DEF arg
  <2>3. call \in ListRemoves
    BY <2>1, CallSent DEF ProviderList!Call, ProviderList!Refused, ListRemoves
  <2> HIDE DEF call
  <2> QED
    BY <1>1, <2>2, <2>3, ProvidersBegin DEF ProviderCalls, ListChanges
<1>6. ASSUME ProviderList!TypeNew PROVE ProvidersInv'
  <2>1. \/ ui' = [ui EXCEPT !.creating = [ui.creating EXCEPT !.complete = ~@]]
        \/ ui' = [ui EXCEPT !.creating = [ui.creating EXCEPT !.secret = ~@]]
    BY <1>6 DEF ProviderList!TypeNew, ProviderList!Set
  <2>2. /\ [ui.creating EXCEPT !.complete = ~@] \in [complete : BOOLEAN, secret : BOOLEAN]
        /\ [ui.creating EXCEPT !.secret = ~@] \in [complete : BOOLEAN, secret : BOOLEAN]
    BY <1>1 DEF ProvidersUi
  <2>3. PICK f \in [complete : BOOLEAN, secret : BOOLEAN] : ui' = [ui EXCEPT !.creating = f]
    BY <2>1, <2>2
  <2>4. ui' \in ProvidersUi /\ DOMAIN ui'.drafts = DOMAIN ui'.list
    BY <1>1, <2>3 DEF ProvidersUi
  <2>5. calls' = calls
    BY <1>6 DEF ProviderList!TypeNew, ProviderList!Set
  <2> QED
    BY <1>1, <2>4, <2>5 DEF ProvidersInv
<1>7. ASSUME ProviderList!Create PROVE ProvidersInv'
  <2> DEFINE arg == [secret |-> ui.creating.secret]
             call == ProviderList!Call("create", arg, ProviderList!Effect)
  <2>1. arg \in ProviderNew
    BY <1>1 DEF ProvidersUi, ProviderNew
  <2>2. ProviderList!Begin(99, call)
    BY <1>7 DEF ProviderList!Create, ProviderList!New
  <2> HIDE DEF arg
  <2>3. call \in ListCreates
    BY <2>1, CallSent DEF ProviderList!Call, ProviderList!Refused, ListCreates
  <2> HIDE DEF call
  <2> QED
    BY <1>1, <2>2, <2>3, ProvidersBegin DEF ProviderCalls, ListChanges
<1> QED
  BY <1>2, <1>3, <1>4, <1>5, <1>6, <1>7 DEF ProviderList!Click

LEMMA ProvidersNext == ASSUME ProvidersInv, ProviderList!Next \/ Still PROVE ProvidersInv'
<1>1. ASSUME Still PROVE ProvidersInv'
  BY <1>1 DEF ProvidersInv, Still
<1> QED
  BY <1>1, ProvidersServe, ProvidersDeliver, ProvidersClick DEF ProviderList!Next

LEMMA ProvidersTyped == ASSUME ProvidersInv PROVE ProviderList!TypeOK
<1>1. ui \in ProvidersUi /\ db \in ProvidersDb /\ ui.list \in Lists
  BY DEF ProvidersInv, ProvidersUi
<1>2. DOMAIN ui.list \subseteq Providers
  BY <1>1, ListsHave
<1>3. /\ ui.busy \in Providers \cup {0, 99} /\ ui.confirming \in Providers \cup {0}
      /\ {ui.error, ui.loading, ui.base, ui.creating.complete, ui.creating.secret} \subseteq BOOLEAN
      /\ db.live \subseteq Providers /\ db.config \in [Providers -> ProviderConfigs] /\ db.secret \in [Providers -> BOOLEAN]
  BY <1>1 DEF ProvidersUi, ProvidersDb
<1>4. ui.notice \in ChangeNotes
  BY <1>1 DEF ProvidersUi
<1>5. ui.notice \in {"", "update", "remove", "create"}
  BY <1>4, Zenon DEF ChangeNotes, Changes, Blank
<1> QED
  BY <1>2, <1>3, <1>5 DEF ProvidersInv, ProviderList!TypeOK, ProviderList!None, ProviderList!New

-----------------------------------------------------------------------------
(* The forms of a link, those of a new link and of an existing one alike.   *)
RuleValues == {Blank, "iPhone", "mobile", "bot"}
Rules == [match_type : {"ua_contains", "device"}, match_value : RuleValues]
RuleLists == UNION {[1 .. n -> Rules] : n \in 0 .. RuleCap}
FormsOf(texts) ==
    [text : texts, domain : ShortDomains \cup {Blank}, on : BOOLEAN, seconds : {2, 9}, rules : RuleLists]
LinksOf(texts) ==
    [text : texts, domain : ShortDomains \cup {Blank}, seconds : {0, 2, 9}, rules : RuleLists]

LEMMA RuleListIs ==
    /\ \A r \in RuleLists : r \in Seq(Rules) /\ Len(r) <= RuleCap
    /\ \A r \in Seq(Rules) : Len(r) <= RuleCap => r \in RuleLists
<1>1. ASSUME NEW r \in RuleLists PROVE r \in Seq(Rules) /\ Len(r) <= RuleCap
  <2>1. PICK n \in 0 .. RuleCap : r \in [1 .. n -> Rules]
    BY DEF RuleLists
  <2>2. n \in Nat /\ n <= RuleCap
    BY ListsAssumption
  <2> QED
    BY <2>1, <2>2
<1>2. ASSUME NEW r \in Seq(Rules), Len(r) <= RuleCap PROVE r \in RuleLists
  <2>1. Len(r) \in 0 .. RuleCap /\ r \in [1 .. Len(r) -> Rules]
    BY <1>2, ListsAssumption
  <2> QED
    BY <2>1 DEF RuleLists
<1> QED
  BY <1>1, <1>2

LEMMA NoRules == <<>> \in RuleLists
<1>1. <<>> \in Seq(Rules) /\ Len(<<>>) <= RuleCap
  BY ListsAssumption
<1> QED
  BY <1>1, RuleListIs

LEMMA SameForms ==
    ASSUME NEW texts
    PROVE  /\ NewLink!Forms(texts) = FormsOf(texts)
           /\ EditLink!Forms(texts) = FormsOf(texts)
<1>1. {"", "iPhone"} \cup {"mobile", "bot"} = RuleValues
  BY Zenon DEF RuleValues, Blank
<1>2. /\ NewLink!UserAgents \cup NewLink!Devices = RuleValues /\ EditLink!UserAgents \cup EditLink!Devices = RuleValues
      /\ NewLink!MatchTypes = {"ua_contains", "device"} /\ EditLink!MatchTypes = {"ua_contains", "device"}
  BY <1>1, Zenon DEF NewLink!UserAgents, NewLink!Devices, EditLink!UserAgents, EditLink!Devices,
                     NewLink!MatchTypes, EditLink!MatchTypes
<1>3. ShortDomains \cup {""} = ShortDomains \cup {Blank}
  BY Zenon DEF Blank
<1> DEFINE of(types, values, domains) ==
              [text : texts, domain : domains, on : BOOLEAN, seconds : {2, 9},
               rules : UNION {[1 .. n -> [match_type : types, match_value : values]] : n \in 0 .. RuleCap}]
<1>4. FormsOf(texts) = of({"ua_contains", "device"}, RuleValues, ShortDomains \cup {Blank})
  BY Zenon DEF FormsOf, RuleLists, Rules
<1>5. NewLink!Forms(texts) = of(NewLink!MatchTypes, NewLink!UserAgents \cup NewLink!Devices, ShortDomains \cup {""})
  BY Zenon DEF NewLink!Forms
<1>6. EditLink!Forms(texts) = of(EditLink!MatchTypes, EditLink!UserAgents \cup EditLink!Devices, ShortDomains \cup {""})
  BY Zenon DEF EditLink!Forms
<1> HIDE DEF of
<1> QED
  BY <1>2, <1>3, <1>4, <1>5, <1>6, Zenon

\* A rule of another type, or of another value of its type.
LEMMA RuleEdited ==
    ASSUME NEW r \in Rules
    PROVE  /\ \A type \in NewLink!MatchTypes : NewLink!Retyped(r, type) \in Rules
           /\ \A x \in NewLink!Vocabulary[r.match_type] : [r EXCEPT !.match_value = x] \in Rules
<1>1. ASSUME NEW type \in NewLink!MatchTypes PROVE NewLink!Retyped(r, type) \in Rules
  <2> DEFINE v == IF type = "device" THEN "mobile" ELSE Blank
  <2>1. v \in RuleValues
    BY DEF RuleValues
  <2>2. NewLink!Retyped(r, type) = [r EXCEPT !.match_type = type, !.match_value = v]
    BY Zenon DEF NewLink!Retyped, Blank
  <2> HIDE DEF v
  <2> QED
    BY <2>1, <2>2 DEF Rules, NewLink!MatchTypes
<1>2. ASSUME NEW x \in NewLink!Vocabulary[r.match_type] PROVE [r EXCEPT !.match_value = x] \in Rules
  <2>1. NewLink!Vocabulary = [ua_contains |-> {Blank, "iPhone"}, device |-> {"mobile", "bot"}]
    BY Zenon DEF NewLink!Vocabulary, NewLink!UserAgents, NewLink!Devices, Blank
  <2>2. r.match_type \in {"ua_contains", "device"}
    BY DEF Rules
  <2>3. x \in RuleValues
    BY <2>1, <2>2 DEF RuleValues
  <2> QED
    BY <2>3 DEF Rules
<1> QED
  BY <1>1, <1>2

LEMMA RulesEdited ==
    ASSUME NEW rules \in RuleLists, NEW r \in NewLink!EditedRules(rules) PROVE r \in RuleLists
<1>1. rules \in Seq(Rules) /\ Len(rules) <= RuleCap /\ Len(rules) \in Nat
  BY RuleListIs
<1>2. ASSUME r \in NewLink!AddRules(rules) PROVE r \in RuleLists
  <2>1. r = Append(rules, NewLink!emptyRule) /\ Len(rules) < RuleCap
    BY <1>2 DEF NewLink!AddRules
  <2>2. NewLink!emptyRule \in Rules
    <3>1. NewLink!emptyRule = [match_type |-> "ua_contains", match_value |-> Blank]
      BY Zenon DEF NewLink!emptyRule, Blank
    <3> QED
      BY <3>1 DEF Rules, RuleValues
  <2>3. r \in Seq(Rules) /\ Len(r) = Len(rules) + 1
    BY <1>1, <2>1, <2>2
  <2>4. Len(r) <= RuleCap
    BY <1>1, <2>1, <2>3, ListsAssumption
  <2> QED
    BY <2>3, <2>4, RuleListIs
<1>3. ASSUME r \in NewLink!DeleteRules(rules) PROVE r \in RuleLists
  <2>1. PICK k \in DOMAIN rules : r = Without(rules, k)
    BY <1>3 DEF NewLink!DeleteRules, NewLink!Without, Without
  <2>2. r \in Seq(Rules) /\ Len(r) = Len(rules) - 1
    BY <1>1, <2>1, WithoutOne
  <2>3. Len(r) <= RuleCap
    BY <1>1, <2>2, ListsAssumption
  <2> QED
    BY <2>2, <2>3, RuleListIs
<1>4. ASSUME NEW k \in DOMAIN rules, NEW x \in Rules, r = [rules EXCEPT ![k] = x] PROVE r \in RuleLists
  <2>1. r \in Seq(Rules) /\ Len(r) = Len(rules)
    BY <1>1, <1>4
  <2> QED
    BY <1>1, <2>1, RuleListIs
<1>5. ASSUME r \in NewLink!RetypeRules(rules) PROVE r \in RuleLists
  <2>1. PICK k \in DOMAIN rules, type \in NewLink!MatchTypes : r = [rules EXCEPT ![k] = NewLink!Retyped(@, type)]
    BY <1>5 DEF NewLink!RetypeRules
  <2>2. rules[k] \in Rules
    BY <1>1
  <2>3. NewLink!Retyped(rules[k], type) \in Rules
    BY <2>2, RuleEdited
  <2> QED
    BY <1>4, <2>1, <2>3
<1>6. ASSUME r \in NewLink!RevalueRules(rules) PROVE r \in RuleLists
  <2>1. PICK k \in DOMAIN rules :
            \E x \in NewLink!Vocabulary[rules[k].match_type] : r = [rules EXCEPT ![k].match_value = x]
    BY <1>6, Zenon DEF NewLink!RevalueRules
  <2>2. PICK x \in NewLink!Vocabulary[rules[k].match_type] : r = [rules EXCEPT ![k].match_value = x]
    BY <2>1
  <2>3. rules[k] \in Rules
    BY <1>1
  <2>4. [rules[k] EXCEPT !.match_value = x] \in Rules
    BY <2>3, RuleEdited
  <2>5. r = [rules EXCEPT ![k] = [rules[k] EXCEPT !.match_value = x]]
    BY <2>2
  <2> QED
    BY <1>4, <2>4, <2>5
<1> QED
  BY <1>2, <1>3, <1>5, <1>6 DEF NewLink!EditedRules

\* One change in a form leaves a form, of the texts it was of and those typed.
LEMMA LinkFormEdited ==
    ASSUME NEW texts, NEW typed, typed \subseteq texts, NEW f \in FormsOf(texts),
           NEW domains \in {{}, ShortDomains}, NEW g \in NewLink!Edits(f, typed, domains)
    PROVE  g \in FormsOf(texts)
<1>1. ASSUME NEW x \in texts PROVE [f EXCEPT !.text = x] \in FormsOf(texts)
  BY DEF FormsOf
<1>2. ASSUME NEW d \in ShortDomains \cup {Blank} PROVE [f EXCEPT !.domain = d] \in FormsOf(texts)
  BY DEF FormsOf
<1>3. [f EXCEPT !.on = ~@] \in FormsOf(texts)
  BY DEF FormsOf
<1>4. ASSUME NEW n \in {2, 9} PROVE [f EXCEPT !.seconds = n] \in FormsOf(texts)
  BY DEF FormsOf
<1>5. ASSUME NEW r \in NewLink!EditedRules(f.rules) PROVE [f EXCEPT !.rules = r] \in FormsOf(texts)
  <2>1. f.rules \in RuleLists
    BY DEF FormsOf
  <2>2. r \in RuleLists
    BY <2>1, RulesEdited
  <2> QED
    BY <2>2 DEF FormsOf
<1>6. NewLink!Pickable(domains) \subseteq ShortDomains \cup {Blank}
  BY Zenon DEF NewLink!Pickable, Blank
<1>7. g \in {[f EXCEPT !.text = x] : x \in typed} => g \in FormsOf(texts)
  BY <1>1
<1>8. g \in {[f EXCEPT !.domain = d] : d \in NewLink!Pickable(domains)} => g \in FormsOf(texts)
  BY <1>2, <1>6
<1>9. g \in (IF f.on THEN {[f EXCEPT !.seconds = n] : n \in {2, 9}} ELSE {}) => g \in FormsOf(texts)
  BY <1>4
<1>10. g \in {[f EXCEPT !.rules = r] : r \in NewLink!EditedRules(f.rules)} => g \in FormsOf(texts)
  BY <1>5
<1> DEFINE A == {[f EXCEPT !.text = x] : x \in typed}
           B == {[f EXCEPT !.domain = d] : d \in NewLink!Pickable(domains)}
           C == {[f EXCEPT !.on = ~@]}
           D == IF f.on THEN {[f EXCEPT !.seconds = n] : n \in {2, 9}} ELSE {}
           E == {[f EXCEPT !.rules = r] : r \in NewLink!EditedRules(f.rules)}
<1>11. g \in A \cup B \cup C \cup D \cup E
  BY Zenon DEF NewLink!Edits
<1>12. g \in C => g \in FormsOf(texts)
  BY <1>3, Zenon
<1> HIDE DEF A, B, C, D, E
<1>13. g \in A \/ g \in B \/ g \in C \/ g \in D \/ g \in E
  BY <1>11
<1> QED
  BY <1>7, <1>8, <1>9, <1>10, <1>12, <1>13 DEF A, B, D, E

LEMMA SameEdits == \A f, typed, domains : EditLink!Edits(f, typed, domains) = NewLink!Edits(f, typed, domains)
<1>1. \A domains : EditLink!Pickable(domains) = NewLink!Pickable(domains)
  BY Zenon DEF EditLink!Pickable, NewLink!Pickable
<1>2. EditLink!MatchTypes = NewLink!MatchTypes /\ EditLink!Vocabulary = NewLink!Vocabulary /\ EditLink!emptyRule = NewLink!emptyRule
  BY Zenon DEF EditLink!MatchTypes, NewLink!MatchTypes, EditLink!Vocabulary, NewLink!Vocabulary, EditLink!emptyRule, NewLink!emptyRule,
     EditLink!UserAgents, NewLink!UserAgents, EditLink!Devices, NewLink!Devices
<1>3. \A r, t : EditLink!Retyped(r, t) = NewLink!Retyped(r, t)
  BY Zenon DEF EditLink!Retyped, NewLink!Retyped
<1>4. \A s, k : EditLink!Without(s, k) = NewLink!Without(s, k)
  BY Zenon DEF EditLink!Without, NewLink!Without
<1>5. ASSUME NEW rules PROVE EditLink!EditedRules(rules) = NewLink!EditedRules(rules)
  <2>1. EditLink!AddRules(rules) = NewLink!AddRules(rules)
    BY <1>2, Zenon DEF EditLink!AddRules, NewLink!AddRules
  <2>2. EditLink!DeleteRules(rules) = NewLink!DeleteRules(rules)
    BY <1>4 DEF EditLink!DeleteRules, NewLink!DeleteRules
  <2>3. EditLink!RetypeRules(rules) = NewLink!RetypeRules(rules)
    BY <1>2, <1>3 DEF EditLink!RetypeRules, NewLink!RetypeRules
  <2>4. EditLink!RevalueRules(rules) = NewLink!RevalueRules(rules)
    BY <1>2 DEF EditLink!RevalueRules, NewLink!RevalueRules
  <2> QED
    BY <2>1, <2>2, <2>3, <2>4, Zenon DEF EditLink!EditedRules, NewLink!EditedRules
<1> QED
  BY <1>1, <1>5 DEF EditLink!Edits, NewLink!Edits

\* What is sent of a form.
LEMMA LinkSent ==
    ASSUME NEW texts, NEW f \in FormsOf(texts)
    PROVE  /\ NewLink!LinkOf(f) \in LinksOf(texts) /\ EditLink!LinkOf(f) = NewLink!LinkOf(f)
           /\ NewLink!LinkOf(f).text = f.text
<1>1. NewLink!Sent(f) \in {0, 2, 9} /\ EditLink!Sent(f) = NewLink!Sent(f)
  BY DEF NewLink!Sent, EditLink!Sent, FormsOf
<1> QED
  BY <1>1 DEF NewLink!LinkOf, EditLink!LinkOf, LinksOf, FormsOf

-----------------------------------------------------------------------------
LEMMA SeqUp == ASSUME NEW S, NEW T, S \subseteq T, NEW s \in Seq(S) PROVE s \in Seq(T)
OBVIOUS

\* What may be answered with one thing may be answered with it among others.
LEMMA CallsUp ==
    ASSUME NEW op, NEW args, NEW thens, NEW data, NEW more, data \subseteq more
    PROVE  CallsOf(op, args, thens, Answered(data)) \subseteq CallsOf(op, args, thens, Answered(more))
<1>1. Answered(data) \subseteq Answered(more)
  BY DEF Answered
<1> HIDE DEF Answered
<1>2. Served(op, args, thens, Answered(data)) \subseteq Served(op, args, thens, Answered(more))
  BY <1>1 DEF Served
<1> QED
  BY <1>2, Zenon DEF CallsOf

(* The form for a new link: what it shows as created is among the links     *)
(* there are, since the answers on their way are of such.                   *)
NewLinkUi ==
    [form : FormsOf(NewTexts), domains : {{}, ShortDomains}, error : BOOLEAN, loading : BOOLEAN,
     created : LinksOf(NewTexts)]
ConfigCalls == CallsOf("config", {[n |-> 0]}, {NewLink!Effect}, Answered({}))
NewCalls(made) == CallsOf("create", LinksOf(NewTexts), {NewLink!Effect}, Answered(made))
NewLinkCalls(made) == ConfigCalls \cup NewCalls(made)
NewLinkInv ==
    /\ ui \in NewLinkUi /\ ui.created \in db \cup {NewLink!NoLink}
    /\ db \subseteq LinksOf(NewTexts) /\ calls \in Seq(NewLinkCalls(db))

LEMMA NewLinkKinds ==
    ASSUME NEW made, NEW c \in NewLinkCalls(made)
    PROVE  /\ c.op = "create" => c \in NewCalls(made)
           /\ c.op = "config" => c \in ConfigCalls
BY CallHas DEF NewLinkCalls, ConfigCalls, NewCalls

LEMMA NewLinkBlank == NewLink!NoLink \in LinksOf(NewTexts) /\ NewLink!EmptyForm \in FormsOf(NewTexts)
<1>1. /\ NewLink!NoLink = [text |-> Blank, domain |-> Blank, seconds |-> 0, rules |-> <<>>]
      /\ NewLink!EmptyForm = [text |-> Blank, domain |-> Blank, on |-> TRUE, seconds |-> 2, rules |-> <<>>]
      /\ Blank \in NewTexts
  BY MountedAssumption, Zenon DEF NewLink!NoLink, NewLink!EmptyForm, Blank
<1>2. <<>> \in RuleLists
  BY NoRules
<1> QED
  BY <1>1, <1>2 DEF LinksOf, FormsOf

LEMMA ConfigSent == ASSUME NEW made PROVE NewLink!Get("config", NewLink!Effect) \in NewLinkCalls(made)
<1>1. NewLink!Get("config", NewLink!Effect) \in ConfigCalls
  BY CallSent DEF NewLink!Get, NewLink!Call, NewLink!Refused, ConfigCalls
<1> QED
  BY <1>1 DEF NewLinkCalls

LEMMA NewLinkInit == ASSUME NewLink!Init PROVE NewLinkInv
<1>1. db = {} /\ ui = NewLink!Mounted /\ calls = <<NewLink!Get("config", NewLink!Effect)>>
  BY DEF NewLink!Init
<1>2. calls \in Seq(NewLinkCalls(db))
  BY <1>1, ConfigSent
<1>3. ui \in NewLinkUi /\ ui.created = NewLink!NoLink
  BY <1>1, NewLinkBlank DEF NewLink!Mounted, NewLinkUi
<1> QED
  BY <1>1, <1>2, <1>3 DEF NewLinkInv

LEMMA NewLinkServe == ASSUME NewLinkInv, NEW i \in DOMAIN calls, NewLink!Serve(i) PROVE NewLinkInv'
<1> DEFINE c == calls[i]
<1>1. /\ calls \in Seq(NewLinkCalls(db)) /\ c \in NewLinkCalls(db) /\ ui' = ui /\ ui \in NewLinkUi
      /\ ui.created \in db \cup {NewLink!NoLink} /\ db \subseteq LinksOf(NewTexts)
  BY DEF NewLinkInv, NewLink!Serve
<1>2. c \in NewCalls(db)
  BY <1>1, NewLinkKinds DEF NewLink!Serve
<1>3. c.arg \in LinksOf(NewTexts)
  BY <1>2, CallHas, Zenon DEF NewCalls
<1>4. PICK res : /\ calls' = NewLink!Served(i, res) /\ db \subseteq db' /\ db' \subseteq db \cup {c.arg}
                 /\ (res = NewLink!Ok(c.arg) /\ c.arg \in db') \/ res = NewLink!Refused("refused")
  BY DEF NewLink!Serve
<1>5. res \in Answered(db')
  BY <1>4, AnswerIs DEF NewLink!Ok, NewLink!Refused, Codes
<1>6. calls' = Answer(calls, i, res)
  BY <1>4, Zenon DEF NewLink!Served, Answer
<1>7. NewCalls(db) \subseteq NewCalls(db') /\ NewLinkCalls(db) \subseteq NewLinkCalls(db')
  BY <1>4, CallsUp DEF NewCalls, NewLinkCalls
<1> HIDE DEF c
<1>8. calls \in Seq(NewLinkCalls(db')) /\ c \in NewCalls(db') /\ NewCalls(db') \subseteq NewLinkCalls(db')
  BY <1>1, <1>2, <1>7, SeqUp DEF NewLinkCalls
<1>9. calls' \in Seq(NewLinkCalls(db'))
  BY <1>5, <1>6, <1>8, ServeKeeps DEF NewCalls, c
<1> QED
  BY <1>1, <1>3, <1>4, <1>9 DEF NewLinkInv

\* A sequence without one element or none.
LEMMA DropTyped ==
    ASSUME NEW S, NEW s \in Seq(S), NEW K \in SUBSET DOMAIN s PROVE NewLink!Drop(s, K) \in Seq(S)
<1>1. CASE K = {}
  BY <1>1 DEF NewLink!Drop
<1>2. CASE K # {}
  <2>1. NewLink!Drop(s, K) = Without(s, CHOOSE k \in K : TRUE)
    BY <1>2 DEF NewLink!Drop, NewLink!Without, Without
  <2>2. PICK k \in K : k = (CHOOSE l \in K : TRUE)
    BY <1>2
  <2> QED
    BY <2>1, <2>2, WithoutOne
<1> QED
  BY <1>1, <1>2

LEMMA NewLinkDeliver == ASSUME NewLinkInv, NEW i \in DOMAIN calls, NewLink!Deliver(i) PROVE NewLinkInv'
<1> DEFINE rest == NewLink!Rest(i)
<1>1. /\ calls \in Seq(NewLinkCalls(db)) /\ calls[i] \in NewLinkCalls(db) /\ db' = db /\ ui \in NewLinkUi
      /\ ui.created \in db \cup {NewLink!NoLink} /\ db \subseteq LinksOf(NewTexts)
  BY DEF NewLinkInv, NewLink!Deliver
<1>2. rest \in Seq(NewLinkCalls(db))
  BY <1>1, WithoutOne DEF NewLink!Rest, NewLink!Without, Without
<1> HIDE DEF rest
<1>3. CASE NewLink!DeliverConfig(i)
  <2>1. PICK domains \in {{}, ShortDomains} : ui' = [ui EXCEPT !.domains = domains] /\ calls' = rest
    BY <1>3 DEF NewLink!DeliverConfig, NewLink!Show, rest
  <2>2. ui' \in NewLinkUi /\ ui'.created = ui.created
    BY <1>1, <2>1 DEF NewLinkUi
  <2> QED
    BY <1>1, <1>2, <2>1, <2>2 DEF NewLinkInv
<1>4. CASE NewLink!DeliverCreate(i)
  <2> DEFINE K == {k \in DOMAIN rest : rest[k].op = "config"}
  <2>1. calls[i] \in NewCalls(db)
    BY <1>1, <1>4, NewLinkKinds DEF NewLink!DeliverCreate
  <2>2. PICK a \in NewLink!Answers(i) :
            NewLink!Show(IF a.ok THEN [u |-> [ui EXCEPT !.created = a.data, !.loading = FALSE, !.domains = {}],
                                       cs |-> NewLink!Drop(rest, K)]
                         ELSE [u |-> [ui EXCEPT !.error = TRUE, !.loading = FALSE], cs |-> rest])
    BY <1>4 DEF NewLink!DeliverCreate, rest
  <2>3. a.ok \in BOOLEAN /\ (a.ok = TRUE => a.data \in db)
    BY <2>1, <2>2, HandedOver, Zenon DEF NewCalls, NewLink!Answers, NewLink!NetworkError, NewLink!Refused
  <2>4. \/ /\ a.ok = TRUE /\ ui' = [ui EXCEPT !.created = a.data, !.loading = FALSE, !.domains = {}]
           /\ calls' = NewLink!Drop(rest, K)
        \/ ui' = [ui EXCEPT !.error = TRUE, !.loading = FALSE] /\ calls' = rest
    BY <2>2, <2>3 DEF NewLink!Show
  <2>5. NewLink!Drop(rest, K) \in Seq(NewLinkCalls(db))
    BY <1>2, DropTyped
  <2> HIDE DEF K
  <2>6. calls' \in Seq(NewLinkCalls(db))
    BY <1>2, <2>4, <2>5
  <2>7. ui' \in NewLinkUi /\ ui'.created \in db \cup {NewLink!NoLink}
    BY <1>1, <2>3, <2>4 DEF NewLinkUi
  <2> QED
    BY <1>1, <2>6, <2>7 DEF NewLinkInv
<1> QED
  BY <1>3, <1>4 DEF NewLink!Deliver

LEMMA NewLinkClick == ASSUME NewLinkInv, NewLink!Click PROVE NewLinkInv'
<1>1. /\ calls \in Seq(NewLinkCalls(db)) /\ db' = db /\ ui \in NewLinkUi
      /\ ui.created \in db \cup {NewLink!NoLink} /\ db \subseteq LinksOf(NewTexts)
      /\ ui.form \in FormsOf(NewTexts) /\ ui.domains \in {{}, ShortDomains}
  BY DEF NewLinkInv, NewLink!Click, NewLinkUi
<1>2. ASSUME NewLink!Edit PROVE NewLinkInv'
  <2>1. PICK f \in NewLink!Edits(ui.form, NewTexts, ui.domains) : ui' = [ui EXCEPT !.form = f] /\ calls' = calls
    BY <1>2 DEF NewLink!Edit, NewLink!Set
  <2>2. f \in FormsOf(NewTexts)
    BY <1>1, <2>1, LinkFormEdited
  <2>3. ui' \in NewLinkUi /\ ui'.created = ui.created
    BY <1>1, <2>1, <2>2 DEF NewLinkUi
  <2> QED
    BY <1>1, <2>1, <2>3 DEF NewLinkInv
<1>3. ASSUME NewLink!Submit PROVE NewLinkInv'
  <2> DEFINE arg == NewLink!LinkOf(ui.form)
             call == NewLink!Call("create", arg, NewLink!Effect)
  <2>1. ui' = [ui EXCEPT !.loading = TRUE, !.error = FALSE] /\ calls' = Append(calls, call)
    BY <1>3 DEF NewLink!Submit, NewLink!Send
  <2>2. arg \in LinksOf(NewTexts)
    BY <1>1, LinkSent
  <2> HIDE DEF arg
  <2>3. call \in NewCalls(db)
    BY <2>2, CallSent DEF NewLink!Call, NewLink!Refused, NewCalls
  <2> HIDE DEF call
  <2>4. calls' \in Seq(NewLinkCalls(db))
    BY <1>1, <2>1, <2>3 DEF NewLinkCalls
  <2>5. ui' \in NewLinkUi /\ ui'.created = ui.created
    BY <1>1, <2>1 DEF NewLinkUi
  <2> QED
    BY <1>1, <2>4, <2>5 DEF NewLinkInv
<1>4. ASSUME NewLink!StartAnother PROVE NewLinkInv'
  <2>1. /\ ui' = [ui EXCEPT !.form = NewLink!EmptyForm, !.error = FALSE, !.created = NewLink!NoLink]
        /\ calls' = Append(calls, NewLink!Get("config", NewLink!Effect))
    BY <1>4 DEF NewLink!StartAnother, NewLink!Send
  <2>2. calls' \in Seq(NewLinkCalls(db))
    BY <1>1, <2>1, ConfigSent
  <2>3. ui' \in NewLinkUi /\ ui'.created = NewLink!NoLink
    BY <1>1, <2>1, NewLinkBlank DEF NewLinkUi
  <2> QED
    BY <1>1, <2>2, <2>3 DEF NewLinkInv
<1> QED
  BY <1>2, <1>3, <1>4 DEF NewLink!Click

LEMMA NewLinkNext == ASSUME NewLinkInv, NewLink!Next \/ Still PROVE NewLinkInv'
<1>1. ASSUME Still PROVE NewLinkInv'
  BY <1>1 DEF NewLinkInv, Still
<1> QED
  BY <1>1, NewLinkServe, NewLinkDeliver, NewLinkClick DEF NewLink!Next

LEMMA NewLinkTyped == ASSUME NewLinkInv PROVE NewLink!TypeOK
<1>1. ui \in NewLinkUi /\ ui.created \in db \cup {NewLink!NoLink}
  BY DEF NewLinkInv
<1>2. ui.form \in NewLink!Forms(NewTexts)
  BY <1>1, SameForms DEF NewLinkUi
<1>3. ui.domains \in {{}, ShortDomains} /\ {ui.error, ui.loading} \subseteq BOOLEAN
  BY <1>1 DEF NewLinkUi
<1> QED
  BY <1>1, <1>2, <1>3 DEF NewLink!TypeOK
=============================================================================
