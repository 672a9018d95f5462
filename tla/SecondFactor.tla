----------------------------- MODULE SecondFactor -----------------------------
(***************************************************************************)
(* The built-in second factor: sign-in with a challenge, enrolment, and    *)
(* the ways out of it, by concurrent requests of the API.                  *)
(*                                                                         *)
(* Each step is one statement against PostgreSQL, or one transaction: those*)
(* of enrolment begin by updating the account's row, whose lock puts them  *)
(* in an order.  Between steps a request holds what it has read.  A TOTP   *)
(* code is represented by the secret it was computed from; deriving and    *)
(* checking codes, sealing and hashing are abstracted to that.             *)
(***************************************************************************)
EXTENDS Integers, FiniteSets, TLC

CONSTANTS
    Users,    \* accounts
    Tokens,   \* challenges
    Secrets,  \* TOTP secrets, random and so never drawn twice
    Batches,  \* sets of recovery codes, one for each confirmation
    Procs,    \* request goroutines
    Limit,    \* mfaAttemptLimit
    Wrong,    \* a code that nobody was given
    None      \* NULL; no request

Codes == UNION Batches

ASSUME FactorAssumption ==
    /\ Limit \in Nat
    /\ IsFiniteSet(Procs)
    /\ {} \notin Batches
    /\ \A b, c \in Batches : b # c => b \cap c = {}
    /\ Secrets \cap Codes = {}
    /\ Wrong \notin Secrets \cup Codes
    /\ None \notin Users \cup Tokens \cup Secrets \cup Codes \cup {Wrong}
    /\ None \notin [user: Users, secret: Secrets]

\* For the model checker: what may change names.
Symmetry == Permutations(Procs) \cup Permutations(Secrets)

VARIABLES
    enabled,    \* accounts not disabled
    secret,     \* admin_users.totp_secret
    confirmed,  \* admin_users.totp_confirmed_at
    codes,      \* mfa_recovery_codes
    holder,     \* whose challenge it is
    attempts,   \* mfa_challenges.attempts
    state,      \* whether it may be claimed
    pc,         \* how far each request has got
    who,        \* the account it is about
    token,      \* the challenge it answers
    code,       \* the code it presents
    drawn,      \* ghost: the secrets handed out
    issued,     \* ghost: the account and secret a batch was issued for
    proved,     \* ghost: secrets an account has produced a code of to Confirm
    looks,      \* ghost: codes looked at for a challenge
    spent,      \* ghost: times a recovery code was accepted
    minted      \* ghost: sessions a challenge has led to

factors    == <<secret, confirmed, codes, drawn, issued>>
challenges == <<holder, attempts, state>>
requests   == <<pc, who, token, code>>
tallies    == <<looks, spent, minted>>
vars == <<enabled, factors, challenges, requests, proved, tallies>>

Stages == {"idle", "decide", "challenge", "claimed", "spend", "accepted",
           "identify", "mint", "enroll", "confirm", "install", "disable", "check", "clear"}

Enrolled(u) == confirmed[u] /\ secret[u] # None

\* The account a recovery code was issued to: mfa_recovery_codes.user_id.
BatchOf(c) == CHOOSE b \in Batches : c \in b
OwnerOf(c) == issued[BatchOf(c)].user
Present(u) == {c \in Codes : codes[c] # "absent" /\ OwnerOf(c) = u}

TypeOK ==
    /\ enabled \subseteq Users
    /\ secret \in [Users -> Secrets \cup {None}] /\ confirmed \in [Users -> BOOLEAN]
    /\ codes \in [Codes -> {"absent", "unused", "used"}]
    /\ holder \in [Tokens -> Users \cup {None}]
    /\ attempts \in [Tokens -> 0..Limit]
    /\ state \in [Tokens -> {"new", "open", "consumed", "expired"}]
    /\ pc \in [Procs -> Stages]
    /\ who \in [Procs -> Users \cup {None}]
    /\ token \in [Procs -> Tokens \cup {None}]
    /\ code \in [Procs -> Secrets \cup Codes \cup {Wrong, None}]
    /\ drawn \subseteq Secrets
    /\ issued \in [Batches -> [user: Users, secret: Secrets] \cup {None}]
    /\ proved \subseteq Users \X Secrets
    /\ looks \in [Tokens -> Nat] /\ spent \in [Codes -> Nat] /\ minted \in [Tokens -> Nat]

Init ==
    /\ enabled = Users
    /\ secret = [u \in Users |-> None] /\ confirmed = [u \in Users |-> FALSE]
    /\ codes = [c \in Codes |-> "absent"]
    /\ holder = [t \in Tokens |-> None] /\ attempts = [t \in Tokens |-> 0]
    /\ state = [t \in Tokens |-> "new"]
    /\ pc = [p \in Procs |-> "idle"] /\ who = [p \in Procs |-> None]
    /\ token = [p \in Procs |-> None] /\ code = [p \in Procs |-> None]
    /\ drawn = {} /\ issued = [b \in Batches |-> None] /\ proved = {}
    /\ looks = [t \in Tokens |-> 0] /\ spent = [c \in Codes |-> 0]
    /\ minted = [t \in Tokens |-> 0]

-----------------------------------------------------------------------------
(* Requests                                                                *)

Begin(p, stage, u, t, x) ==
    /\ pc[p] = "idle"
    /\ pc' = [pc EXCEPT ![p] = stage]
    /\ who' = [who EXCEPT ![p] = u]
    /\ token' = [token EXCEPT ![p] = t]
    /\ code' = [code EXCEPT ![p] = x]

Goto(p, from, to) ==
    /\ pc[p] = from
    /\ pc' = [pc EXCEPT ![p] = to]
    /\ UNCHANGED <<who, token, code>>

End(p) ==
    /\ pc'    = [pc EXCEPT ![p] = "idle"]
    /\ who'   = [who EXCEPT ![p] = None]
    /\ token' = [token EXCEPT ![p] = None]
    /\ code'  = [code EXCEPT ![p] = None]

\* What a client can present: a code of a secret that was handed out, a
\* recovery code that was, or a guess.
Presentable == drawn \cup UNION {b \in Batches : issued[b] # None} \cup {Wrong}

\* A refusal, a failed statement, a cancelled request, or a crash.
Fail(p) ==
    /\ pc[p] # "idle" /\ End(p)
    /\ UNCHANGED <<enabled, factors, challenges, proved, tallies>>

-----------------------------------------------------------------------------
(* Login and CompleteLogin                                                 *)

\* FindUser, the password, and the switch, which may be on or off at any time.
Login(p, u) ==
    /\ u \in enabled
    /\ \E stage \in {"decide", "mint"} : Begin(p, stage, u, None, None)
    /\ UNCHANGED <<enabled, factors, challenges, proved, tallies>>

Decide(p) ==
    /\ Goto(p, "decide", IF Enrolled(who[p]) THEN "challenge" ELSE "mint")
    /\ UNCHANGED <<enabled, factors, challenges, proved, tallies>>

\* The sweep of expired challenges, which nobody can tell from expired ones,
\* and the INSERT.
CreateChallenge(p, t) ==
    /\ pc[p] = "challenge" /\ state[t] = "new"
    /\ holder' = [holder EXCEPT ![t] = who[p]]
    /\ state'  = [state EXCEPT ![t] = "open"]
    /\ End(p)
    /\ UNCHANGED <<enabled, factors, attempts, proved, tallies>>

-----------------------------------------------------------------------------
(* VerifySecondFactor                                                      *)

\* Mutant of Claim: the attempt is spent only by the answer that is accepted.
ClaimFree(p, t, x) ==
    /\ state[t] = "open" /\ attempts[t] < Limit
    /\ x \in Presentable
    /\ Begin(p, "claimed", holder[t], t, x)
    /\ looks' = [looks EXCEPT ![t] = @ + 1]
    /\ UNCHANGED <<enabled, factors, challenges, proved, spent, minted>>

Claim(p, t, x) ==
    /\ state[t] = "open" /\ attempts[t] < Limit
    /\ x \in Presentable
    /\ attempts' = [attempts EXCEPT ![t] = @ + 1]
    /\ Begin(p, "claimed", holder[t], t, x)
    /\ looks' = [looks EXCEPT ![t] = @ + 1]
    /\ UNCHANGED <<enabled, factors, holder, state, proved, spent, minted>>

\* GetMFAState, then the TOTP code, then what could be a recovery code.
ReadFactor(p) ==
    /\ Goto(p, "claimed", IF code[p] = secret[who[p]] THEN "accepted" ELSE "spend")
    /\ Enrolled(who[p])
    /\ UNCHANGED <<enabled, factors, challenges, proved, tallies>>

\* Mutant of SpendRecoveryCode: no "used_at IS NULL".
SpendTwice(p) ==
    /\ Goto(p, "spend", "accepted")
    /\ code[p] \in Codes /\ codes[code[p]] # "absent" /\ OwnerOf(code[p]) = who[p]
    /\ codes' = [codes EXCEPT ![code[p]] = "used"]
    /\ spent' = [spent EXCEPT ![code[p]] = @ + 1]
    /\ UNCHANGED <<enabled, secret, confirmed, drawn, issued, challenges, proved, looks, minted>>

SpendRecoveryCode(p) ==
    /\ Goto(p, "spend", "accepted")
    /\ code[p] \in Codes /\ codes[code[p]] = "unused" /\ OwnerOf(code[p]) = who[p]
    /\ codes' = [codes EXCEPT ![code[p]] = "used"]
    /\ spent' = [spent EXCEPT ![code[p]] = @ + 1]
    /\ UNCHANGED <<enabled, secret, confirmed, drawn, issued, challenges, proved, looks, minted>>

\* Whether a row was updated is not looked at.
Consume(p) ==
    /\ Goto(p, "accepted", "identify")
    /\ state' = [state EXCEPT ![token[p]] = IF @ = "open" THEN "consumed" ELSE @]
    /\ UNCHANGED <<enabled, factors, holder, attempts, proved, tallies>>

Identify(p) ==
    /\ Goto(p, "identify", "mint")
    /\ who[p] \in enabled
    /\ UNCHANGED <<enabled, factors, challenges, proved, tallies>>

CreateSession(p) ==
    /\ pc[p] = "mint" /\ End(p)
    /\ minted' = [t \in Tokens |-> IF t = token[p] THEN minted[t] + 1 ELSE minted[t]]
    /\ UNCHANGED <<enabled, factors, challenges, proved, looks, spent>>

Expire(t) ==
    /\ state[t] = "open"
    /\ state' = [state EXCEPT ![t] = "expired"]
    /\ UNCHANGED <<enabled, factors, holder, attempts, requests, proved, tallies>>

-----------------------------------------------------------------------------
(* TwoFactorService: Enroll, Confirm, Disable and Reset                    *)

Absent(gone) == [c \in Codes |-> IF c \in gone THEN "absent" ELSE codes[c]]

\* A signed-in account asks for one of them, with the switch on.
Ask(p, u, stage, x) ==
    /\ stage = "enroll" \/ x \in Presentable
    /\ Begin(p, stage, u, None, IF stage = "enroll" THEN None ELSE x)
    /\ UNCHANGED <<enabled, factors, challenges, proved, tallies>>

Enroll(p, s) ==
    /\ pc[p] = "enroll" /\ s \notin drawn
    /\ secret' = [secret EXCEPT ![who[p]] = s]
    /\ confirmed' = [confirmed EXCEPT ![who[p]] = FALSE]
    /\ codes' = Absent(Present(who[p]))
    /\ drawn' = drawn \cup {s}
    /\ End(p)
    /\ UNCHANGED <<enabled, issued, challenges, proved, tallies>>

\* GetMFAState and the code: whether the account is confirmed is not asked.
ConfirmRead(p) ==
    /\ Goto(p, "confirm", "install")
    /\ secret[who[p]] # None /\ code[p] = secret[who[p]]
    /\ proved' = proved \cup {<<who[p], secret[who[p]]>>}
    /\ UNCHANGED <<enabled, factors, challenges, tallies>>

\* Mutant of ConfirmTOTP: the former codes stay.
ConfirmAdding(p, b) ==
    /\ pc[p] = "install" /\ secret[who[p]] # None /\ issued[b] = None
    /\ confirmed' = [confirmed EXCEPT ![who[p]] = TRUE]
    /\ issued' = [issued EXCEPT ![b] = [user |-> who[p], secret |-> secret[who[p]]]]
    /\ codes' = [c \in Codes |-> IF c \in b THEN "unused" ELSE codes[c]]
    /\ End(p)
    /\ UNCHANGED <<enabled, secret, drawn, challenges, proved, tallies>>

\* Mutant of ConfirmTOTP: no "totp_secret IS NOT NULL".
ConfirmAnyRow(p, b) ==
    /\ pc[p] = "install" /\ issued[b] = None
    /\ confirmed' = [confirmed EXCEPT ![who[p]] = TRUE]
    /\ issued' = [issued EXCEPT ![b] = [user |-> who[p], secret |-> secret[who[p]]]]
    /\ codes' = [c \in Codes |-> IF c \in b THEN "unused" ELSE Absent(Present(who[p]))[c]]
    /\ End(p)
    /\ UNCHANGED <<enabled, secret, drawn, challenges, proved, tallies>>

\* The secret confirmed is the one stored by now.
ConfirmTOTP(p, b) ==
    /\ pc[p] = "install" /\ secret[who[p]] # None /\ issued[b] = None
    /\ confirmed' = [confirmed EXCEPT ![who[p]] = TRUE]
    /\ issued' = [issued EXCEPT ![b] = [user |-> who[p], secret |-> secret[who[p]]]]
    /\ codes' = [c \in Codes |-> IF c \in b THEN "unused" ELSE Absent(Present(who[p]))[c]]
    /\ End(p)
    /\ UNCHANGED <<enabled, secret, drawn, challenges, proved, tallies>>

ClearTOTP(u) ==
    /\ secret' = [secret EXCEPT ![u] = None]
    /\ confirmed' = [confirmed EXCEPT ![u] = FALSE]
    /\ codes' = Absent(Present(u))
    /\ UNCHANGED <<drawn, issued>>

\* Disable: the account and its password, the factor and the code, the clearing.
DisableFind(p) ==
    /\ Goto(p, "disable", "check")
    /\ who[p] \in enabled
    /\ UNCHANGED <<enabled, factors, challenges, proved, tallies>>

DisableRead(p) ==
    /\ Goto(p, "check", "clear")
    /\ Enrolled(who[p]) /\ code[p] = secret[who[p]]
    /\ UNCHANGED <<enabled, factors, challenges, proved, tallies>>

DisableClear(p) ==
    /\ pc[p] = "clear" /\ ClearTOTP(who[p]) /\ End(p)
    /\ UNCHANGED <<enabled, challenges, proved, tallies>>

\* An administrator's reset, whatever the switch says.
Reset(u) ==
    /\ ClearTOTP(u)
    /\ UNCHANGED <<enabled, challenges, requests, proved, tallies>>

-----------------------------------------------------------------------------
\* An administrator edits an account.
SetEnabled(u) ==
    /\ enabled' \in {enabled \cup {u}, enabled \ {u}}
    /\ UNCHANGED <<factors, challenges, requests, proved, tallies>>

SignIn(p) ==
    \/ \E u \in Users : Login(p, u)
    \/ Decide(p)
    \/ \E t \in Tokens : CreateChallenge(p, t)

Verify(p) ==
    \/ \E t \in Tokens, x \in Secrets \cup Codes \cup {Wrong} : Claim(p, t, x)
    \/ ReadFactor(p) \/ SpendRecoveryCode(p) \/ Consume(p) \/ Identify(p) \/ CreateSession(p)

Manage(p) ==
    \/ \E u \in Users, stage \in {"enroll", "confirm", "disable"},
          x \in Secrets \cup Codes \cup {Wrong} : Ask(p, u, stage, x)
    \/ \E s \in Secrets : Enroll(p, s)
    \/ ConfirmRead(p) \/ \E b \in Batches : ConfirmTOTP(p, b)
    \/ DisableFind(p) \/ DisableRead(p) \/ DisableClear(p)

Next ==
    \/ \E p \in Procs : SignIn(p) \/ Verify(p) \/ Manage(p) \/ Fail(p)
    \/ \E u \in Users : Reset(u) \/ SetEnabled(u)
    \/ \E t \in Tokens : Expire(t)

Spec == Init /\ [][Next]_vars

-----------------------------------------------------------------------------
(* Properties                                                              *)

\* However many requests answer a challenge at once, no more than Limit codes
\* are looked at for it, nor more sessions minted ("the real brute-force bound").
GuessesBounded == \A t \in Tokens : looks[t] <= Limit /\ minted[t] <= looks[t]

\* No recovery code is accepted twice ("two simultaneous submissions of the same
\* code cannot both succeed").
SpentOnce == \A c \in Codes : spent[c] <= 1

\* The recovery codes an account has are those of one confirmation of the secret
\* it has now, and it has none without ("a confirmed account with no recovery
\* codes is a trap", and no code outlives its secret).
CodesMatchSecret == \A u \in Users :
    IF Enrolled(u)
    THEN \E b \in Batches : issued[b] = [user |-> u, secret |-> secret[u]] /\ Present(u) = b
    ELSE Present(u) = {} /\ ~confirmed[u]

\* The inductive invariant.  A request at work on a challenge is its holder's ...
Answering(t) == {p \in Procs : token[p] = t}
Working == \A p \in Procs :
    /\ pc[p] = "idle" <=> who[p] = None
    /\ pc[p] = "idle" => token[p] = None
    /\ pc[p] \in {"claimed", "spend", "accepted", "identify"} => token[p] # None
    /\ token[p] # None => who[p] = holder[token[p]]

\* ... every code looked at was paid for, and is being looked at, was refused, or
\* has led to a session ...
Paid == \A t \in Tokens :
    /\ looks[t] = attempts[t]
    /\ minted[t] + Cardinality(Answering(t)) <= looks[t]
    /\ (state[t] = "new" <=> holder[t] = None)

\* ... and a code that has been accepted never comes back.
Spent == \A b \in Batches : \A c \in b :
    /\ issued[b] = None => codes[c] = "absent" /\ spent[c] = 0
    /\ codes[c] = "unused" => spent[c] = 0

IInv == TypeOK /\ Working /\ Paid /\ Spent /\ SpentOnce /\ CodesMatchSecret

\* VerifySecondFactor's comment: the challenge is retired "so the same challenge
\* cannot mint a second one".
MintsOnce == \A t \in Tokens : minted[t] <= 1

\* Migration 000010: the confirmation is unset "until the operator has proved
\* they can produce a code from it".
ConfirmedIsProved == \A u \in Users : Enrolled(u) => <<u, secret[u]>> \in proved
=============================================================================
