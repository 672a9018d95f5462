------------------------- MODULE SecondFactor_proofs -------------------------
(***************************************************************************)
(* Proofs about SecondFactor: type correctness, that guesses and sessions  *)
(* of a challenge are bounded, that a recovery code is accepted once, and  *)
(* that an account's recovery codes are those of its secret.               *)
(***************************************************************************)
EXTENDS SecondFactor, FiniteSetTheorems, TLAPS

Inputs == Secrets \cup Codes \cup {Wrong}

ReqType ==
    /\ pc \in [Procs -> Stages]
    /\ who \in [Procs -> Users \cup {None}]
    /\ token \in [Procs -> Tokens \cup {None}]
    /\ code \in [Procs -> Secrets \cup Codes \cup {Wrong, None}]

LEMMA BatchOfCode == ASSUME NEW b \in Batches, NEW c \in b PROVE BatchOf(c) = b /\ c \in Codes
BY FactorAssumption DEF BatchOf, Codes

LEMMA EveryCode == ASSUME NEW c \in Codes PROVE BatchOf(c) \in Batches /\ c \in BatchOf(c)
<1>1. PICK b \in Batches : c \in b
    BY DEF Codes
<1> QED BY <1>1, BatchOfCode

LEMMA BeginType ==
    ASSUME ReqType, NEW p \in Procs, NEW stage \in Stages, NEW u \in Users,
           NEW t \in Tokens \cup {None}, NEW x \in Inputs \cup {None}, Begin(p, stage, u, t, x)
    PROVE  ReqType'
BY DEF ReqType, Begin, Inputs

LEMMA GotoType ==
    ASSUME ReqType, NEW p \in Procs, NEW from, NEW to \in Stages, Goto(p, from, to)
    PROVE  ReqType'
BY DEF ReqType, Goto

LEMMA EndType == ASSUME ReqType, NEW p \in Procs, End(p) PROVE ReqType'
BY DEF ReqType, End, Stages

LEMMA AbsentType ==
    ASSUME TypeOK, NEW gone
    PROVE  Absent(gone) \in [Codes -> {"absent", "unused", "used"}]
BY DEF TypeOK, Absent

\* A request at work is about an account, and has its challenge's.
LEMMA AtWork ==
    ASSUME TypeOK, Working, NEW p \in Procs, pc[p] # "idle"
    PROVE  who[p] \in Users
BY DEF TypeOK, Working

-----------------------------------------------------------------------------
LEMMA InitIInv == Init => IInv
<1> SUFFICES ASSUME Init PROVE IInv
    OBVIOUS
<1>1. TypeOK
    BY FactorAssumption DEF Init, TypeOK, Stages
<1>2. Working
    BY DEF Init, Working
<1>3. Paid
    <2> SUFFICES ASSUME NEW t \in Tokens
                 PROVE  /\ looks[t] = attempts[t]
                        /\ minted[t] + Cardinality(Answering(t)) <= looks[t]
                        /\ (state[t] = "new" <=> holder[t] = None)
        BY DEF Paid
    <2>1. Answering(t) = {}
        BY FactorAssumption DEF Init, Answering
    <2> QED BY <2>1, FS_EmptySet DEF Init
<1>4. Spent /\ SpentOnce
    BY BatchOfCode DEF Init, Spent, SpentOnce
<1>5. CodesMatchSecret
    BY DEF Init, CodesMatchSecret, Enrolled, Present
<1> QED BY <1>1, <1>2, <1>3, <1>4, <1>5 DEF IInv

-----------------------------------------------------------------------------
LEMMA StepType == IInv /\ [Next]_vars => TypeOK'
<1> SUFFICES ASSUME IInv, [Next]_vars PROVE TypeOK'
    OBVIOUS
<1>1. TypeOK /\ Working /\ Paid /\ ReqType
    BY DEF IInv, TypeOK, ReqType
<1>2. ASSUME ReqType', UNCHANGED <<enabled, factors, challenges, proved, tallies>> PROVE TypeOK'
    BY <1>1, <1>2 DEF TypeOK, ReqType, factors, challenges, tallies
<1>3. ASSUME NEW p \in Procs, Fail(p) PROVE TypeOK'
    BY <1>1, <1>2, <1>3, EndType DEF Fail
<1>4. ASSUME NEW p \in Procs, NEW u \in Users, Login(p, u) PROVE TypeOK'
    <2>1. PICK stage \in {"decide", "mint"} : Begin(p, stage, u, None, None)
        BY <1>4 DEF Login
    <2>2. ReqType'
        BY <1>1, <2>1, BeginType DEF Stages
    <2> QED BY <1>2, <1>4, <2>2 DEF Login
<1>5. ASSUME NEW p \in Procs, Decide(p) \/ ReadFactor(p) \/ Identify(p) \/ DisableFind(p)
                               \/ DisableRead(p)
      PROVE  TypeOK'
    <2>1. ReqType'
        BY <1>1, <1>5, GotoType
           DEF Decide, ReadFactor, Identify, DisableFind, DisableRead, Stages
    <2> QED BY <1>2, <1>5, <2>1 DEF Decide, ReadFactor, Identify, DisableFind, DisableRead
<1>6. ASSUME NEW p \in Procs, NEW t \in Tokens, CreateChallenge(p, t) PROVE TypeOK'
    <2>1. ReqType'
        BY <1>1, <1>6, EndType DEF CreateChallenge
    <2> QED BY <1>1, <1>6, <2>1
            DEF CreateChallenge, TypeOK, ReqType, factors, tallies
<1>7. ASSUME NEW p \in Procs, NEW t \in Tokens, NEW x \in Inputs, Claim(p, t, x) PROVE TypeOK'
    <2>1. holder[t] \in Users
        BY <1>1, <1>7, FactorAssumption DEF Claim, Paid, TypeOK
    <2>2. ReqType'
        BY <1>1, <1>7, <2>1, BeginType DEF Claim, Stages
    <2>3. attempts' \in [Tokens -> 0..Limit] /\ looks' \in [Tokens -> Nat]
        BY <1>1, <1>7, FactorAssumption DEF Claim, TypeOK
    <2> QED BY <1>1, <1>7, <2>2, <2>3 DEF Claim, TypeOK, ReqType, factors
<1>8. ASSUME NEW p \in Procs, SpendRecoveryCode(p) PROVE TypeOK'
    <2>1. ReqType'
        BY <1>1, <1>8, GotoType DEF SpendRecoveryCode, Stages
    <2> QED BY <1>1, <1>8, <2>1 DEF SpendRecoveryCode, TypeOK, ReqType, challenges
<1>9. ASSUME NEW p \in Procs, Consume(p) PROVE TypeOK'
    <2>1. ReqType'
        BY <1>1, <1>9, GotoType DEF Consume, Stages
    <2> QED BY <1>1, <1>9, <2>1 DEF Consume, TypeOK, ReqType, factors, tallies
<1>10. ASSUME NEW p \in Procs, CreateSession(p) PROVE TypeOK'
    <2>1. ReqType'
        BY <1>1, <1>10, EndType DEF CreateSession
    <2> QED BY <1>1, <1>10, <2>1 DEF CreateSession, TypeOK, ReqType, factors, challenges
<1>11. ASSUME NEW t \in Tokens, Expire(t) PROVE TypeOK'
    BY <1>1, <1>11 DEF Expire, TypeOK, requests, factors, tallies
<1>12. ASSUME NEW p \in Procs, NEW u \in Users, NEW stage \in {"enroll", "confirm", "disable"},
              NEW x \in Inputs, Ask(p, u, stage, x)
       PROVE  TypeOK'
    <2>1. ReqType'
        BY <1>1, <1>12, BeginType DEF Ask, Stages
    <2> QED BY <1>2, <1>12, <2>1 DEF Ask
<1>13. ASSUME NEW p \in Procs, NEW s \in Secrets, Enroll(p, s) PROVE TypeOK'
    <2>1. ReqType'
        BY <1>1, <1>13, EndType DEF Enroll
    <2>2. codes' \in [Codes -> {"absent", "unused", "used"}]
        BY <1>1, <1>13, AbsentType DEF Enroll
    <2> QED BY <1>1, <1>13, <2>1, <2>2 DEF Enroll, TypeOK, ReqType, challenges, tallies
<1>14. ASSUME NEW p \in Procs, ConfirmRead(p) PROVE TypeOK'
    <2>1. ReqType'
        BY <1>1, <1>14, GotoType DEF ConfirmRead, Stages
    <2>2. who[p] \in Users /\ secret[who[p]] \in Secrets
        BY <1>1, <1>14, AtWork DEF ConfirmRead, Goto, TypeOK
    <2> QED BY <1>1, <1>14, <2>1, <2>2
            DEF ConfirmRead, TypeOK, ReqType, factors, challenges, tallies
<1>15. ASSUME NEW p \in Procs, NEW b \in Batches, ConfirmTOTP(p, b) PROVE TypeOK'
    <2>1. ReqType'
        BY <1>1, <1>15, EndType DEF ConfirmTOTP
    <2>2. codes' \in [Codes -> {"absent", "unused", "used"}]
        BY <1>1, <1>15, AbsentType DEF ConfirmTOTP
    <2>3. who[p] \in Users /\ secret[who[p]] \in Secrets
        BY <1>1, <1>15, AtWork DEF ConfirmTOTP, TypeOK
    <2>4. issued' \in [Batches -> [user: Users, secret: Secrets] \cup {None}]
        BY <1>1, <1>15, <2>3 DEF ConfirmTOTP, TypeOK
    <2> QED BY <1>1, <1>15, <2>1, <2>2, <2>4 DEF ConfirmTOTP, TypeOK, ReqType, challenges, tallies
<1>16. ASSUME NEW p \in Procs, DisableClear(p) PROVE TypeOK'
    <2>1. ReqType'
        BY <1>1, <1>16, EndType DEF DisableClear
    <2>2. codes' \in [Codes -> {"absent", "unused", "used"}]
        BY <1>1, <1>16, AbsentType DEF DisableClear, ClearTOTP
    <2> QED BY <1>1, <1>16, <2>1, <2>2
            DEF DisableClear, ClearTOTP, TypeOK, ReqType, challenges, tallies
<1>17. ASSUME NEW u \in Users, Reset(u) PROVE TypeOK'
    <2>1. codes' \in [Codes -> {"absent", "unused", "used"}]
        BY <1>1, <1>17, AbsentType DEF Reset, ClearTOTP
    <2> QED BY <1>1, <1>17, <2>1
            DEF Reset, ClearTOTP, TypeOK, requests, challenges, tallies
<1>18. ASSUME NEW u \in Users, SetEnabled(u) PROVE TypeOK'
    BY <1>1, <1>18 DEF SetEnabled, TypeOK, requests, factors, challenges, tallies
<1>19. CASE UNCHANGED vars
    BY <1>1, <1>19 DEF vars, TypeOK, requests, factors, challenges, tallies
<1> QED BY <1>3, <1>4, <1>5, <1>6, <1>7, <1>8, <1>9, <1>10, <1>11, <1>12, <1>13, <1>14,
           <1>15, <1>16, <1>17, <1>18, <1>19 DEF Next, SignIn, Verify, Manage, Inputs

-----------------------------------------------------------------------------
(* Working                                                                 *)

Verifying == {"claimed", "spend", "accepted", "identify"}

LEMMA WorkingGoto ==
    ASSUME TypeOK, Working, NEW p \in Procs, NEW from, NEW to, Goto(p, from, to),
           from # "idle", to # "idle", to \in Verifying => token[p] # None, holder' = holder
    PROVE  Working'
BY DEF TypeOK, Working, Goto, Verifying

LEMMA WorkingEnd ==
    ASSUME TypeOK, Working, NEW p \in Procs, End(p), holder' = holder
    PROVE  Working'
BY DEF TypeOK, Working, End

LEMMA WorkingBegin ==
    ASSUME TypeOK, Working, NEW p \in Procs, NEW stage, NEW u \in Users,
           NEW t \in Tokens \cup {None}, NEW x, Begin(p, stage, u, t, x), stage # "idle",
           stage \in Verifying => t # None, t # None => u = holder[t], holder' = holder
    PROVE  Working'
BY FactorAssumption DEF TypeOK, Working, Begin, Verifying

LEMMA StepWorking == IInv /\ [Next]_vars => Working'
<1> SUFFICES ASSUME IInv, [Next]_vars PROVE Working'
    OBVIOUS
<1>1. TypeOK /\ Working /\ Paid
    BY DEF IInv
<1>2. ASSUME UNCHANGED <<requests, holder>> PROVE Working'
    BY <1>1, <1>2 DEF Working, requests
<1>3. ASSUME NEW p \in Procs, End(p), holder' = holder PROVE Working'
    BY <1>1, <1>3, WorkingEnd
<1>4. ASSUME NEW p \in Procs, NEW u \in Users, Login(p, u) PROVE Working'
    <2>1. PICK stage \in {"decide", "mint"} : Begin(p, stage, u, None, None)
        BY <1>4 DEF Login
    <2> QED BY <1>1, <1>4, <2>1, WorkingBegin DEF Login, challenges, Verifying
<1>5. ASSUME NEW p \in Procs, Decide(p) PROVE Working'
    BY <1>1, <1>5, WorkingGoto DEF Decide, challenges, Verifying
<1>6. ASSUME NEW p \in Procs, NEW t \in Tokens, CreateChallenge(p, t) PROVE Working'
    <2>1. \A q \in Procs : token[q] # t
        BY <1>1, <1>6, FactorAssumption DEF CreateChallenge, Paid, Working
    <2> QED BY <1>1, <1>6, <2>1 DEF CreateChallenge, End, Working, TypeOK
<1>7. ASSUME NEW p \in Procs, NEW t \in Tokens, NEW x \in Inputs, Claim(p, t, x)
      PROVE  Working'
    <2>1. holder[t] \in Users
        BY <1>1, <1>7, FactorAssumption DEF Claim, Paid, TypeOK
    <2> QED BY <1>1, <1>7, <2>1, WorkingBegin, FactorAssumption DEF Claim
<1>8. ASSUME NEW p \in Procs, ReadFactor(p) PROVE Working'
    <2>1. token[p] # None
        BY <1>1, <1>8 DEF ReadFactor, Goto, Working
    <2> QED BY <1>1, <1>8, <2>1, WorkingGoto DEF ReadFactor, challenges
<1>9. ASSUME NEW p \in Procs, SpendRecoveryCode(p) PROVE Working'
    <2>1. token[p] # None
        BY <1>1, <1>9 DEF SpendRecoveryCode, Goto, Working
    <2> QED BY <1>1, <1>9, <2>1, WorkingGoto DEF SpendRecoveryCode, challenges
<1>10. ASSUME NEW p \in Procs, Consume(p) PROVE Working'
    <2>1. token[p] # None
        BY <1>1, <1>10 DEF Consume, Goto, Working
    <2> QED BY <1>1, <1>10, <2>1, WorkingGoto DEF Consume
<1>11. ASSUME NEW p \in Procs, Identify(p) PROVE Working'
    BY <1>1, <1>11, WorkingGoto DEF Identify, challenges, Verifying
<1>12. ASSUME NEW p \in Procs, NEW u \in Users, NEW stage \in {"enroll", "confirm", "disable"},
              NEW x \in Inputs, Ask(p, u, stage, x)
       PROVE  Working'
    <2>1. PICK y : Begin(p, stage, u, None, y)
        BY <1>12 DEF Ask
    <2> QED BY <1>1, <1>12, <2>1, WorkingBegin DEF Ask, challenges, Verifying
<1>13. ASSUME NEW p \in Procs, ConfirmRead(p) PROVE Working'
    BY <1>1, <1>13, WorkingGoto DEF ConfirmRead, challenges, Verifying
<1>14. ASSUME NEW p \in Procs, DisableFind(p) PROVE Working'
    BY <1>1, <1>14, WorkingGoto DEF DisableFind, challenges, Verifying
<1>15. ASSUME NEW p \in Procs, DisableRead(p) PROVE Working'
    BY <1>1, <1>15, WorkingGoto DEF DisableRead, challenges, Verifying
<1>16. ASSUME NEW p \in Procs, NEW s \in Secrets, Enroll(p, s) PROVE Working'
    BY <1>3, <1>16 DEF Enroll, challenges
<1>17. ASSUME NEW p \in Procs, NEW b \in Batches, ConfirmTOTP(p, b) PROVE Working'
    BY <1>3, <1>17 DEF ConfirmTOTP, challenges
<1>18. ASSUME NEW p \in Procs, Fail(p) \/ DisableClear(p) \/ CreateSession(p) PROVE Working'
    BY <1>3, <1>18 DEF Fail, DisableClear, CreateSession, challenges
<1>19. ASSUME NEW u \in Users, Reset(u) \/ SetEnabled(u) PROVE Working'
    BY <1>2, <1>19 DEF Reset, SetEnabled, challenges
<1>20. ASSUME NEW t \in Tokens, Expire(t) PROVE Working'
    BY <1>2, <1>20 DEF Expire
<1>21. CASE UNCHANGED vars
    BY <1>2, <1>21 DEF vars, challenges
<1> QED BY <1>4, <1>5, <1>6, <1>7, <1>8, <1>9, <1>10, <1>11, <1>12, <1>13, <1>14, <1>15,
           <1>16, <1>17, <1>18, <1>19, <1>20, <1>21 DEF Next, SignIn, Verify, Manage, Inputs

-----------------------------------------------------------------------------
(* Paid                                                                    *)

LEMMA AnsweringSize == \A t : IsFiniteSet(Answering(t)) /\ Cardinality(Answering(t)) \in Nat
BY FactorAssumption, FS_Subset, FS_CardinalityType DEF Answering

LEMMA AnsweringNext == \A t : Cardinality(Answering(t))' \in Int
<1> SUFFICES ASSUME NEW t PROVE Cardinality(Answering(t))' \in Int
    OBVIOUS
<1>1. Answering(t)' \subseteq Procs
    BY DEF Answering
<1>2. Cardinality(Answering(t)') \in Nat
    BY <1>1, FactorAssumption, FS_Subset, FS_CardinalityType
<1> QED BY <1>2

\* A request that ends is no longer at work on its challenge.
LEMMA AnsweringEnd ==
    ASSUME TypeOK, NEW p \in Procs, End(p), NEW t \in Tokens
    PROVE  /\ Cardinality(Answering(t))' <= Cardinality(Answering(t))
           /\ token[p] = t => Cardinality(Answering(t))' = Cardinality(Answering(t)) - 1
<1>1. Answering(t)' = Answering(t) \ {p}
    BY FactorAssumption DEF TypeOK, End, Answering
<1>2. p \in Answering(t) <=> token[p] = t
    BY DEF Answering
<1>3. Cardinality(Answering(t) \ {p}) = IF p \in Answering(t) THEN Cardinality(Answering(t)) - 1
                                                             ELSE Cardinality(Answering(t))
    BY AnsweringSize, FS_RemoveElement
<1> QED BY <1>1, <1>2, <1>3, AnsweringSize

LEMMA AnsweringBegin ==
    ASSUME TypeOK, Working, NEW p \in Procs, NEW stage, NEW u, NEW t, NEW x,
           Begin(p, stage, u, t, x), NEW r \in Tokens
    PROVE  Cardinality(Answering(r))' = IF r = t THEN Cardinality(Answering(r)) + 1
                                                 ELSE Cardinality(Answering(r))
<1>1. token[p] = None /\ p \notin Answering(r)
    BY FactorAssumption DEF Working, Begin, Answering
<1>2. Answering(r)' = IF r = t THEN Answering(r) \cup {p} ELSE Answering(r)
    BY <1>1 DEF TypeOK, Begin, Answering
<1>3. Cardinality(Answering(r) \cup {p}) = Cardinality(Answering(r)) + 1
    BY <1>1, AnsweringSize, FS_AddElement
<1> QED BY <1>2, <1>3

LEMMA AnsweringKept ==
    ASSUME token' = token, NEW t
    PROVE  Cardinality(Answering(t))' = Cardinality(Answering(t))
BY DEF Answering

LEMMA StepPaid == IInv /\ [Next]_vars => Paid'
<1> SUFFICES ASSUME IInv, [Next]_vars PROVE Paid'
    OBVIOUS
<1>1. TypeOK /\ Working /\ Paid
    BY DEF IInv
<1>2. \A t \in Tokens :
          attempts[t] \in Int /\ minted[t] \in Int /\ Cardinality(Answering(t)) \in Int
    BY <1>1, AnsweringSize, FactorAssumption DEF TypeOK
<1>3. ASSUME \A t \in Tokens : Cardinality(Answering(t))' <= Cardinality(Answering(t)),
             UNCHANGED <<challenges, looks, minted>>
      PROVE  Paid'
    BY <1>1, <1>2, <1>3, AnsweringNext DEF Paid, challenges
<1>4. ASSUME UNCHANGED <<token, challenges, looks, minted>> PROVE Paid'
    BY <1>1, <1>4, AnsweringKept DEF Paid, challenges
<1>5. ASSUME NEW p \in Procs, NEW u \in Users, Login(p, u) PROVE Paid'
    <2>1. PICK stage : Begin(p, stage, u, None, None)
        BY <1>5 DEF Login
    <2>2. \A t \in Tokens : Cardinality(Answering(t))' = Cardinality(Answering(t))
        BY <1>1, <2>1, AnsweringBegin, FactorAssumption
    <2> QED BY <1>1, <1>5, <2>2 DEF Login, Paid, challenges, tallies
<1>6. ASSUME NEW p \in Procs, NEW u \in Users, NEW stage, NEW x, Ask(p, u, stage, x)
      PROVE  Paid'
    <2>1. PICK y : Begin(p, stage, u, None, y)
        BY <1>6 DEF Ask
    <2>2. \A t \in Tokens : Cardinality(Answering(t))' = Cardinality(Answering(t))
        BY <1>1, <2>1, AnsweringBegin, FactorAssumption
    <2> QED BY <1>1, <1>6, <2>2 DEF Ask, Paid, challenges, tallies
<1>7. ASSUME NEW p \in Procs, NEW t \in Tokens, NEW x, Claim(p, t, x) PROVE Paid'
    <2>1. \A r \in Tokens : Cardinality(Answering(r))' =
              IF r = t THEN Cardinality(Answering(r)) + 1 ELSE Cardinality(Answering(r))
        BY <1>1, <1>7, AnsweringBegin DEF Claim
    <2>2. /\ attempts' = [attempts EXCEPT ![t] = @ + 1]
          /\ looks' = [looks EXCEPT ![t] = @ + 1]
          /\ UNCHANGED <<holder, state, minted>>
        BY <1>7 DEF Claim
    <2> QED BY <1>1, <1>2, <2>1, <2>2 DEF Paid, TypeOK
<1>8. ASSUME NEW p \in Procs, NEW t \in Tokens, CreateChallenge(p, t) PROVE Paid'
    <2>1. \A r \in Tokens : Cardinality(Answering(r))' <= Cardinality(Answering(r))
        BY <1>1, <1>8, AnsweringEnd DEF CreateChallenge
    <2>2. who[p] \in Users
        BY <1>1, <1>8, AtWork DEF CreateChallenge
    <2>3. /\ \A r \in Tokens : state'[r] = "new" <=> holder'[r] = None
          /\ UNCHANGED <<attempts, looks, minted>>
        BY <1>1, <1>8, <2>2, FactorAssumption DEF CreateChallenge, Paid, TypeOK, tallies
    <2> QED BY <1>1, <1>2, <2>1, <2>3, AnsweringNext DEF Paid
<1>9. ASSUME NEW p \in Procs, Consume(p) PROVE Paid'
    <2>1. \A r \in Tokens : state'[r] = "new" <=> state[r] = "new"
        BY <1>1, <1>9 DEF Consume, TypeOK
    <2> QED BY <1>1, <1>9, <2>1, AnsweringKept DEF Consume, Goto, Paid, tallies
<1>10. ASSUME NEW t \in Tokens, Expire(t) PROVE Paid'
    <2>1. \A r \in Tokens : state'[r] = "new" <=> state[r] = "new"
        BY <1>1, <1>10 DEF Expire, TypeOK
    <2> QED BY <1>1, <1>10, <2>1, AnsweringKept DEF Expire, Paid, requests, tallies
<1>11. ASSUME NEW p \in Procs, CreateSession(p) PROVE Paid'
    <2>1. \A r \in Tokens :
              /\ Cardinality(Answering(r))' <= Cardinality(Answering(r))
              /\ token[p] = r => Cardinality(Answering(r))' = Cardinality(Answering(r)) - 1
        BY <1>1, <1>11, AnsweringEnd DEF CreateSession
    <2>2. /\ minted' = [r \in Tokens |-> IF r = token[p] THEN minted[r] + 1 ELSE minted[r]]
          /\ UNCHANGED <<attempts, holder, state, looks>>
        BY <1>11 DEF CreateSession, challenges
    <2> QED BY <1>1, <1>2, <2>1, <2>2, AnsweringNext DEF Paid, TypeOK
<1>12. ASSUME NEW p \in Procs, End(p), UNCHANGED <<challenges, looks, minted>> PROVE Paid'
    BY <1>1, <1>3, <1>12, AnsweringEnd
<1>13. ASSUME NEW p \in Procs, NEW s \in Secrets, Enroll(p, s) PROVE Paid'
    BY <1>12, <1>13 DEF Enroll, tallies
<1>14. ASSUME NEW p \in Procs, NEW b \in Batches, ConfirmTOTP(p, b) PROVE Paid'
    BY <1>12, <1>14 DEF ConfirmTOTP, tallies
<1>15. ASSUME NEW p \in Procs, Fail(p) \/ DisableClear(p) PROVE Paid'
    BY <1>12, <1>15 DEF Fail, DisableClear, tallies
<1>16. ASSUME NEW p \in Procs, Decide(p) \/ ReadFactor(p) \/ SpendRecoveryCode(p) \/ Identify(p)
                                \/ ConfirmRead(p) \/ DisableFind(p) \/ DisableRead(p)
       PROVE  Paid'
    BY <1>4, <1>16 DEF Decide, ReadFactor, SpendRecoveryCode, Identify, ConfirmRead,
                       DisableFind, DisableRead, Goto, tallies
<1>17. ASSUME NEW u \in Users, Reset(u) \/ SetEnabled(u) PROVE Paid'
    BY <1>4, <1>17 DEF Reset, SetEnabled, requests, tallies
<1>18. CASE UNCHANGED vars
    BY <1>4, <1>18 DEF vars, requests, tallies
<1> QED BY <1>5, <1>6, <1>7, <1>8, <1>9, <1>10, <1>11, <1>13, <1>14, <1>15, <1>16, <1>17,
           <1>18 DEF Next, SignIn, Verify, Manage

-----------------------------------------------------------------------------
(* Recovery codes                                                          *)

\* Facts about codes, secrets and batches only.
Recovery == Spent /\ SpentOnce /\ CodesMatchSecret

LEMMA RecoveryKept ==
    ASSUME Recovery, UNCHANGED <<secret, confirmed, codes, issued, spent>>
    PROVE  Recovery'
BY DEF Recovery, Spent, SpentOnce, CodesMatchSecret, Present, OwnerOf, Enrolled

\* The codes present after a deletion: those of the other accounts.
LEMMA PresentDeleted ==
    ASSUME NEW u, NEW v, codes' = Absent(Present(u)), issued' = issued
    PROVE  Present(v)' = IF v = u THEN {} ELSE Present(v)
BY DEF Present, Absent, OwnerOf

\* Deleting an account's codes with its secret, its confirmation unset.
LEMMA RecoveryCleared ==
    ASSUME TypeOK, Recovery, NEW u \in Users, NEW s,
           secret' = [secret EXCEPT ![u] = s], confirmed' = [confirmed EXCEPT ![u] = FALSE],
           codes' = Absent(Present(u)), issued' = issued, spent' = spent
    PROVE  Recovery'
<1>1. Spent'
    BY BatchOfCode DEF Recovery, Spent, Absent
<1>2. SpentOnce'
    BY DEF Recovery, SpentOnce
<1>3. CodesMatchSecret'
    <2> SUFFICES ASSUME NEW v \in Users
                 PROVE  IF Enrolled(v)'
                        THEN \E b \in Batches : /\ issued'[b] = [user |-> v, secret |-> secret'[v]]
                                                /\ Present(v)' = b
                        ELSE Present(v)' = {} /\ ~confirmed'[v]
        BY DEF CodesMatchSecret
    <2>1. Present(v)' = IF v = u THEN {} ELSE Present(v)
        BY PresentDeleted
    <2>2. CASE v = u
        BY <2>1, <2>2 DEF Enrolled, TypeOK
    <2>3. CASE v # u
        <3>1. secret'[v] = secret[v] /\ confirmed'[v] = confirmed[v]
            BY <2>3 DEF TypeOK
        <3>2. Enrolled(v)' <=> Enrolled(v)
            BY <3>1 DEF Enrolled
        <3> QED BY <2>1, <2>3, <3>1, <3>2 DEF Recovery, CodesMatchSecret
    <2> QED BY <2>2, <2>3
<1> QED BY <1>1, <1>2, <1>3 DEF Recovery

LEMMA RecoverySpent ==
    ASSUME TypeOK, Recovery, NEW p \in Procs, SpendRecoveryCode(p)
    PROVE  Recovery'
<1> DEFINE x == code[p]
<1>1. /\ x \in Codes /\ codes[x] = "unused"
      /\ codes' = [codes EXCEPT ![x] = "used"]
      /\ spent' = [spent EXCEPT ![x] = @ + 1]
      /\ UNCHANGED <<secret, confirmed, issued>>
    BY DEF SpendRecoveryCode
<1> HIDE DEF x
<1>2. spent[x] = 0 /\ issued[BatchOf(x)] # None
    BY <1>1, EveryCode DEF Recovery, Spent
<1>3. Spent'
    BY <1>1, <1>2, BatchOfCode DEF Recovery, Spent, TypeOK
<1>4. SpentOnce'
    BY <1>1, <1>2 DEF Recovery, SpentOnce, TypeOK
<1>5. \A u : Present(u)' = Present(u)
    BY <1>1 DEF Present, OwnerOf, TypeOK
<1>6. CodesMatchSecret'
    BY <1>1, <1>5 DEF Recovery, CodesMatchSecret, Enrolled
<1> QED BY <1>3, <1>4, <1>6 DEF Recovery

LEMMA RecoveryIssued ==
    ASSUME TypeOK, Recovery, NEW p \in Procs, who[p] \in Users, NEW b \in Batches,
           ConfirmTOTP(p, b)
    PROVE  Recovery'
<1> DEFINE u == who[p]
           row == [user |-> u, secret |-> secret[u]]
<1>1. /\ u \in Users /\ secret[u] \in Secrets /\ issued[b] = None
      /\ row \in [user: Users, secret: Secrets] /\ row.user = u
      /\ confirmed' = [confirmed EXCEPT ![u] = TRUE]
      /\ issued' = [issued EXCEPT ![b] = row]
      /\ codes' = [c \in Codes |-> IF c \in b THEN "unused" ELSE Absent(Present(u))[c]]
      /\ UNCHANGED <<secret, spent>>
    BY DEF ConfirmTOTP, TypeOK, tallies
<1>2. \A c \in b : codes[c] = "absent" /\ spent[c] = 0
    BY <1>1 DEF Recovery, Spent
<1>3. b # {} /\ None # row
    BY <1>1, FactorAssumption
<1>4. \A c \in Codes \ b : BatchOf(c) # b /\ OwnerOf(c)' = OwnerOf(c)
    BY <1>1, EveryCode DEF OwnerOf, TypeOK
<1>5. \A c \in b : c \in Codes /\ OwnerOf(c)' = u
    BY <1>1, BatchOfCode DEF OwnerOf, TypeOK
<1>6. \A c \in Codes \ b : codes'[c] = IF c \in Present(u) THEN "absent" ELSE codes[c]
    BY <1>1 DEF Absent
<1>7. \A c \in b : codes'[c] = "unused"
    BY <1>1, <1>5
<1> HIDE DEF u, row
<1>8. Spent'
    <2> SUFFICES ASSUME NEW d \in Batches, NEW c \in d
                 PROVE  /\ issued'[d] = None => codes'[c] = "absent" /\ spent'[c] = 0
                        /\ codes'[c] = "unused" => spent'[c] = 0
        BY DEF Spent
    <2>1. c \in Codes /\ (c \in b => d = b)
        BY BatchOfCode
    <2>2. CASE d = b
        BY <1>1, <1>2, <1>3, <2>2 DEF TypeOK
    <2>3. CASE d # b
        BY <1>1, <1>6, <2>1, <2>3 DEF Recovery, Spent, TypeOK
    <2> QED BY <2>2, <2>3
<1>9. SpentOnce'
    BY <1>1 DEF Recovery, SpentOnce
<1>10. CodesMatchSecret'
    <2> SUFFICES ASSUME NEW v \in Users
                 PROVE  IF Enrolled(v)'
                        THEN \E d \in Batches : /\ issued'[d] = [user |-> v, secret |-> secret'[v]]
                                                /\ Present(v)' = d
                        ELSE Present(v)' = {} /\ ~confirmed'[v]
        BY DEF CodesMatchSecret
    <2>1. CASE v = u
        <3>1. Present(v)' = b
            BY <1>4, <1>5, <1>6, <1>7, <2>1 DEF Present
        <3>2. Enrolled(v)'
            BY <1>1, <2>1, FactorAssumption DEF Enrolled, TypeOK
        <3>3. issued'[b] = [user |-> v, secret |-> secret'[v]]
            BY <1>1, <2>1 DEF TypeOK, row
        <3> QED BY <3>1, <3>2, <3>3
    <2>2. CASE v # u
        <3>1. Present(v)' = Present(v)
            BY <1>2, <1>4, <1>5, <1>6, <2>2 DEF Present
        <3>2. secret'[v] = secret[v] /\ confirmed'[v] = confirmed[v] /\ (Enrolled(v)' <=> Enrolled(v))
            BY <1>1, <2>2 DEF TypeOK, Enrolled
        <3>3. ASSUME NEW d \in Batches, Present(v) = d PROVE issued'[d] = issued[d]
            BY <1>1, <1>2, <1>3, <3>3 DEF Present, TypeOK
        <3> QED BY <3>1, <3>2, <3>3 DEF Recovery, CodesMatchSecret
    <2> QED BY <2>1, <2>2
<1> QED BY <1>8, <1>9, <1>10 DEF Recovery

LEMMA StepRecovery == IInv /\ [Next]_vars => Recovery'
<1> SUFFICES ASSUME IInv, [Next]_vars PROVE Recovery'
    OBVIOUS
<1>1. TypeOK /\ Working /\ Recovery
    BY DEF IInv, Recovery
<1>2. ASSUME UNCHANGED <<secret, confirmed, codes, issued, spent>> PROVE Recovery'
    BY <1>1, <1>2, RecoveryKept
<1>3. ASSUME NEW p \in Procs, NEW s \in Secrets, Enroll(p, s) PROVE Recovery'
    BY <1>1, <1>3, AtWork, RecoveryCleared DEF Enroll, tallies
<1>4. ASSUME NEW p \in Procs, DisableClear(p) PROVE Recovery'
    BY <1>1, <1>4, AtWork, RecoveryCleared DEF DisableClear, ClearTOTP, tallies
<1>5. ASSUME NEW u \in Users, Reset(u) PROVE Recovery'
    BY <1>1, <1>5, RecoveryCleared DEF Reset, ClearTOTP, tallies
<1>6. ASSUME NEW p \in Procs, SpendRecoveryCode(p) PROVE Recovery'
    BY <1>1, <1>6, RecoverySpent
<1>7. ASSUME NEW p \in Procs, NEW b \in Batches, ConfirmTOTP(p, b) PROVE Recovery'
    <2>1. who[p] \in Users
        BY <1>1, <1>7, AtWork DEF ConfirmTOTP
    <2> QED BY <1>1, <1>7, <2>1, RecoveryIssued
<1>8. ASSUME NEW p \in Procs,
             \/ \E u \in Users : Login(p, u)
             \/ \E t \in Tokens : CreateChallenge(p, t)
             \/ \E t \in Tokens, x \in Inputs : Claim(p, t, x)
             \/ \E u \in Users, stage \in {"enroll", "confirm", "disable"}, x \in Inputs :
                    Ask(p, u, stage, x)
      PROVE  Recovery'
    BY <1>2, <1>8 DEF Login, CreateChallenge, Claim, Ask, factors, tallies
<1>9. ASSUME NEW p \in Procs,
             \/ Fail(p) \/ Decide(p) \/ ReadFactor(p) \/ Consume(p) \/ Identify(p)
             \/ CreateSession(p) \/ ConfirmRead(p) \/ DisableFind(p) \/ DisableRead(p)
      PROVE  Recovery'
    BY <1>2, <1>9 DEF Fail, Decide, ReadFactor, Consume, Identify, CreateSession, ConfirmRead,
                      DisableFind, DisableRead, factors, tallies
<1>10. ASSUME NEW t \in Tokens, Expire(t) PROVE Recovery'
    BY <1>2, <1>10 DEF Expire, factors, tallies
<1>11. ASSUME NEW u \in Users, SetEnabled(u) PROVE Recovery'
    BY <1>2, <1>11 DEF SetEnabled, factors, tallies
<1>12. CASE UNCHANGED vars
    BY <1>2, <1>12 DEF vars, factors, tallies
<1> QED BY <1>3, <1>4, <1>5, <1>6, <1>7, <1>8, <1>9, <1>10, <1>11, <1>12
        DEF Next, SignIn, Verify, Manage, Inputs

-----------------------------------------------------------------------------
THEOREM Inductive == Spec => []IInv
<1>1. IInv /\ [Next]_vars => IInv'
    BY StepType, StepWorking, StepPaid, StepRecovery DEF IInv, Recovery
<1> QED BY InitIInv, <1>1, PTL DEF Spec

\* Every reachable state is well-typed.
THEOREM TypeCorrect == Spec => []TypeOK
<1>1. IInv => TypeOK
    BY DEF IInv
<1> QED BY Inductive, <1>1, PTL

\* ClaimMFAChallenge spends an attempt in the statement that looks for one: no
\* more than Limit codes are looked at for a challenge, by however many requests,
\* and no more sessions are created from it than codes were looked at.
THEOREM GuessesAreBounded == Spec => []GuessesBounded
<1>1. IInv => GuessesBounded
    <2> SUFFICES ASSUME IInv, NEW t \in Tokens PROVE looks[t] <= Limit /\ minted[t] <= looks[t]
        BY DEF GuessesBounded
    <2>1. /\ looks[t] = attempts[t] /\ attempts[t] \in 0..Limit /\ minted[t] \in Nat
          /\ minted[t] + Cardinality(Answering(t)) <= looks[t]
        BY DEF IInv, TypeOK, Paid
    <2>2. Cardinality(Answering(t)) \in Nat
        BY AnsweringSize
    <2> QED BY <2>1, <2>2, FactorAssumption
<1> QED BY Inductive, <1>1, PTL

\* SpendRecoveryCode: a recovery code is accepted at most once, by however many
\* requests, and over every enrolment.
THEOREM CodesSpentOnce == Spec => []SpentOnce
<1>1. IInv => SpentOnce
    BY DEF IInv
<1> QED BY Inductive, <1>1, PTL

\* SetTOTPSecret, ConfirmTOTP and ClearTOTP, in any order: the recovery codes of
\* an account are those of one confirmation of the secret it has, if confirmed.
THEOREM CodesFollowSecret == Spec => []CodesMatchSecret
<1>1. IInv => CodesMatchSecret
    BY DEF IInv
<1> QED BY Inductive, <1>1, PTL
=============================================================================
