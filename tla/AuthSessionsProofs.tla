------------------------- MODULE AuthSessionsProofs --------------------------
(***************************************************************************)
(* LoginInv is inductive.  Steps are grouped by what they write: a step    *)
(* that only moves a request, one that spends a challenge on a session,    *)
(* the two ends of a reset, and the ones that only revoke.                 *)
(***************************************************************************)
EXTENDS AuthSessions, TLAPS

\* Facts about rows that follow from their types.
LEMMA SessionTyped ==
    ASSUME TypeOK, NEW s \in IssuedSessions
    PROVE  /\ s \in Sessions
           /\ session[s] \in Session
           /\ session[s].challenge \in Challenges
           /\ session[s].user \in Users
           /\ session[s].state \in {"live", "revoked"}
BY DEF TypeOK, IssuedSessions, Session

LEMMA FactorTyped ==
    ASSUME TypeOK, NEW s \in IssuedSessions
    PROVE  /\ IsTotp(s) => session[s].factor \in TotpFactor
           /\ ~IsTotp(s) => session[s].factor \in RecoveryFactor
BY SessionTyped DEF Session, TotpFactor, RecoveryFactor, IsTotp

LEMMA ChallengeTyped ==
    ASSUME TypeOK, NEW c \in Challenges, challenge[c] # Free
    PROVE  /\ challenge[c] \in Challenge
           /\ challenge[c].user \in Users
           /\ challenge[c].state \in {"open", "spent"}
BY DEF TypeOK, Challenge

LEMMA RequestTyped ==
    ASSUME TypeOK, NEW r \in Requests
    PROVE  /\ req[r] # Idle => req[r].pc \in {"insert", "enroll", "user", "totp", "recovery"}
           /\ req[r].pc = "insert" => req[r].user \in Users /\ req[r].kind \in {"enroll", "login"}
           /\ req[r].pc \in {"enroll", "user", "totp", "recovery"} => req[r].challenge \in Challenges
           /\ req[r].pc \in {"enroll", "totp"} => req[r].counter \in Nat
           /\ req[r].pc = "user" => req[r].now \in Nat
           /\ req[r].pc = "totp" => req[r].secret \in Challenges
           /\ req[r].pc = "recovery" => req[r].code \in Codes
BY DEF TypeOK, Request, Idle

LEMMA InitLoginInv == Init => LoginInv
<1> SUFFICES ASSUME Init PROVE LoginInv
    OBVIOUS
<1>1. TypeOK
    BY NoneAssumption DEF Init, TypeOK, User, NoTotp
<1>2. IssuedSessions = {}
    BY DEF Init, IssuedSessions
<1>3. \A r \in Requests : req[r].pc = "idle"
    BY DEF Init, Idle
<1>4. \A u \in Users : Unlocked(u) /\ retired[u] = {} /\ codes[u] = {}
    BY DEF Init, Unlocked
<1>5. EnrolledSpent
    BY DEF Init, EnrolledSpent
<1> QED
    BY <1>1, <1>2, <1>3, <1>4, <1>5 DEF LoginInv, SessionsSpend, RequestsRefer, CountersRecorded,
       VerifiedCodesGuarded, VerifiedDuringReset, SnapshotSound, UsedCodesGone, ChallengeSingleUse,
       TotpNoReplay, RecoveryCodeSingleUse, ResetRetiresEverything, CodesMatchEnrollment

\* A step that changes nothing but one request, which does not end up holding a
\* verified TOTP code.
LEMMA RequestOnly ==
    ASSUME LoginInv, NEW r \in Requests, NEW to \in {Idle} \cup Request, Becomes(r, to),
           to.pc \in {"enroll", "user", "totp", "recovery"} => challenge[to.challenge] # Free,
           to.pc # "totp",
           UNCHANGED <<user, codes, challenge, session, reset, clock, retired>>
    PROVE  LoginInv'
<1>1. req'[r] = to /\ \A q \in Requests \ {r} : req'[q] = req[q]
    BY DEF LoginInv, TypeOK, Becomes
<1>2. TypeOK'
    BY DEF LoginInv, TypeOK, Becomes
<1>3. RequestsRefer'
    BY <1>1 DEF LoginInv, RequestsRefer
<1>4. VerifiedCodesGuarded'
    BY <1>1 DEF LoginInv, VerifiedCodesGuarded, Spent, IsTotp, IssuedSessions
<1>5. VerifiedDuringReset'
    BY <1>1 DEF LoginInv, VerifiedDuringReset, Unlocked
<1>6. (SessionsSpend /\ EnrolledSpent /\ CountersRecorded /\ SnapshotSound /\ UsedCodesGone)'
    BY DEF LoginInv, SessionsSpend, EnrolledSpent, CountersRecorded, SnapshotSound, UsedCodesGone,
       Spent, IsTotp, IssuedSessions, Unlocked
<1>7. (ChallengeSingleUse /\ TotpNoReplay /\ RecoveryCodeSingleUse /\ ResetRetiresEverything
         /\ CodesMatchEnrollment)'
    BY DEF LoginInv, ChallengeSingleUse, TotpNoReplay, RecoveryCodeSingleUse,
       ResetRetiresEverything, CodesMatchEnrollment, IssuedSessions
<1> QED
    BY <1>2, <1>3, <1>4, <1>5, <1>6, <1>7 DEF LoginInv

\* BeginLogin's INSERT: the new row was free, so nothing referred to it.
LEMMA CreateChallengeStep ==
    ASSUME LoginInv, NEW r \in Requests, CreateChallenge(r)
    PROVE  LoginInv'
<1>1. PICK c \in Challenges :
        /\ challenge[c] = Free
        /\ challenge' = [challenge EXCEPT ![c] =
               [state |-> "open", kind |-> req[r].kind, user |-> req[r].user, expired |-> FALSE]]
    BY DEF CreateChallenge
<1>2. UNCHANGED <<user, codes, session, reset, clock, retired>> /\ Becomes(r, Idle)
    BY DEF CreateChallenge
<1>3. /\ req'[r] = Idle
      /\ \A q \in Requests \ {r} : req'[q] = req[q]
    BY <1>2 DEF LoginInv, TypeOK, Becomes
<1>4. req[r].user \in Users /\ req[r].kind \in {"enroll", "login"}
    BY RequestTyped DEF LoginInv, CreateChallenge
<1>5. /\ challenge'[c].state = "open" /\ challenge'[c] \in Challenge /\ challenge'[c] # Free
      /\ \A d \in Challenges \ {c} : challenge'[d] = challenge[d]
      /\ challenge[c].state = "free"
    BY <1>1, <1>4 DEF LoginInv, TypeOK, Challenge, Free
<1>6. \A d \in Challenges, u \in Users : Spent(d, u)' <=> Spent(d, u)
    BY <1>4, <1>5 DEF Spent
<1>7. IssuedSessions' = IssuedSessions
    BY <1>2 DEF IssuedSessions
<1>8. TypeOK'
    <2>1. challenge' \in [Challenges -> {Free} \cup Challenge]
        BY <1>1, <1>5 DEF LoginInv, TypeOK
    <2>2. req' \in [Requests -> {Idle} \cup Request]
        BY <1>2 DEF LoginInv, TypeOK, Becomes
    <2> QED BY <1>2, <2>1, <2>2 DEF LoginInv, TypeOK
<1>9. SessionsSpend'
    BY <1>2, <1>6, <1>7, SessionTyped DEF LoginInv, SessionsSpend
<1>10. RequestsRefer'
    BY <1>3, <1>5, RequestTyped DEF LoginInv, RequestsRefer, Idle
<1>11. EnrolledSpent'
    BY <1>2, <1>6 DEF LoginInv, EnrolledSpent, TypeOK, User
<1>12. CountersRecorded'
    BY <1>2, <1>6, <1>7, SessionTyped, FactorTyped
    DEF LoginInv, CountersRecorded, IsTotp, TotpFactor
<1>13. \A q \in Requests : req'[q].pc = "totp" =>
          /\ req'[q] = req[q] /\ req[q].challenge \in Challenges /\ req[q].secret \in Challenges
          /\ challenge'[req[q].challenge] = challenge[req[q].challenge]
          /\ challenge[req[q].challenge].user \in Users
    BY <1>1, <1>3, <1>5, RequestTyped, ChallengeTyped DEF LoginInv, RequestsRefer, Idle
<1>14. VerifiedCodesGuarded'
    BY <1>2, <1>6, <1>7, <1>13 DEF LoginInv, VerifiedCodesGuarded, IsTotp
<1>15. VerifiedDuringReset'
    BY <1>2, <1>13 DEF LoginInv, VerifiedDuringReset, Unlocked
<1>16. SnapshotSound'
    <2>1. \A u \in Users : ~Unlocked(u) => reset[u].issued \subseteq Challenges
        BY DEF LoginInv, TypeOK, Unlocked, Snapshot
    <2> QED BY <2>1, <1>1, <1>2, <1>5, <1>7 DEF LoginInv, SnapshotSound, Unlocked
<1>17. UsedCodesGone'
    BY <1>2, <1>6, <1>7, SessionTyped, FactorTyped
    DEF LoginInv, UsedCodesGone, IsTotp, RecoveryFactor, Codes
<1>18. ResetRetiresEverything'
    <2>1. \A u \in Users : retired[u] \subseteq Challenges
        BY DEF LoginInv, TypeOK
    <2> QED BY <2>1, <1>2, <1>5, <1>7 DEF LoginInv, ResetRetiresEverything
<1>19. (ChallengeSingleUse /\ TotpNoReplay /\ RecoveryCodeSingleUse /\ CodesMatchEnrollment)'
    BY <1>2, <1>7 DEF LoginInv, ChallengeSingleUse, TotpNoReplay, RecoveryCodeSingleUse,
       CodesMatchEnrollment
<1> QED
    BY <1>8, <1>9, <1>10, <1>11, <1>12, <1>14, <1>15, <1>16, <1>17, <1>18, <1>19 DEF LoginInv

\* VerifyTOTP accepted a counter above the last one, so no session holds that code yet.
LEMMA LoadUserStep ==
    ASSUME LoginInv, NEW r \in Requests, LoadUser(r)
    PROVE  LoginInv'
<1> DEFINE c == req[r].challenge
           u == challenge[c].user
<1>1. /\ req[r].pc = "user" /\ c \in Challenges /\ challenge[c] # Free /\ req[r].now \in Nat
      /\ u \in Users
    BY RequestTyped, ChallengeTyped DEF LoginInv, LoadUser, RequestsRefer
<1>2. UNCHANGED <<user, codes, challenge, session, reset, clock, retired>> /\ user[u].secret # None
    BY DEF LoadUser
<1>3. CASE \E code \in {k \in Codes : challenge[k[1]] # Free} :
               Becomes(r, [pc |-> "recovery", challenge |-> c, code |-> code])
    <2>1. PICK code \in Codes : Becomes(r, [pc |-> "recovery", challenge |-> c, code |-> code])
        BY <1>3
    <2>2. [pc |-> "recovery", challenge |-> c, code |-> code] \in Request
        BY <1>1 DEF Request
    <2> QED BY <2>1, <2>2, <1>1, <1>2, RequestOnly
<1>4. CASE \E n \in Acceptable(u, req[r].now) :
               Becomes(r, [pc |-> "totp", challenge |-> c, secret |-> user[u].secret, counter |-> n])
    <2>1. PICK n \in Acceptable(u, req[r].now) :
               Becomes(r, [pc |-> "totp", challenge |-> c, secret |-> user[u].secret, counter |-> n])
        BY <1>4
    <2>2. n \in Nat /\ n > user[u].last
        BY <1>1 DEF Acceptable, Window
    <2>3. user[u].secret \in Challenges /\ Spent(user[u].secret, u) /\ user[u].last \in Int
        BY <1>1, <1>2 DEF LoginInv, TypeOK, User, EnrolledSpent
    <2>4. /\ req'[r] = [pc |-> "totp", challenge |-> c, secret |-> user[u].secret, counter |-> n]
          /\ \A q \in Requests \ {r} : req'[q] = req[q]
        BY <2>1 DEF LoginInv, TypeOK, Becomes
    <2>5. TypeOK'
        <3>1. [pc |-> "totp", challenge |-> c, secret |-> user[u].secret, counter |-> n] \in Request
            BY <1>1, <2>2, <2>3 DEF Request
        <3> QED BY <3>1, <2>1, <1>2 DEF LoginInv, TypeOK, Becomes
    <2>6. RequestsRefer'
        BY <2>4, <1>1, <1>2 DEF LoginInv, RequestsRefer
    <2>7. VerifiedCodesGuarded'
        <3>1. ASSUME NEW s \in IssuedSessions, IsTotp(s), session[s].factor.secret = user[u].secret,
                     session[s].factor.counter = n
              PROVE  FALSE
            <4>1. Spent(session[s].factor.secret, session[s].user)
                BY <3>1 DEF LoginInv, CountersRecorded
            <4>2. session[s].user = u
                BY <4>1, <3>1, <2>3 DEF Spent
            <4>3. n <= user[u].last
                BY <4>2, <3>1 DEF LoginInv, CountersRecorded
            <4> QED BY <4>3, <2>2, <2>3
        <3>2. /\ IssuedSessions' = IssuedSessions
              /\ \A s \in Sessions : IsTotp(s)' <=> IsTotp(s)
              /\ \A d, v : Spent(d, v)' <=> Spent(d, v)
            BY <1>2 DEF Spent, IsTotp, IssuedSessions
        <3>3. ASSUME NEW q \in Requests, req'[q].pc = "totp", NEW v, v = challenge[req'[q].challenge].user
              PROVE  /\ Spent(req'[q].secret, v)
                     /\ challenge[req'[q].challenge].state = "open" =>
                          \A s \in IssuedSessions :
                              IsTotp(s) /\ session[s].factor.secret = req'[q].secret
                                        /\ session[s].factor.counter = req'[q].counter
                                  => user[v].last >= req'[q].counter
            <4>1. CASE q = r
                <5>1. /\ req'[q].challenge = c /\ req'[q].secret = user[u].secret
                      /\ req'[q].counter = n
                    BY <4>1, <2>4
                <5>2. v = u
                    BY <5>1, <3>3
                <5> HIDE DEF c, u
                <5> QED BY <5>1, <5>2, <3>1, <2>3
            <4>2. CASE q # r
                BY <4>2, <3>3, <2>4 DEF LoginInv, VerifiedCodesGuarded
            <4> QED BY <4>1, <4>2
        <3> QED BY <3>2, <3>3, <1>2 DEF VerifiedCodesGuarded, IssuedSessions
    <2>8. VerifiedDuringReset'
        BY <2>2, <2>4, <1>2 DEF LoginInv, VerifiedDuringReset, Unlocked
    <2>9. (SessionsSpend /\ EnrolledSpent /\ CountersRecorded /\ SnapshotSound /\ UsedCodesGone)'
        BY <1>2 DEF LoginInv, SessionsSpend, EnrolledSpent, CountersRecorded, SnapshotSound,
           UsedCodesGone, Spent, IsTotp, IssuedSessions, Unlocked
    <2>10. (ChallengeSingleUse /\ TotpNoReplay /\ RecoveryCodeSingleUse /\ ResetRetiresEverything
             /\ CodesMatchEnrollment)'
        BY <1>2 DEF LoginInv, ChallengeSingleUse, TotpNoReplay, RecoveryCodeSingleUse,
           ResetRetiresEverything, CodesMatchEnrollment, IssuedSessions
    <2> QED BY <2>5, <2>6, <2>7, <2>8, <2>9, <2>10 DEF LoginInv
<1> QED
    BY <1>3, <1>4 DEF LoadUser

-----------------------------------------------------------------------------
\* What the insertion of a session adds to the table.
LEMMA SessionInserted ==
    ASSUME TypeOK, NEW c \in Challenges, challenge[c] # Free,
           NEW factor \in TotpFactor \cup RecoveryFactor, InsertSession(c, factor)
    PROVE  /\ session' \in [Sessions -> {Free} \cup Session]
           /\ \E s0 \in Sessions :
                /\ s0 \notin IssuedSessions
                /\ IssuedSessions' = IssuedSessions \cup {s0}
                /\ session'[s0] = [state |-> "live", user |-> challenge[c].user,
                                   challenge |-> c, factor |-> factor]
                /\ \A s \in IssuedSessions : session'[s] = session[s]
<1>1. PICK s0 \in Sessions :
        /\ session[s0] = Free
        /\ session' = [session EXCEPT ![s0] = [state |-> "live", user |-> challenge[c].user,
                                               challenge |-> c, factor |-> factor]]
    BY DEF InsertSession
<1> DEFINE row == [state |-> "live", user |-> challenge[c].user, challenge |-> c, factor |-> factor]
<1>2. row \in Session /\ row # Free
    BY ChallengeTyped DEF Session, Free
<1>3. /\ session'[s0] = row
      /\ \A s \in Sessions \ {s0} : session'[s] = session[s]
    BY <1>1 DEF TypeOK
<1>4. IssuedSessions' = IssuedSessions \cup {s0}
    <2> HIDE DEF row
    <2> QED BY <1>2, <1>3 DEF IssuedSessions
<1>5. session' \in [Sessions -> {Free} \cup Session]
    BY <1>1, <1>2 DEF TypeOK
<1> QED
    BY <1>1, <1>3, <1>4, <1>5 DEF IssuedSessions

\* What spending an open challenge leaves as it was.
LEMMA ChallengeSpent ==
    ASSUME TypeOK, NEW c \in Challenges, challenge[c] # Free, Spend(c)
    PROVE  /\ challenge' \in [Challenges -> {Free} \cup Challenge]
           /\ \A u \in Users : challenge[c].user = u => Spent(c, u)'
           /\ \A d \in Challenges, u \in Users : Spent(d, u) => Spent(d, u)'
           /\ \A d \in Challenges : /\ challenge'[d] = Free <=> challenge[d] = Free
                                    /\ challenge[d] # Free => challenge'[d].user = challenge[d].user
                                    /\ d # c => challenge'[d] = challenge[d]
<1>1. challenge[c] \in Challenge
    BY ChallengeTyped
<1>2. /\ challenge'[c] = [challenge[c] EXCEPT !.state = "spent"]
      /\ \A d \in Challenges \ {c} : challenge'[d] = challenge[d]
    BY DEF TypeOK, Spend
<1>3. /\ challenge'[c] \in Challenge /\ challenge'[c].state = "spent"
      /\ challenge'[c].user = challenge[c].user
    BY <1>1, <1>2 DEF Challenge
<1>4. challenge'[c] # Free
    BY <1>3 DEF Free
<1>5. challenge' \in [Challenges -> {Free} \cup Challenge]
    BY <1>1, <1>3 DEF TypeOK, Spend, Challenge
<1> QED
    BY <1>2, <1>3, <1>4, <1>5 DEF Spent

\* The part of the invariant that any completion keeps: one open challenge becomes spent
\* and one session appears with it, in the same step.
LEMMA SessionOpens ==
    ASSUME LoginInv, NEW r \in Requests, NEW c \in Challenges, challenge[c] # Free,
           challenge[c].state = "open", Spend(c),
           NEW factor \in TotpFactor \cup RecoveryFactor, InsertSession(c, factor),
           Becomes(r, Idle), UNCHANGED <<reset, retired>>,
           \A u \in Users : Unlocked(u) \/ (user'[u] = user[u] /\ codes'[u] \subseteq codes[u])
    PROVE  /\ (SessionsSpend /\ RequestsRefer /\ VerifiedDuringReset /\ SnapshotSound
                 /\ ChallengeSingleUse /\ ResetRetiresEverything)'
           /\ req' \in [Requests -> {Idle} \cup Request]
<1>1. TypeOK
    BY DEF LoginInv
<1>2. PICK s0 \in Sessions :
                /\ s0 \notin IssuedSessions
                /\ IssuedSessions' = IssuedSessions \cup {s0}
                /\ session'[s0] = [state |-> "live", user |-> challenge[c].user,
                                   challenge |-> c, factor |-> factor]
                /\ \A s \in IssuedSessions : session'[s] = session[s]
    BY <1>1, SessionInserted
<1>3. session'[s0].challenge = c /\ session'[s0].user = challenge[c].user
    BY <1>2
<1>4. challenge[c].user \in Users
    BY <1>1, ChallengeTyped
<1>5. /\ \A u \in Users : challenge[c].user = u => Spent(c, u)'
      /\ \A d \in Challenges, u \in Users : Spent(d, u) => Spent(d, u)'
      /\ \A d \in Challenges : /\ challenge'[d] = Free <=> challenge[d] = Free
                               /\ challenge[d] # Free => challenge'[d].user = challenge[d].user
                               /\ d # c => challenge'[d] = challenge[d]
    BY <1>1, ChallengeSpent
<1>6. challenge'[c].state = "spent"
    BY <1>4, <1>5 DEF Spent
<1>7. /\ req'[r] = Idle
      /\ \A q \in Requests \ {r} : req'[q] = req[q]
      /\ req' \in [Requests -> {Idle} \cup Request]
    BY <1>1 DEF TypeOK, Becomes
<1>8. \A s \in IssuedSessions : session[s].challenge \in Challenges /\ session[s].user \in Users
                                  /\ session[s].challenge # c
    BY <1>1, SessionTyped DEF LoginInv, SessionsSpend, Spent
<1>9. SessionsSpend'
    BY <1>2, <1>3, <1>4, <1>5, <1>8 DEF LoginInv, SessionsSpend
<1>10. RequestsRefer'
    BY <1>1, <1>5, <1>7, RequestTyped DEF LoginInv, RequestsRefer, Idle
<1>11. VerifiedDuringReset'
    <2>1. SUFFICES ASSUME NEW q \in Requests, req'[q].pc = "totp", NEW d, d = req'[q].challenge,
                          NEW v, v = challenge'[d].user, ~Unlocked(v)', challenge'[d].state = "open",
                          d \notin reset'[v].issued
                   PROVE  req'[q].secret = user'[v].secret /\ req'[q].counter > user'[v].last
        BY DEF VerifiedDuringReset
    <2>2. q # r /\ req'[q] = req[q] /\ d \in Challenges /\ challenge[d] # Free /\ d # c
        BY <2>1, <1>1, <1>6, <1>7, RequestTyped DEF LoginInv, RequestsRefer, Idle
    <2>3. v \in Users /\ challenge'[d] = challenge[d] /\ ~Unlocked(v)
        BY <2>1, <2>2, <1>1, <1>5, ChallengeTyped DEF Unlocked
    <2>4. req[q].secret = user[v].secret /\ req[q].counter > user[v].last
        BY <2>1, <2>2, <2>3 DEF LoginInv, VerifiedDuringReset
    <2> QED BY <2>2, <2>3, <2>4
<1>12. SnapshotSound'
    <2>1. SUFFICES ASSUME NEW v \in Users, ~Unlocked(v)'
                   PROVE  /\ codes'[v] \subseteq reset[v].codes
                          /\ \A d \in reset[v].issued :
                               /\ challenge'[d] # Free /\ challenge'[d].user = v
                               /\ d \in reset[v].open \/ challenge'[d].state = "spent"
                               /\ \A s \in IssuedSessions' :
                                    session'[s].challenge = d /\ session'[s].state = "live"
                                      => s \in reset[v].live \/ d \in reset[v].open
        BY DEF SnapshotSound
    <2>2. ~Unlocked(v) /\ reset[v].issued \subseteq Challenges
        BY <2>1, <1>1 DEF TypeOK, Unlocked, Snapshot
    <2>3. codes'[v] \subseteq reset[v].codes
        BY <2>2 DEF LoginInv, SnapshotSound
    <2>4. ASSUME NEW d \in reset[v].issued
          PROVE  /\ challenge'[d] # Free /\ challenge'[d].user = v
                 /\ d \in reset[v].open \/ challenge'[d].state = "spent"
                 /\ d = c => d \in reset[v].open
        BY <2>2, <1>5, <1>6 DEF LoginInv, SnapshotSound
    <2>5. ASSUME NEW d \in reset[v].issued, NEW s \in IssuedSessions',
                 session'[s].challenge = d, session'[s].state = "live"
          PROVE  s \in reset[v].live \/ d \in reset[v].open
        BY <2>2, <2>4, <2>5, <1>2, <1>3 DEF LoginInv, SnapshotSound
    <2> QED BY <2>3, <2>4, <2>5
<1>13. ChallengeSingleUse'
    BY <1>2, <1>3, <1>8 DEF LoginInv, ChallengeSingleUse
<1>14. ResetRetiresEverything'
    <2>1. \A u \in Users : retired[u] \subseteq Challenges /\ c \notin retired[u]
        BY <1>1 DEF LoginInv, ResetRetiresEverything, TypeOK
    <2> QED BY <2>1, <1>2, <1>3, <1>5 DEF LoginInv, ResetRetiresEverything
<1> QED
    BY <1>7, <1>9, <1>10, <1>11, <1>12, <1>13, <1>14

\* What the three completions have in common, in the form their lemmas use it.
LEMMA Completion ==
    ASSUME LoginInv, NEW c \in Challenges, challenge[c] # Free, challenge[c].state = "open",
           Spend(c), NEW factor \in TotpFactor \cup RecoveryFactor, InsertSession(c, factor)
    PROVE  /\ challenge' \in [Challenges -> {Free} \cup Challenge]
           /\ session' \in [Sessions -> {Free} \cup Session]
           /\ challenge[c].user \in Users
           /\ ~Spent(c, challenge[c].user)
           /\ \A u \in Users : challenge[c].user = u => Spent(c, u)'
           /\ \A d \in Challenges, u \in Users : Spent(d, u) => Spent(d, u)'
           /\ \E s0 \in Sessions :
                /\ s0 \notin IssuedSessions
                /\ IssuedSessions' = IssuedSessions \cup {s0}
                /\ session'[s0].user = challenge[c].user /\ session'[s0].factor = factor
                /\ \A s \in IssuedSessions : /\ session'[s] = session[s]
                                             /\ session[s].user \in Users
<1>1. TypeOK
    BY DEF LoginInv
<1>2. challenge[c].user \in Users /\ ~Spent(c, challenge[c].user)
    BY <1>1, ChallengeTyped DEF Spent
<1>3. /\ challenge' \in [Challenges -> {Free} \cup Challenge]
      /\ \A u \in Users : challenge[c].user = u => Spent(c, u)'
      /\ \A d \in Challenges, u \in Users : Spent(d, u) => Spent(d, u)'
    BY <1>1, ChallengeSpent
<1>4. PICK s0 \in Sessions :
        /\ s0 \notin IssuedSessions
        /\ IssuedSessions' = IssuedSessions \cup {s0}
        /\ session'[s0] = [state |-> "live", user |-> challenge[c].user,
                           challenge |-> c, factor |-> factor]
        /\ \A s \in IssuedSessions : session'[s] = session[s]
    BY <1>1, SessionInserted
<1>5. session' \in [Sessions -> {Free} \cup Session]
    BY <1>1, SessionInserted
<1>6. session'[s0].user = challenge[c].user /\ session'[s0].factor = factor
    BY <1>4
<1>7. \A s \in IssuedSessions : session[s].user \in Users
    BY <1>1, SessionTyped
<1> QED
    BY <1>2, <1>3, <1>4, <1>5, <1>6, <1>7

\* A new TOTP state in one auth_users row.
LEMMA UserUpdated ==
    ASSUME LoginInv, NEW u \in Users, NEW c \in Challenges \cup {None}, NEW n \in Int,
           SetTotp(u, c, n)
    PROVE  /\ user' \in [Users -> User]
           /\ user'[u].secret = c /\ user'[u].last = n
           /\ \A v \in Users \ {u} : user'[v] = user[v]
<1>1. user \in [Users -> User] /\ user[u] \in User
    BY DEF LoginInv, TypeOK
<1>2. user' = [user EXCEPT ![u] = [@ EXCEPT !.secret = c, !.last = n]]
    BY <1>1 DEF User, SetTotp
<1>3. PICK row : row = [user[u] EXCEPT !.secret = c, !.last = n]
    OBVIOUS
<1>4. row \in User /\ row.secret = c /\ row.last = n
    BY <1>1, <1>3 DEF User
<1> QED
    BY <1>1, <1>2, <1>3, <1>4

\* Racing enrolments: the first one to commit makes user.secret non-NULL, and its secret is
\* a challenge that was still open, so no session and no verified code refers to it.
LEMMA CompleteEnrollmentStep ==
    ASSUME LoginInv, NEW r \in Requests, CompleteEnrollment(r)
    PROVE  LoginInv'
<1> SUFFICES ASSUME NEW c, c = req[r].challenge, NEW u, u = challenge[c].user,
                    NEW n, n = req[r].counter
             PROVE  LoginInv'
    OBVIOUS
<1> DEFINE f == [type |-> "totp", secret |-> c, counter |-> n]
<1>1. /\ c \in Challenges /\ challenge[c] # Free /\ challenge[c].state = "open" /\ n \in Nat
      /\ u \in Users /\ Unlocked(u) /\ user[u].secret = None
    BY RequestTyped, ChallengeTyped DEF LoginInv, CompleteEnrollment, RequestsRefer
<1>2. /\ Spend(c) /\ InsertSession(c, f) /\ Becomes(r, Idle)
      /\ SetTotp(u, c, n)
      /\ codes' = [codes EXCEPT ![u] = CodesOf(c)]
      /\ UNCHANGED <<reset, clock, retired>>
    BY DEF CompleteEnrollment
<1>3. f \in TotpFactor \cup RecoveryFactor
    BY <1>1 DEF TotpFactor
<1>4. /\ user'[u].secret = c /\ user'[u].last = n
      /\ codes'[u] = CodesOf(c)
      /\ \A v \in Users \ {u} : user'[v] = user[v] /\ codes'[v] = codes[v]
      /\ user[u].last = -1 /\ c # None
    <2>1. user[u].last = -1 /\ c # None
        BY <1>1, NoneAssumption DEF LoginInv, EnrolledSpent, NoTotp
    <2>2. /\ user'[u].secret = c /\ user'[u].last = n
          /\ \A v \in Users \ {u} : user'[v] = user[v]
        BY <1>1, <1>2, UserUpdated
    <2>3. codes'[u] = CodesOf(c) /\ \A v \in Users \ {u} : codes'[v] = codes[v]
        BY <1>1, <1>2 DEF LoginInv, TypeOK
    <2> QED BY <2>1, <2>2, <2>3
<1>5. f.type = "totp" /\ f.secret = c /\ f.counter = n
    OBVIOUS
<1> HIDE DEF f
<1>6. /\ (SessionsSpend /\ RequestsRefer /\ VerifiedDuringReset /\ SnapshotSound
            /\ ChallengeSingleUse /\ ResetRetiresEverything)'
      /\ req' \in [Requests -> {Idle} \cup Request]
    BY <1>1, <1>2, <1>3, <1>4, SessionOpens
<1>7. /\ challenge' \in [Challenges -> {Free} \cup Challenge]
      /\ session' \in [Sessions -> {Free} \cup Session]
      /\ \A v : ~Spent(c, v)
      /\ Spent(c, u)'
      /\ \A d \in Challenges, v \in Users : Spent(d, v) => Spent(d, v)'
    <2>1. \A v : ~Spent(c, v)
        BY <1>1 DEF Spent
    <2> QED BY <2>1, <1>1, <1>2, <1>3, Completion
<1>8. PICK s0 \in Sessions :
                /\ s0 \notin IssuedSessions
                /\ IssuedSessions' = IssuedSessions \cup {s0}
                /\ session'[s0].user = u /\ session'[s0].factor = f
                /\ \A s \in IssuedSessions : session'[s] = session[s] /\ session[s].user \in Users
    BY <1>1, <1>2, <1>3, Completion
<1>9. TypeOK'
    <2>1. user' \in [Users -> User]
        BY <1>1, <1>2, UserUpdated
    <2>2. codes' \in [Users -> SUBSET Codes]
        BY <1>1, <1>2 DEF LoginInv, TypeOK, Codes, CodesOf
    <2> QED BY <2>1, <2>2, <1>2, <1>6, <1>7 DEF LoginInv, TypeOK
<1>10. \A s \in IssuedSessions : /\ IsTotp(s)' <=> IsTotp(s)
                                 /\ IsTotp(s) => session[s].factor \in TotpFactor
                                 /\ ~IsTotp(s) => session[s].factor \in RecoveryFactor
                                 /\ IsTotp(s) => Spent(session[s].factor.secret, session[s].user)
    BY <1>8, FactorTyped DEF LoginInv, IsTotp, CountersRecorded
<1>11. IsTotp(s0)'
    BY <1>5, <1>8 DEF IsTotp
<1>12. EnrolledSpent'
    <2>1. ASSUME NEW v \in Users \ {u}
          PROVE  IF user'[v].secret = None THEN user'[v].last = NoTotp ELSE Spent(user[v].secret, v)'
        BY <2>1, <1>4, <1>7 DEF LoginInv, TypeOK, User, EnrolledSpent
    <2> QED BY <2>1, <1>1, <1>4, <1>7 DEF EnrolledSpent
<1>13. CountersRecorded'
    <2>1. SUFFICES ASSUME NEW s \in IssuedSessions', IsTotp(s)',
                          NEW k, k = session'[s].factor.secret, NEW v, v = session'[s].user
                   PROVE  /\ Spent(k, v)'
                          /\ user'[v].secret = k => session'[s].factor.counter <= user'[v].last
        BY DEF CountersRecorded
    <2>2. CASE s = s0
        <3>1. k = c /\ v = u /\ session'[s].factor.counter = n
            BY <2>1, <2>2, <1>5, <1>8
        <3>2. n <= user'[v].last
            BY <3>1, <1>1, <1>4
        <3> QED BY <3>1, <3>2, <1>7
    <2>3. CASE s \in IssuedSessions
        <3>1. Spent(k, v) /\ k \in Challenges /\ v \in Users
            BY <2>1, <2>3, <1>8, <1>10 DEF TotpFactor
        <3>2. user[v].secret = k => session[s].factor.counter <= user[v].last
            BY <2>1, <2>3, <1>8, <1>10 DEF LoginInv, CountersRecorded
        <3> QED BY <2>1, <2>3, <3>1, <3>2, <1>4, <1>7, <1>8
    <2> QED BY <2>2, <2>3, <1>8
<1>14. VerifiedCodesGuarded'
    <2>1. SUFFICES ASSUME NEW q \in Requests, req'[q].pc = "totp",
                          NEW d, d = req'[q].challenge, NEW v, v = challenge'[d].user,
                          NEW k, k = req'[q].secret
                   PROVE  /\ Spent(k, v)'
                          /\ challenge'[d].state = "open" =>
                               \A s \in IssuedSessions' :
                                   IsTotp(s)' /\ session'[s].factor.secret = k
                                     /\ session'[s].factor.counter = req'[q].counter
                                   => user'[v].last >= req'[q].counter
        BY DEF VerifiedCodesGuarded
    <2>2. /\ req'[q] = req[q] /\ d \in Challenges /\ k \in Challenges /\ req[q].counter \in Nat
          /\ challenge[d] # Free
        BY <2>1, <1>2, RequestTyped DEF LoginInv, TypeOK, RequestsRefer, Becomes, Idle
    <2>3. v = challenge[d].user /\ v \in Users /\ (challenge'[d].state = "open" => challenge[d].state = "open")
        BY <2>1, <2>2, <1>1, <1>2, ChallengeTyped, ChallengeSpent DEF LoginInv, Spent
    <2>4. Spent(k, v)
        BY <2>1, <2>2, <2>3 DEF LoginInv, VerifiedCodesGuarded
    <2>5. ASSUME challenge'[d].state = "open", NEW s \in IssuedSessions', IsTotp(s)',
                 session'[s].factor.secret = k, session'[s].factor.counter = req'[q].counter
          PROVE  user'[v].last >= req'[q].counter
        <3>1. s \in IssuedSessions
            BY <2>4, <2>5, <1>5, <1>7, <1>8
        <3>2. user[v].last >= req[q].counter
            BY <3>1, <2>1, <2>2, <2>3, <2>5, <1>8, <1>10 DEF LoginInv, VerifiedCodesGuarded
        <3>3. v # u
            BY <3>2, <2>2, <1>4
        <3> QED BY <3>2, <3>3, <2>2, <2>3, <1>4
    <2> QED BY <2>2, <2>4, <2>3, <2>5, <1>7
<1>15. UsedCodesGone'
    <2>1. ASSUME NEW s \in IssuedSessions, ~IsTotp(s)
          PROVE  /\ Spent(session[s].factor.code[1], session[s].user)'
                 /\ session[s].factor.code \notin codes'[session[s].user]
        <3>1. session[s].factor.code \in Codes /\ session[s].factor.code[1] \in Challenges
            BY <2>1, <1>10 DEF RecoveryFactor, Codes
        <3>2. /\ Spent(session[s].factor.code[1], session[s].user)
              /\ session[s].factor.code \notin codes[session[s].user]
            BY <2>1 DEF LoginInv, UsedCodesGone
        <3> QED BY <3>1, <3>2, <1>4, <1>7, <1>8 DEF CodesOf
    <2> QED BY <2>1, <1>8, <1>10, <1>11 DEF UsedCodesGone
<1>16. TotpNoReplay'
    <2>1. \A s \in IssuedSessions : IsTotp(s) => session[s].factor # f
        BY <1>5, <1>7, <1>10
    <2> QED BY <2>1, <1>5, <1>8 DEF LoginInv, TotpNoReplay, IsTotp
<1>17. RecoveryCodeSingleUse'
    BY <1>5, <1>8 DEF LoginInv, RecoveryCodeSingleUse
<1>18. CodesMatchEnrollment'
    BY <1>4 DEF LoginInv, CodesMatchEnrollment, CodesOf
<1> QED
    BY <1>6, <1>9, <1>12, <1>13, <1>14, <1>15, <1>16, <1>17, <1>18 DEF LoginInv

\* A second-factor login keeps the enrolled secret, never lowers the counter and never
\* adds a recovery code; what its own session records is as the invariant wants it.
LEMMA SecondFactorKeeps ==
    ASSUME LoginInv, NEW r \in Requests, NEW c \in Challenges, challenge[c] # Free,
           challenge[c].state = "open", NEW u, u = challenge[c].user,
           Spend(c), NEW f \in TotpFactor \cup RecoveryFactor, InsertSession(c, f),
           Becomes(r, Idle),
           \A v \in Users : /\ user'[v].secret = user[v].secret
                            /\ user'[v].last \in Int /\ user'[v].last >= user[v].last
                            /\ user[v].secret = None => user'[v].last = user[v].last
                            /\ codes'[v] \subseteq codes[v],
           f.type = "totp" => Spent(f.secret, u) /\ f.counter \in Nat /\ f.counter <= user'[u].last,
           f.type # "totp" => Spent(f.code[1], u) /\ f.code \notin codes'[u]
    PROVE  (EnrolledSpent /\ CountersRecorded /\ VerifiedCodesGuarded /\ UsedCodesGone
              /\ CodesMatchEnrollment)'
<1>1. /\ u \in Users
      /\ \A d \in Challenges, v \in Users : Spent(d, v) => Spent(d, v)'
    BY Completion
<1>2. PICK s0 \in Sessions :
                /\ s0 \notin IssuedSessions
                /\ IssuedSessions' = IssuedSessions \cup {s0}
                /\ session'[s0].user = u /\ session'[s0].factor = f
                /\ \A s \in IssuedSessions : session'[s] = session[s] /\ session[s].user \in Users
    BY Completion
<1>3. \A s \in IssuedSessions : /\ IsTotp(s)' <=> IsTotp(s)
                                /\ IsTotp(s) => session[s].factor \in TotpFactor
                                /\ ~IsTotp(s) => session[s].factor \in RecoveryFactor
    BY <1>2, FactorTyped DEF LoginInv, IsTotp
<1>4. /\ f.type = "totp" => f.secret \in Challenges
      /\ f.type # "totp" => f.code \in Codes /\ f.code[1] \in Challenges
      /\ IsTotp(s0)' <=> f.type = "totp"
    BY <1>2 DEF TotpFactor, RecoveryFactor, IsTotp, Codes
<1>5. \A v \in Users : user[v].last \in Int /\ user[v].secret \in Challenges \cup {None}
    BY DEF LoginInv, TypeOK, User
<1>6. EnrolledSpent'
    <2>1. SUFFICES ASSUME NEW v \in Users, NEW k, k = user'[v].secret
                   PROVE  IF k = None THEN user'[v].last = NoTotp ELSE Spent(k, v)'
        BY DEF EnrolledSpent, NoTotp
    <2> QED BY <2>1, <1>1, <1>5 DEF LoginInv, EnrolledSpent
<1>7. CountersRecorded'
    <2>1. SUFFICES ASSUME NEW s \in IssuedSessions', IsTotp(s)',
                          NEW k, k = session'[s].factor.secret, NEW v, v = session'[s].user
                   PROVE  /\ Spent(k, v)'
                          /\ user'[v].secret = k => session'[s].factor.counter <= user'[v].last
        BY DEF CountersRecorded
    <2>2. CASE s = s0
        BY <2>1, <2>2, <1>1, <1>2, <1>4
    <2>3. CASE s \in IssuedSessions
        <3>1. /\ Spent(k, v) /\ k \in Challenges /\ v \in Users
              /\ session[s].factor.counter \in Nat
            BY <2>1, <2>3, <1>2, <1>3 DEF LoginInv, CountersRecorded, TotpFactor
        <3>2. user[v].secret = k => session[s].factor.counter <= user[v].last
            BY <2>1, <2>3, <1>2, <1>3 DEF LoginInv, CountersRecorded
        <3> QED BY <2>1, <2>3, <3>1, <3>2, <1>1, <1>2, <1>5
    <2> QED BY <2>2, <2>3, <1>2
<1>8. VerifiedCodesGuarded'
    <2>1. SUFFICES ASSUME NEW q \in Requests, req'[q].pc = "totp",
                          NEW d, d = req'[q].challenge, NEW v, v = challenge'[d].user,
                          NEW k, k = req'[q].secret
                   PROVE  /\ Spent(k, v)'
                          /\ challenge'[d].state = "open" =>
                               \A s \in IssuedSessions' :
                                   IsTotp(s)' /\ session'[s].factor.secret = k
                                     /\ session'[s].factor.counter = req'[q].counter
                                   => user'[v].last >= req'[q].counter
        BY DEF VerifiedCodesGuarded
    <2>2. /\ req'[q] = req[q] /\ d \in Challenges /\ k \in Challenges /\ req[q].counter \in Nat
          /\ challenge[d] # Free
        BY <2>1, RequestTyped DEF LoginInv, TypeOK, RequestsRefer, Becomes, Idle
    <2>3. v = challenge[d].user /\ v \in Users /\ (challenge'[d].state = "open" => challenge[d].state = "open")
        BY <2>1, <2>2, ChallengeTyped, ChallengeSpent DEF LoginInv, Spent
    <2>4. Spent(k, v)
        BY <2>1, <2>2, <2>3 DEF LoginInv, VerifiedCodesGuarded
    <2>5. ASSUME challenge'[d].state = "open", NEW s \in IssuedSessions', IsTotp(s)',
                 session'[s].factor.secret = k, session'[s].factor.counter = req'[q].counter
          PROVE  user'[v].last >= req'[q].counter
        <3>1. CASE s \in IssuedSessions
            <4>1. user[v].last >= req[q].counter
                BY <3>1, <2>1, <2>2, <2>3, <2>5, <1>2, <1>3 DEF LoginInv, VerifiedCodesGuarded
            <4> QED BY <4>1, <2>2, <2>3, <1>5
        <3>2. CASE s = s0
            <4>1. Spent(k, u) /\ f.counter = req[q].counter /\ f.counter <= user'[u].last
                  /\ f.counter \in Nat
                BY <3>2, <2>2, <2>5, <1>2, <1>4
            <4>2. u = v
                BY <4>1, <2>4 DEF Spent
            <4> QED BY <4>1, <4>2, <2>2, <1>1
        <3> QED BY <3>1, <3>2, <1>2
    <2> QED BY <2>2, <2>4, <2>3, <2>5, <1>1
<1>9. UsedCodesGone'
    <2>1. SUFFICES ASSUME NEW s \in IssuedSessions', ~IsTotp(s)',
                          NEW k, k = session'[s].factor.code, NEW v, v = session'[s].user
                   PROVE  Spent(k[1], v)' /\ k \notin codes'[v]
        BY DEF UsedCodesGone
    <2>2. CASE s = s0
        BY <2>1, <2>2, <1>1, <1>2, <1>4
    <2>3. CASE s \in IssuedSessions
        <3>1. Spent(k[1], v) /\ k \notin codes[v] /\ k[1] \in Challenges /\ v \in Users
            BY <2>1, <2>3, <1>2, <1>3 DEF LoginInv, UsedCodesGone, RecoveryFactor, Codes
        <3> QED BY <3>1, <1>1
    <2> QED BY <2>2, <2>3, <1>2
<1>10. CodesMatchEnrollment'
    BY DEF LoginInv, CodesMatchEnrollment
<1> QED
    BY <1>6, <1>7, <1>8, <1>9, <1>10

LEMMA CounterRaised ==
    ASSUME NEW row \in User, NEW n \in Int
    PROVE  /\ [row EXCEPT !.last = n] \in User
           /\ [row EXCEPT !.last = n].secret = row.secret
           /\ [row EXCEPT !.last = n].last = n
BY DEF User

\* Two requests that verified one code before either committed: the first raises the
\* counter to it, and the check under the row lock stops the second.
LEMMA CompleteTOTPLoginStep ==
    ASSUME LoginInv, NEW r \in Requests, CompleteTOTPLogin(r)
    PROVE  LoginInv'
<1> SUFFICES ASSUME NEW c, c = req[r].challenge, NEW u, u = challenge[c].user,
                    NEW n, n = req[r].counter, NEW k, k = req[r].secret
             PROVE  LoginInv'
    OBVIOUS
<1> DEFINE f == [type |-> "totp", secret |-> k, counter |-> n]
<1>1. /\ c \in Challenges /\ challenge[c] # Free /\ challenge[c].state = "open" /\ n \in Nat
      /\ k \in Challenges /\ u \in Users /\ Unlocked(u) /\ user[u].secret # None /\ user[u].last < n
    BY RequestTyped, ChallengeTyped DEF LoginInv, CompleteTOTPLogin, RequestsRefer
<1>2. /\ Spend(c) /\ InsertSession(c, f) /\ Becomes(r, Idle)
      /\ user' = [user EXCEPT ![u].last = n]
      /\ UNCHANGED <<codes, reset, clock, retired>>
    BY DEF CompleteTOTPLogin
<1>3. f \in TotpFactor \cup RecoveryFactor
    BY <1>1 DEF TotpFactor
<1>4. /\ user' \in [Users -> User]
      /\ user'[u].last = n /\ user'[u].secret = user[u].secret
      /\ \A v \in Users \ {u} : user'[v] = user[v]
    <2>1. user \in [Users -> User] /\ user[u] \in User
        BY <1>1 DEF LoginInv, TypeOK
    <2>2. user' = [user EXCEPT ![u] = [@ EXCEPT !.last = n]]
        BY <1>2
    <2>3. PICK old \in User : old = user[u]
        BY <2>1
    <2>4. PICK row : row = [old EXCEPT !.last = n]
        OBVIOUS
    <2>5. row \in User /\ row.secret = old.secret /\ row.last = n
        BY <1>1, <2>4, CounterRaised
    <2> QED BY <1>1, <2>1, <2>2, <2>3, <2>4, <2>5
<1>5. \A v \in Users : /\ user'[v].secret = user[v].secret
                       /\ user'[v].last \in Int /\ user'[v].last >= user[v].last
                       /\ user[v].secret = None => user'[v].last = user[v].last
    BY <1>1, <1>4 DEF LoginInv, TypeOK, User
<1>6. f.type = "totp" /\ f.secret = k /\ f.counter = n
    OBVIOUS
<1> HIDE DEF f
<1>7. Spent(k, u)
    BY <1>1 DEF LoginInv, VerifiedCodesGuarded, CompleteTOTPLogin
<1>8. /\ (SessionsSpend /\ RequestsRefer /\ VerifiedDuringReset /\ SnapshotSound
            /\ ChallengeSingleUse /\ ResetRetiresEverything)'
      /\ req' \in [Requests -> {Idle} \cup Request]
    BY <1>1, <1>2, <1>3, <1>4, SessionOpens
<1>9. (EnrolledSpent /\ CountersRecorded /\ VerifiedCodesGuarded /\ UsedCodesGone
              /\ CodesMatchEnrollment)'
    <2>1. f.counter <= user'[u].last /\ f.counter \in Nat
        BY <1>1, <1>4, <1>6
    <2>2. \A v \in Users : /\ user'[v].secret = user[v].secret
                           /\ user'[v].last \in Int /\ user'[v].last >= user[v].last
                           /\ user[v].secret = None => user'[v].last = user[v].last
                           /\ codes'[v] \subseteq codes[v]
        BY <1>2, <1>5
    <2>3. f.type = "totp" => Spent(f.secret, u) /\ f.counter \in Nat /\ f.counter <= user'[u].last
        BY <2>1, <1>6, <1>7
    <2> QED BY <2>2, <2>3, <1>1, <1>2, <1>3, <1>6, SecondFactorKeeps
<1>10. /\ challenge' \in [Challenges -> {Free} \cup Challenge]
       /\ session' \in [Sessions -> {Free} \cup Session]
    BY <1>1, <1>2, <1>3, Completion
<1>11. PICK s0 \in Sessions :
                /\ IssuedSessions' = IssuedSessions \cup {s0}
                /\ session'[s0].factor = f
                /\ \A s \in IssuedSessions : session'[s] = session[s]
    BY <1>1, <1>2, <1>3, Completion
<1>12. \A s \in IssuedSessions : session[s].factor # f
    <2>1. SUFFICES ASSUME NEW s \in IssuedSessions, session[s].factor = f PROVE FALSE
        OBVIOUS
    <2>2. IsTotp(s) /\ session[s].factor.secret = req[r].secret
            /\ session[s].factor.counter = req[r].counter
        BY <2>1, <1>6 DEF IsTotp
    <2>3. user[u].last >= n
        BY <2>2, <1>1 DEF LoginInv, VerifiedCodesGuarded, CompleteTOTPLogin
    <2> QED BY <2>3, <1>1 DEF LoginInv, TypeOK, User
<1>13. TotpNoReplay'
    BY <1>11, <1>12 DEF LoginInv, TotpNoReplay
<1>14. RecoveryCodeSingleUse'
    BY <1>6, <1>11 DEF LoginInv, RecoveryCodeSingleUse
<1>15. TypeOK'
    BY <1>2, <1>4, <1>8, <1>10 DEF LoginInv, TypeOK
<1> QED
    BY <1>8, <1>9, <1>13, <1>14, <1>15 DEF LoginInv

\* A recovery code that some session used is no longer among the codes of its user.
LEMMA CompleteRecoveryLoginStep ==
    ASSUME LoginInv, NEW r \in Requests, CompleteRecoveryLogin(r)
    PROVE  LoginInv'
<1> SUFFICES ASSUME NEW c, c = req[r].challenge, NEW u, u = challenge[c].user,
                    NEW k, k = req[r].code
             PROVE  LoginInv'
    OBVIOUS
<1> DEFINE f == [type |-> "recovery", code |-> k]
<1>1. /\ c \in Challenges /\ challenge[c] # Free /\ challenge[c].state = "open"
      /\ u \in Users /\ k \in Codes /\ k \in codes[u]
    BY RequestTyped, ChallengeTyped DEF LoginInv, CompleteRecoveryLogin, RequestsRefer
<1>2. /\ Spend(c) /\ InsertSession(c, f) /\ Becomes(r, Idle)
      /\ codes' = [codes EXCEPT ![u] = @ \ {k}]
      /\ UNCHANGED <<user, reset, clock, retired>>
    BY DEF CompleteRecoveryLogin
<1>3. f \in TotpFactor \cup RecoveryFactor
    BY <1>1 DEF RecoveryFactor
<1>4. /\ codes' \in [Users -> SUBSET Codes]
      /\ codes'[u] = codes[u] \ {k}
      /\ \A v \in Users : codes'[v] \subseteq codes[v]
    BY <1>1, <1>2 DEF LoginInv, TypeOK
<1>5. \A v \in Users : user[v].last \in Int
    BY DEF LoginInv, TypeOK, User
<1>6. f.type = "recovery" /\ f.code = k
    OBVIOUS
<1> HIDE DEF f
<1>7. k[1] = user[u].secret /\ k[1] \in Challenges
    BY <1>1 DEF LoginInv, CodesMatchEnrollment, Codes
<1>8. Spent(k[1], u)
    BY <1>1, <1>7, NoneAssumption DEF LoginInv, EnrolledSpent
<1>9. /\ (SessionsSpend /\ RequestsRefer /\ VerifiedDuringReset /\ SnapshotSound
            /\ ChallengeSingleUse /\ ResetRetiresEverything)'
      /\ req' \in [Requests -> {Idle} \cup Request]
    BY <1>1, <1>2, <1>3, <1>4, SessionOpens
<1>10. (EnrolledSpent /\ CountersRecorded /\ VerifiedCodesGuarded /\ UsedCodesGone
              /\ CodesMatchEnrollment)'
    <2>1. \A v \in Users : /\ user'[v].secret = user[v].secret
                           /\ user'[v].last \in Int /\ user'[v].last >= user[v].last
                           /\ user[v].secret = None => user'[v].last = user[v].last
        BY <1>2, <1>5
    <2>2. k \notin codes'[u]
        BY <1>4
    <2> QED BY <2>1, <2>2, <1>1, <1>2, <1>3, <1>4, <1>6, <1>8, SecondFactorKeeps
<1>11. /\ challenge' \in [Challenges -> {Free} \cup Challenge]
       /\ session' \in [Sessions -> {Free} \cup Session]
    BY <1>1, <1>2, <1>3, Completion
<1>12. PICK s0 \in Sessions :
                /\ IssuedSessions' = IssuedSessions \cup {s0}
                /\ session'[s0].factor = f
                /\ \A s \in IssuedSessions : session'[s] = session[s]
    BY <1>1, <1>2, <1>3, Completion
<1>13. \A s \in IssuedSessions : session[s].factor # f
    <2>1. SUFFICES ASSUME NEW s \in IssuedSessions, session[s].factor = f PROVE FALSE
        OBVIOUS
    <2>2. Spent(k[1], session[s].user) /\ k \notin codes[session[s].user]
        BY <2>1, <1>6 DEF LoginInv, UsedCodesGone, IsTotp
    <2>3. session[s].user = u
        BY <2>2, <1>8 DEF Spent
    <2> QED BY <2>2, <2>3, <1>1
<1>14. TotpNoReplay'
    BY <1>6, <1>12 DEF LoginInv, TotpNoReplay
<1>15. RecoveryCodeSingleUse'
    BY <1>12, <1>13 DEF LoginInv, RecoveryCodeSingleUse
<1>16. TypeOK'
    BY <1>2, <1>4, <1>9, <1>11 DEF LoginInv, TypeOK
<1> QED
    BY <1>9, <1>10, <1>14, <1>15, <1>16 DEF LoginInv

-----------------------------------------------------------------------------
\* Revoking sessions changes nothing but their state.
LEMMA SessionsRevoked ==
    ASSUME TypeOK, NEW ss \in SUBSET IssuedSessions, session' = Revoked(ss)
    PROVE  /\ session' \in [Sessions -> {Free} \cup Session]
           /\ IssuedSessions' = IssuedSessions
           /\ \A s \in IssuedSessions :
                /\ session'[s].user = session[s].user
                /\ session'[s].challenge = session[s].challenge
                /\ session'[s].factor = session[s].factor
                /\ IsTotp(s)' <=> IsTotp(s)
                /\ session'[s].state = IF s \in ss THEN "revoked" ELSE session[s].state
<1>1. ASSUME NEW s \in IssuedSessions
      PROVE  /\ session'[s] \in Session
             /\ session'[s].user = session[s].user
             /\ session'[s].challenge = session[s].challenge
             /\ session'[s].factor = session[s].factor
             /\ session'[s].state = IF s \in ss THEN "revoked" ELSE session[s].state
    <2>1. session[s] \in Session /\ s \in Sessions
        BY SessionTyped
    <2>2. session'[s] = IF s \in ss THEN [session[s] EXCEPT !.state = "revoked"] ELSE session[s]
        BY <2>1 DEF Revoked
    <2> QED BY <2>1, <2>2 DEF Session
<1>2. \A s \in Sessions \ IssuedSessions : session'[s] = Free
    BY DEF Revoked, IssuedSessions
<1>3. session' \in [Sessions -> {Free} \cup Session]
    <2>1. \A s \in Sessions : session'[s] \in {Free} \cup Session
        BY <1>1, <1>2
    <2> QED BY <2>1 DEF Revoked
<1>4. IssuedSessions' = IssuedSessions
    <2>1. \A s \in Sessions : session'[s] # Free <=> session[s] # Free
        BY <1>1, <1>2 DEF Session, Free, IssuedSessions
    <2> QED BY <2>1 DEF IssuedSessions
<1> QED
    BY <1>1, <1>3, <1>4 DEF IsTotp

\* Steps that only revoke sessions or change who is disabled: Disable, Enable,
\* RevokeSession and Tick.
LEMMA RowsMarked ==
    ASSUME LoginInv, NEW ss \in SUBSET IssuedSessions, session' = Revoked(ss),
           user' \in [Users -> User], clock' \in Nat,
           \A u \in Users : user'[u].secret = user[u].secret /\ user'[u].last = user[u].last,
           UNCHANGED <<codes, challenge, req, reset, retired>>
    PROVE  LoginInv'
<1>1. TypeOK
    BY DEF LoginInv
<1>2. /\ session' \in [Sessions -> {Free} \cup Session]
      /\ IssuedSessions' = IssuedSessions
      /\ \A s \in IssuedSessions :
           /\ session'[s].user = session[s].user
           /\ session'[s].challenge = session[s].challenge
           /\ session'[s].factor = session[s].factor
           /\ IsTotp(s)' <=> IsTotp(s)
           /\ session'[s].state = IF s \in ss THEN "revoked" ELSE session[s].state
    BY <1>1, SessionsRevoked
<1>3. \A d, v : Spent(d, v)' <=> Spent(d, v)
    BY DEF Spent
<1>4. \A s \in IssuedSessions : session[s].user \in Users
    BY <1>1, SessionTyped
<1>5. TypeOK'
    BY <1>1, <1>2 DEF TypeOK
<1>6. SessionsSpend'
    BY <1>2, <1>3 DEF LoginInv, SessionsSpend, Spent
<1>7. RequestsRefer'
    BY DEF LoginInv, RequestsRefer
<1>8. EnrolledSpent'
    BY <1>3 DEF LoginInv, EnrolledSpent, Spent
<1>9. CountersRecorded'
    BY <1>2, <1>3, <1>4 DEF LoginInv, CountersRecorded, Spent
<1>10. \A q \in Requests : req[q].pc = "totp" => challenge[req[q].challenge].user \in Users
    BY <1>1, RequestTyped, ChallengeTyped DEF LoginInv, RequestsRefer
<1>11. VerifiedCodesGuarded'
    BY <1>2, <1>3, <1>10 DEF LoginInv, VerifiedCodesGuarded, Spent
<1>12. VerifiedDuringReset'
    BY <1>10 DEF LoginInv, VerifiedDuringReset, Unlocked
<1>13. SnapshotSound'
    BY <1>2 DEF LoginInv, SnapshotSound, Unlocked
<1>14. UsedCodesGone'
    BY <1>2, <1>3 DEF LoginInv, UsedCodesGone, Spent
<1>15. (ChallengeSingleUse /\ TotpNoReplay /\ RecoveryCodeSingleUse)'
    BY <1>2 DEF LoginInv, ChallengeSingleUse, TotpNoReplay, RecoveryCodeSingleUse
<1>16. ResetRetiresEverything'
    BY <1>2 DEF LoginInv, ResetRetiresEverything
<1>17. CodesMatchEnrollment'
    BY DEF LoginInv, CodesMatchEnrollment
<1> QED
    BY <1>5, <1>6, <1>7, <1>8, <1>9, <1>11, <1>12, <1>13, <1>14, <1>15, <1>16, <1>17 DEF LoginInv

LEMMA NothingRevoked ==
    ASSUME TypeOK, UNCHANGED session
    PROVE  {} \in SUBSET IssuedSessions /\ session' = Revoked({})
BY DEF TypeOK, Revoked

\* Setting or clearing disabled_at keeps the rest of the row.
LEMMA DisabledMarked ==
    ASSUME TypeOK, NEW u \in Users, NEW b \in BOOLEAN, user' = [user EXCEPT ![u].disabled = b]
    PROVE  /\ user' \in [Users -> User]
           /\ \A v \in Users : user'[v].secret = user[v].secret /\ user'[v].last = user[v].last
<1>1. ASSUME NEW row \in User
      PROVE  /\ [row EXCEPT !.disabled = b] \in User
             /\ [row EXCEPT !.disabled = b].secret = row.secret
             /\ [row EXCEPT !.disabled = b].last = row.last
    BY DEF User
<1>2. PICK old \in User : old = user[u]
    BY DEF TypeOK
<1>3. PICK row : row = [old EXCEPT !.disabled = b]
    OBVIOUS
<1>4. row \in User /\ row.secret = old.secret /\ row.last = old.last
    BY <1>1, <1>3
<1>5. user' = [user EXCEPT ![u] = [@ EXCEPT !.disabled = b]]
    OBVIOUS
<1> QED
    BY <1>2, <1>3, <1>4, <1>5 DEF TypeOK

LEMMA MarkingSteps ==
    ASSUME LoginInv,
           \/ \E u \in Users : Disable(u) \/ Enable(u)
           \/ \E s \in Sessions : RevokeSession(s)
           \/ Tick
    PROVE  LoginInv'
<1>1. TypeOK
    BY DEF LoginInv
<1>2. ASSUME NEW u \in Users, Disable(u) PROVE LoginInv'
    <2>1. LiveOf(u) \in SUBSET IssuedSessions
        BY DEF LiveOf, IssuedSessions, Free
    <2> QED BY <1>1, <1>2, <2>1, DisabledMarked, RowsMarked DEF Disable, TypeOK
<1>3. ASSUME NEW u \in Users, Enable(u) PROVE LoginInv'
    BY <1>1, <1>3, NothingRevoked, DisabledMarked, RowsMarked DEF Enable, TypeOK
<1>4. ASSUME NEW s \in Sessions, RevokeSession(s) PROVE LoginInv'
    <2>1. {s} \in SUBSET IssuedSessions
        BY <1>4 DEF RevokeSession, IssuedSessions, Free
    <2> QED BY <1>1, <1>4, <2>1, RowsMarked DEF RevokeSession, TypeOK
<1>5. ASSUME Tick PROVE LoginInv'
    BY <1>1, <1>5, NothingRevoked, RowsMarked DEF Tick, TypeOK
<1> QED
    BY <1>2, <1>3, <1>4, <1>5

LEMMA ExpireStep ==
    ASSUME LoginInv, NEW c \in Challenges, Expire(c)
    PROVE  LoginInv'
<1>1. /\ challenge[c] # Free /\ challenge' = [challenge EXCEPT ![c].expired = TRUE]
      /\ UNCHANGED <<user, codes, session, req, reset, clock, retired>>
    BY DEF Expire
<1>2. PICK old \in Challenge : old = challenge[c]
    BY <1>1, ChallengeTyped DEF LoginInv
<1>3. PICK row : row = [old EXCEPT !.expired = TRUE]
    OBVIOUS
<1>4. row \in Challenge /\ row.state = old.state /\ row.user = old.user
    BY <1>3 DEF Challenge
<1>5. challenge' = [challenge EXCEPT ![c] = [@ EXCEPT !.expired = TRUE]]
    BY <1>1
<1>6. /\ challenge' \in [Challenges -> {Free} \cup Challenge]
      /\ challenge'[c] = row /\ \A d \in Challenges \ {c} : challenge'[d] = challenge[d]
    BY <1>2, <1>3, <1>4, <1>5 DEF LoginInv, TypeOK
<1>7. \A d \in Challenges : /\ challenge'[d] = Free <=> challenge[d] = Free
                            /\ challenge'[d].state = challenge[d].state
                            /\ challenge[d] # Free => challenge'[d].user = challenge[d].user
    BY <1>1, <1>2, <1>4, <1>6 DEF Challenge, Free
<1>8. \A d \in Challenges, u \in Users : Spent(d, u)' <=> Spent(d, u)
    BY <1>7 DEF Spent
<1>9. IssuedSessions' = IssuedSessions /\ \A s \in Sessions : IsTotp(s)' <=> IsTotp(s)
    BY <1>1 DEF IssuedSessions, IsTotp
<1>10. TypeOK
    BY DEF LoginInv
<1>11. TypeOK'
    BY <1>1, <1>6, <1>10 DEF TypeOK
<1>12. SessionsSpend'
    BY <1>1, <1>8, <1>9, <1>10, SessionTyped DEF LoginInv, SessionsSpend
<1>13. RequestsRefer'
    BY <1>1, <1>7, <1>10, RequestTyped DEF LoginInv, RequestsRefer
<1>14. EnrolledSpent'
    BY <1>1, <1>8, <1>10 DEF LoginInv, EnrolledSpent, TypeOK, User
<1>15. CountersRecorded'
    BY <1>1, <1>8, <1>9, <1>10, SessionTyped, FactorTyped DEF LoginInv, CountersRecorded, TotpFactor,
       IssuedSessions
<1>16. \A q \in Requests : req[q].pc = "totp" =>
          /\ req[q].challenge \in Challenges /\ req[q].secret \in Challenges
          /\ challenge'[req[q].challenge].state = challenge[req[q].challenge].state
          /\ challenge'[req[q].challenge].user = challenge[req[q].challenge].user
          /\ challenge[req[q].challenge].user \in Users
    BY <1>7, <1>10, RequestTyped, ChallengeTyped DEF LoginInv, RequestsRefer
<1>17. VerifiedCodesGuarded'
    BY <1>1, <1>8, <1>9, <1>16 DEF LoginInv, VerifiedCodesGuarded, IssuedSessions
<1>18. VerifiedDuringReset'
    BY <1>1, <1>16 DEF LoginInv, VerifiedDuringReset, Unlocked
<1>19. SnapshotSound'
    <2>1. \A u \in Users : ~Unlocked(u) => reset[u].issued \subseteq Challenges
        BY <1>10 DEF TypeOK, Unlocked, Snapshot
    <2> QED BY <2>1, <1>1, <1>7, <1>9 DEF LoginInv, SnapshotSound, Unlocked
<1>20. UsedCodesGone'
    BY <1>1, <1>8, <1>9, <1>10, SessionTyped, FactorTyped
    DEF LoginInv, UsedCodesGone, RecoveryFactor, Codes, IssuedSessions
<1>21. ResetRetiresEverything'
    BY <1>1, <1>7, <1>9, <1>10 DEF LoginInv, ResetRetiresEverything, TypeOK
<1>22. (ChallengeSingleUse /\ TotpNoReplay /\ RecoveryCodeSingleUse /\ CodesMatchEnrollment)'
    BY <1>1, <1>9 DEF LoginInv, ChallengeSingleUse, TotpNoReplay, RecoveryCodeSingleUse,
       CodesMatchEnrollment
<1> QED
    BY <1>11, <1>12, <1>13, <1>14, <1>15, <1>17, <1>18, <1>19, <1>20, <1>21, <1>22 DEF LoginInv

\* A reset starts or is given up: only its snapshot changes.
LEMMA ResetEndsStep ==
    ASSUME LoginInv, NEW u \in Users, (\E kind \in {"password", "totp"} : ResetBegin(u, kind)) \/ ResetAbort(u)
    PROVE  LoginInv'
<1>1. /\ UNCHANGED <<user, codes, challenge, session, req, clock, retired>>
      /\ \A v \in Users \ {u} : reset'[v] = reset[v]
    BY DEF ResetBegin, ResetAbort, LoginInv, TypeOK
<1>2. \/ reset'[u] = Idle
      \/ \E kind \in {"password", "totp"} :
           reset'[u] = [kind |-> kind, issued |-> Issued(u), open |-> OpenOf(u),
                        live |-> LiveOf(u), codes |-> codes[u]]
    BY DEF ResetBegin, ResetAbort, LoginInv, TypeOK
<1>3. TypeOK
    BY DEF LoginInv
<1>4. reset' \in [Users -> {Idle} \cup Snapshot]
    <2>1. \A kind \in {"password", "totp"} :
              [kind |-> kind, issued |-> Issued(u), open |-> OpenOf(u),
               live |-> LiveOf(u), codes |-> codes[u]] \in Snapshot
        BY <1>3 DEF TypeOK, Snapshot, Issued, OpenOf, LiveOf
    <2> QED BY <2>1, <1>3 DEF TypeOK, ResetBegin, ResetAbort
<1>5. TypeOK'
    BY <1>1, <1>3, <1>4 DEF TypeOK
<1>6. reset'[u] # Idle => /\ reset'[u].issued = Issued(u) /\ reset'[u].open = OpenOf(u)
                          /\ reset'[u].live = LiveOf(u) /\ reset'[u].codes = codes[u]
    BY <1>2
<1>7. VerifiedDuringReset'
    <2>1. SUFFICES ASSUME NEW q \in Requests, req[q].pc = "totp", NEW d, d = req[q].challenge,
                          NEW v, v = challenge[d].user, ~Unlocked(v)', challenge[d].state = "open",
                          d \notin reset'[v].issued
                   PROVE  req[q].secret = user[v].secret /\ req[q].counter > user[v].last
        BY <1>1 DEF VerifiedDuringReset
    <2>2. d \in Challenges /\ challenge[d] # Free /\ v \in Users
        BY <2>1, <1>3, RequestTyped, ChallengeTyped DEF LoginInv, RequestsRefer
    <2>3. v # u
        BY <2>1, <2>2, <1>6 DEF Issued, Unlocked
    <2> QED BY <2>1, <2>2, <2>3, <1>1 DEF LoginInv, VerifiedDuringReset, Unlocked
<1>8. SnapshotSound'
    <2>1. SUFFICES ASSUME NEW v \in Users, ~Unlocked(v)'
                   PROVE  /\ codes[v] \subseteq reset'[v].codes
                          /\ \A d \in reset'[v].issued :
                               /\ challenge[d] # Free /\ challenge[d].user = v
                               /\ d \in reset'[v].open \/ challenge[d].state = "spent"
                               /\ \A s \in IssuedSessions :
                                    session[s].challenge = d /\ session[s].state = "live"
                                      => s \in reset'[v].live \/ d \in reset'[v].open
        BY <1>1 DEF SnapshotSound, IssuedSessions
    <2>2. CASE v # u
        BY <2>1, <2>2, <1>1 DEF LoginInv, SnapshotSound, Unlocked
    <2>3. CASE v = u
        <3>1. /\ reset'[v].issued = Issued(u) /\ reset'[v].open = OpenOf(u)
              /\ reset'[v].live = LiveOf(u) /\ reset'[v].codes = codes[u]
            BY <2>1, <2>3, <1>6 DEF Unlocked
        <3>2. \A d \in Issued(u) : d \in OpenOf(u) \/ challenge[d].state = "spent"
            BY <1>3, ChallengeTyped DEF Issued, OpenOf
        <3>3. \A d \in Issued(u) : \A s \in IssuedSessions :
                  session[s].challenge = d /\ session[s].state = "live" => s \in LiveOf(u)
            BY <1>3, SessionTyped DEF LoginInv, SessionsSpend, Spent, Issued, LiveOf
        <3> QED BY <2>3, <3>1, <3>2, <3>3 DEF Issued
    <2> QED BY <2>2, <2>3
<1>9. IssuedSessions' = IssuedSessions
    BY <1>1 DEF IssuedSessions
<1>10. (SessionsSpend /\ RequestsRefer /\ EnrolledSpent /\ CountersRecorded /\ VerifiedCodesGuarded
          /\ UsedCodesGone)'
    BY <1>1, <1>9 DEF LoginInv, SessionsSpend, RequestsRefer, EnrolledSpent, CountersRecorded,
       VerifiedCodesGuarded, UsedCodesGone, Spent, IsTotp
<1>11. (ChallengeSingleUse /\ TotpNoReplay /\ RecoveryCodeSingleUse /\ ResetRetiresEverything
          /\ CodesMatchEnrollment)'
    BY <1>1, <1>9 DEF LoginInv, ChallengeSingleUse, TotpNoReplay, RecoveryCodeSingleUse,
       ResetRetiresEverything, CodesMatchEnrollment
<1> QED
    BY <1>5, <1>7, <1>8, <1>10, <1>11 DEF LoginInv

\* A reset commits: everything its snapshot held open is spent, everything live revoked.
\* A completion that slipped in either spent a row of the snapshot, and the reset could not
\* commit, or used a challenge inserted after the snapshot, and is no business of this reset.
LEMMA ResetCommitStep ==
    ASSUME LoginInv, NEW u \in Users, ResetCommit(u)
    PROVE  LoginInv'
<1> SUFFICES ASSUME NEW snap, snap = reset[u]
             PROVE  LoginInv'
    OBVIOUS
<1>1. /\ ~Unlocked(u) /\ SnapshotIntact(u)
      /\ session' = Revoked(snap.live)
      /\ challenge' = [c \in Challenges |->
             IF c \in snap.open THEN [challenge[c] EXCEPT !.state = "spent"] ELSE challenge[c]]
      /\ retired' = [retired EXCEPT ![u] = @ \cup snap.issued]
      /\ reset' = [reset EXCEPT ![u] = Idle]
      /\ UNCHANGED <<req, clock>>
    BY DEF ResetCommit
<1>2. /\ snap.kind = "totp" => /\ SetTotp(u, None, NoTotp)
                               /\ codes' = [codes EXCEPT ![u] = @ \ snap.codes]
      /\ snap.kind # "totp" => UNCHANGED <<user, codes>>
    BY DEF ResetCommit
<1>3. TypeOK
    BY DEF LoginInv
<1>4. snap \in Snapshot
    BY <1>1, <1>3 DEF TypeOK, Unlocked
<1>5. /\ snap.open \subseteq Challenges /\ snap.issued \subseteq Challenges /\ snap.live \subseteq Sessions
      /\ \A c \in snap.open : challenge[c].state = "open"
      /\ \A s \in snap.live : session[s].state = "live"
    BY <1>1, <1>4 DEF SnapshotIntact, Snapshot
<1>6. snap.live \in SUBSET IssuedSessions
    BY <1>5 DEF IssuedSessions, Free
<1>7. /\ session' \in [Sessions -> {Free} \cup Session]
      /\ IssuedSessions' = IssuedSessions
      /\ \A s \in IssuedSessions :
           /\ session'[s].user = session[s].user
           /\ session'[s].challenge = session[s].challenge
           /\ session'[s].factor = session[s].factor
           /\ IsTotp(s)' <=> IsTotp(s)
           /\ session'[s].state = IF s \in snap.live THEN "revoked" ELSE session[s].state
    BY <1>1, <1>3, <1>6, SessionsRevoked
<1>8. ASSUME NEW c \in Challenges
      PROVE  /\ c \notin snap.open => challenge'[c] = challenge[c]
             /\ c \in snap.open => challenge'[c] \in Challenge /\ challenge'[c].state = "spent"
             /\ challenge[c] # Free => challenge'[c].user = challenge[c].user
             /\ challenge'[c] = Free <=> challenge[c] = Free
    <2>1. CASE c \notin snap.open
        BY <2>1, <1>1
    <2>2. CASE c \in snap.open
        <3>1. challenge[c] # Free
            BY <2>2, <1>5 DEF Free
        <3>2. PICK old \in Challenge : old = challenge[c]
            BY <3>1, <1>3, ChallengeTyped
        <3>3. PICK row : row = [old EXCEPT !.state = "spent"]
            OBVIOUS
        <3>4. row \in Challenge /\ row.state = "spent" /\ row.user = old.user /\ row # Free
            BY <3>3 DEF Challenge, Free
        <3>5. challenge'[c] = row
            BY <2>2, <3>2, <3>3, <1>1
        <3> QED BY <2>2, <3>1, <3>2, <3>4, <3>5
    <2> QED BY <2>1, <2>2
<1>9. \A c \in Challenges, v \in Users : Spent(c, v) => Spent(c, v)'
    BY <1>5, <1>8 DEF Spent
<1>10. \A v \in Users \ {u} : user'[v] = user[v] /\ codes'[v] = codes[v]
    <2>1. CASE snap.kind = "totp"
        <3>1. \A v \in Users \ {u} : user'[v] = user[v]
            BY <2>1, <1>2, UserUpdated DEF NoTotp
        <3> QED BY <2>1, <3>1, <1>2, <1>3 DEF TypeOK
    <2> QED BY <2>1, <1>2
<1>11. IF snap.kind = "totp" THEN user'[u].secret = None /\ user'[u].last = NoTotp /\ codes'[u] = {}
       ELSE user'[u] = user[u] /\ codes'[u] = codes[u]
    <2>1. codes[u] \subseteq snap.codes
        BY <1>1 DEF LoginInv, SnapshotSound
    <2>2. CASE snap.kind = "totp"
        <3>1. user'[u].secret = None /\ user'[u].last = NoTotp
            BY <2>2, <1>2, UserUpdated DEF NoTotp
        <3> QED BY <2>1, <2>2, <3>1, <1>2, <1>3 DEF TypeOK
    <2> QED BY <2>2, <1>2
<1>12. TypeOK'
    <2>1. challenge' \in [Challenges -> {Free} \cup Challenge]
        <3>1. \A c \in Challenges : challenge'[c] \in {Free} \cup Challenge
            BY <1>3, <1>8 DEF TypeOK
        <3> QED BY <3>1, <1>1
    <2>2. user' \in [Users -> User]
        <3>1. CASE snap.kind = "totp"
            BY <3>1, <1>2, UserUpdated DEF NoTotp
        <3>2. CASE snap.kind # "totp"
            BY <3>2, <1>2, <1>3 DEF TypeOK
        <3> QED BY <3>1, <3>2
    <2>3. codes' \in [Users -> SUBSET Codes]
        BY <1>2, <1>3 DEF TypeOK
    <2>4. retired' \in [Users -> SUBSET Challenges]
        BY <1>1, <1>3, <1>5 DEF TypeOK
    <2>5. reset' \in [Users -> {Idle} \cup Snapshot]
        BY <1>1, <1>3 DEF TypeOK
    <2> QED BY <2>1, <2>2, <2>3, <2>4, <2>5, <1>1, <1>3, <1>7 DEF TypeOK
<1>13. SessionsSpend'
    BY <1>3, <1>7, <1>9, SessionTyped DEF LoginInv, SessionsSpend
<1>14. RequestsRefer'
    BY <1>1, <1>3, <1>8, RequestTyped DEF LoginInv, RequestsRefer
<1>15. EnrolledSpent'
    <2>1. SUFFICES ASSUME NEW v \in Users, NEW k, k = user'[v].secret
                   PROVE  IF k = None THEN user'[v].last = NoTotp ELSE Spent(k, v)'
        BY DEF EnrolledSpent, NoTotp
    <2>2. CASE v = u /\ snap.kind = "totp"
        BY <2>1, <2>2, <1>11
    <2>3. CASE user'[v] = user[v]
        BY <2>1, <2>3, <1>3, <1>9 DEF LoginInv, EnrolledSpent, TypeOK, User
    <2> QED BY <2>2, <2>3, <1>10, <1>11
<1>16. CountersRecorded'
    <2>1. SUFFICES ASSUME NEW s \in IssuedSessions, IsTotp(s),
                          NEW k, k = session[s].factor.secret, NEW v, v = session[s].user
                   PROVE  /\ Spent(k, v)'
                          /\ user'[v].secret = k => session[s].factor.counter <= user'[v].last
        BY <1>7 DEF CountersRecorded
    <2>2. Spent(k, v) /\ k \in Challenges /\ v \in Users
        BY <2>1, <1>3, SessionTyped, FactorTyped DEF LoginInv, CountersRecorded, TotpFactor
    <2>3. CASE v = u /\ snap.kind = "totp"
        BY <2>2, <2>3, <1>9, <1>11, NoneAssumption
    <2>4. CASE user'[v] = user[v]
        BY <2>1, <2>2, <2>4, <1>9 DEF LoginInv, CountersRecorded
    <2> QED BY <2>2, <2>3, <2>4, <1>10, <1>11
<1>17. ASSUME NEW q \in Requests, req[q].pc = "totp"
       PROVE  /\ req[q].challenge \in Challenges /\ challenge[req[q].challenge] # Free
              /\ challenge[req[q].challenge].user \in Users
              /\ req[q].secret \in Challenges /\ req[q].counter \in Nat
    BY <1>3, <1>17, RequestTyped, ChallengeTyped DEF LoginInv, RequestsRefer
<1>18. VerifiedCodesGuarded'
    <2>1. SUFFICES ASSUME NEW q \in Requests, req[q].pc = "totp",
                          NEW d, d = req[q].challenge, NEW v, v = challenge[d].user,
                          NEW k, k = req[q].secret
                   PROVE  /\ Spent(k, v)'
                          /\ challenge'[d].state = "open" =>
                               \A s \in IssuedSessions :
                                   IsTotp(s) /\ session[s].factor.secret = k
                                     /\ session[s].factor.counter = req[q].counter
                                   => user'[v].last >= req[q].counter
        BY <1>1, <1>7, <1>8, <1>17 DEF VerifiedCodesGuarded
    <2>2. Spent(k, v) /\ k \in Challenges /\ v \in Users /\ d \in Challenges /\ challenge[d] # Free
        BY <2>1, <1>17 DEF LoginInv, VerifiedCodesGuarded
    <2>3. ASSUME challenge'[d].state = "open", NEW s \in IssuedSessions, IsTotp(s),
                 session[s].factor.secret = k, session[s].factor.counter = req[q].counter
          PROVE  user'[v].last >= req[q].counter
        <3>1. d \notin snap.open /\ challenge[d].state = "open"
            BY <2>2, <2>3, <1>8
        <3>2. user[v].last >= req[q].counter
            BY <2>1, <2>3, <3>1 DEF LoginInv, VerifiedCodesGuarded
        <3>3. CASE user'[v] = user[v]
            BY <3>2, <3>3
        <3>4. CASE v = u /\ snap.kind = "totp"
            <4>1. d \notin snap.issued
                BY <3>1, <3>4, <1>1 DEF LoginInv, SnapshotSound
            <4>2. req[q].counter > user[u].last
                BY <2>1, <3>1, <3>4, <4>1, <1>1 DEF LoginInv, VerifiedDuringReset
            <4> QED BY <3>2, <3>4, <4>2, <2>1, <1>3, <1>17 DEF TypeOK, User
        <3> QED BY <2>2, <3>3, <3>4, <1>10, <1>11
    <2> QED BY <2>2, <2>3, <1>9
<1>19. VerifiedDuringReset'
    <2>1. SUFFICES ASSUME NEW q \in Requests, req'[q].pc = "totp",
                          NEW d, d = req'[q].challenge, NEW v, v = challenge'[d].user,
                          ~Unlocked(v)', challenge'[d].state = "open", d \notin reset'[v].issued
                   PROVE  req'[q].secret = user'[v].secret /\ req'[q].counter > user'[v].last
        BY DEF VerifiedDuringReset
    <2>2. d \in Challenges /\ v \in Users /\ v = challenge[d].user /\ req'[q] = req[q]
        BY <2>1, <1>1, <1>8, <1>17
    <2>3. v # u /\ reset'[v] = reset[v] /\ ~Unlocked(v)
        BY <2>1, <2>2, <1>1, <1>3 DEF Unlocked, TypeOK
    <2>4. challenge[d].state = "open"
        BY <2>1, <2>2, <1>8
    <2> QED BY <2>1, <2>2, <2>3, <2>4, <1>10 DEF LoginInv, VerifiedDuringReset
<1>20. SnapshotSound'
    <2>1. SUFFICES ASSUME NEW v \in Users, ~Unlocked(v)'
                   PROVE  /\ codes'[v] \subseteq reset'[v].codes
                          /\ \A d \in reset'[v].issued :
                               /\ challenge'[d] # Free /\ challenge'[d].user = v
                               /\ d \in reset'[v].open \/ challenge'[d].state = "spent"
                               /\ \A s \in IssuedSessions :
                                    session[s].challenge = d /\ session'[s].state = "live"
                                      => s \in reset'[v].live \/ d \in reset'[v].open
        BY <1>7 DEF SnapshotSound
    <2>2. v # u /\ reset'[v] = reset[v] /\ ~Unlocked(v)
        BY <2>1, <1>1, <1>3 DEF Unlocked, TypeOK
    <2>3. reset[v].issued \subseteq Challenges
        BY <2>2, <1>3 DEF TypeOK, Unlocked, Snapshot
    <2>4. codes'[v] \subseteq reset[v].codes
        BY <2>2, <1>10 DEF LoginInv, SnapshotSound
    <2>5. ASSUME NEW d \in reset[v].issued
          PROVE  /\ challenge'[d] # Free /\ challenge'[d].user = v
                 /\ d \in reset[v].open \/ challenge'[d].state = "spent"
        BY <2>2, <2>3, <1>8 DEF LoginInv, SnapshotSound
    <2>6. ASSUME NEW d \in reset[v].issued, NEW s \in IssuedSessions,
                 session[s].challenge = d, session'[s].state = "live"
          PROVE  s \in reset[v].live \/ d \in reset[v].open
        BY <2>2, <2>6, <1>7 DEF LoginInv, SnapshotSound
    <2> QED BY <2>2, <2>4, <2>5, <2>6
<1>21. \A v \in Users : codes'[v] \subseteq codes[v]
    BY <1>10, <1>11
<1>22. UsedCodesGone'
    <2>1. SUFFICES ASSUME NEW s \in IssuedSessions, ~IsTotp(s),
                          NEW k, k = session[s].factor.code, NEW v, v = session[s].user
                   PROVE  Spent(k[1], v)' /\ k \notin codes'[v]
        BY <1>7 DEF UsedCodesGone
    <2>2. Spent(k[1], v) /\ k \notin codes[v]
        BY <2>1 DEF LoginInv, UsedCodesGone
    <2>3. k[1] \in Challenges /\ v \in Users
        BY <2>1, <1>3, SessionTyped, FactorTyped DEF RecoveryFactor, Codes
    <2> QED BY <2>2, <2>3, <1>9, <1>21
<1>23. (ChallengeSingleUse /\ TotpNoReplay /\ RecoveryCodeSingleUse)'
    BY <1>7 DEF LoginInv, ChallengeSingleUse, TotpNoReplay, RecoveryCodeSingleUse
<1>24. ResetRetiresEverything'
    <2>1. SUFFICES ASSUME NEW v \in Users, NEW d \in retired'[v]
                   PROVE  /\ challenge'[d].state = "spent"
                          /\ \A s \in IssuedSessions : session[s].challenge = d => session'[s].state = "revoked"
        BY <1>7 DEF ResetRetiresEverything
    <2>2. CASE d \in retired[v]
        <3>1. d \in Challenges
            BY <2>2, <1>3 DEF TypeOK
        <3> QED BY <2>2, <3>1, <1>7, <1>8 DEF LoginInv, ResetRetiresEverything
    <2>3. CASE d \in snap.issued
        <3>1. d \in Challenges /\ (d \in snap.open \/ challenge[d].state = "spent")
            BY <2>3, <1>1, <1>5 DEF LoginInv, SnapshotSound
        <3>2. challenge'[d].state = "spent"
            BY <3>1, <1>8
        <3>3. ASSUME NEW s \in IssuedSessions, session[s].challenge = d
              PROVE  session'[s].state = "revoked"
            <4>1. d \notin snap.open
                BY <3>3, <1>5 DEF LoginInv, SessionsSpend, Spent
            <4>2. session[s].state = "live" => s \in snap.live
                BY <2>3, <3>3, <4>1, <1>1 DEF LoginInv, SnapshotSound
            <4> QED BY <4>2, <1>3, <1>7, SessionTyped
        <3> QED BY <3>2, <3>3
    <2> QED BY <2>2, <2>3, <1>1, <1>3 DEF TypeOK
<1>25. CodesMatchEnrollment'
    <2>1. SUFFICES ASSUME NEW v \in Users, NEW k \in codes'[v] PROVE k[1] = user'[v].secret
        BY DEF CodesMatchEnrollment
    <2>2. user'[v] = user[v] /\ k \in codes[v]
        BY <2>1, <1>10, <1>11
    <2> QED BY <2>2 DEF LoginInv, CodesMatchEnrollment
<1> QED
    BY <1>12, <1>13, <1>14, <1>15, <1>16, <1>18, <1>19, <1>20, <1>22, <1>23, <1>24, <1>25 DEF LoginInv

-----------------------------------------------------------------------------
LEMMA RequestSteps ==
    ASSUME LoginInv, NEW r \in Requests,
           \/ \E u \in Users : BeginLogin(r, u)
           \/ \E c \in Challenges : LoadEnrollment(r, c) \/ LoadLogin(r, c)
           \/ Fail(r)
    PROVE  LoginInv'
<1>1. ASSUME NEW u \in Users, BeginLogin(r, u) PROVE LoginInv'
    <2>1. PICK kind \in {"enroll", "login"} : Becomes(r, [pc |-> "insert", user |-> u, kind |-> kind])
        BY <1>1 DEF BeginLogin
    <2>2. [pc |-> "insert", user |-> u, kind |-> kind] \in Request
        BY DEF Request
    <2> QED BY <1>1, <2>1, <2>2, RequestOnly DEF BeginLogin
<1>2. ASSUME NEW c \in Challenges, LoadEnrollment(r, c) PROVE LoginInv'
    <2>1. PICK n \in Window(clock) : Becomes(r, [pc |-> "enroll", challenge |-> c, counter |-> n])
        BY <1>2 DEF LoadEnrollment
    <2>2. n \in Nat
        BY DEF Window, LoginInv, TypeOK
    <2>3. [pc |-> "enroll", challenge |-> c, counter |-> n] \in Request
        BY <2>2 DEF Request
    <2> QED BY <1>2, <2>1, <2>3, RequestOnly DEF LoadEnrollment, Readable
<1>3. ASSUME NEW c \in Challenges, LoadLogin(r, c) PROVE LoginInv'
    <2>1. [pc |-> "user", challenge |-> c, now |-> clock] \in Request
        BY DEF Request, LoginInv, TypeOK
    <2> QED BY <1>3, <2>1, RequestOnly DEF LoadLogin, Readable
<1>4. ASSUME Fail(r) PROVE LoginInv'
    BY <1>4, RequestOnly DEF Fail, Idle
<1> QED
    BY <1>1, <1>2, <1>3, <1>4

LEMMA StepLoginInv == LoginInv /\ [Next]_vars => LoginInv'
<1> SUFFICES ASSUME LoginInv, [Next]_vars PROVE LoginInv'
    OBVIOUS
<1>1. ASSUME NEW r \in Requests,
             \/ \E u \in Users : BeginLogin(r, u)
             \/ \E c \in Challenges : LoadEnrollment(r, c) \/ LoadLogin(r, c)
             \/ CreateChallenge(r) \/ CompleteEnrollment(r) \/ LoadUser(r)
             \/ CompleteTOTPLogin(r) \/ CompleteRecoveryLogin(r) \/ Fail(r)
      PROVE  LoginInv'
    BY <1>1, RequestSteps, CreateChallengeStep, CompleteEnrollmentStep, LoadUserStep,
       CompleteTOTPLoginStep, CompleteRecoveryLoginStep
<1>2. ASSUME NEW u \in Users,
             \/ \E kind \in {"password", "totp"} : ResetBegin(u, kind)
             \/ ResetCommit(u) \/ ResetAbort(u) \/ Disable(u) \/ Enable(u)
      PROVE  LoginInv'
    BY <1>2, ResetEndsStep, ResetCommitStep, MarkingSteps
<1>3. ASSUME NEW s \in Sessions, RevokeSession(s) PROVE LoginInv'
    BY <1>3, MarkingSteps
<1>4. ASSUME NEW c \in Challenges, Expire(c) PROVE LoginInv'
    BY <1>4, ExpireStep
<1>5. CASE Tick
    BY <1>5, MarkingSteps
<1>6. CASE UNCHANGED vars
    <2>1. {} \in SUBSET IssuedSessions /\ session' = Revoked({})
        BY <1>6, NothingRevoked DEF LoginInv, vars
    <2> QED BY <1>6, <2>1, RowsMarked DEF LoginInv, TypeOK, vars
<1> QED
    BY <1>1, <1>2, <1>3, <1>4, <1>5, <1>6 DEF Next

\* The strengthening holds in every reachable state, for any number of users, challenges,
\* sessions and requests and for unbounded clocks.
THEOREM LoginInvHolds == Spec => []LoginInv
    BY InitLoginInv, StepLoginInv, PTL DEF Spec

\* One challenge never becomes two sessions (consumeLoginChallenge).
THEOREM ChallengesSpentOnce == Spec => []ChallengeSingleUse
<1>1. LoginInv => ChallengeSingleUse
    BY DEF LoginInv
<1> QED BY <1>1, LoginInvHolds, PTL

\* One TOTP code of one secret never opens two sessions (completeTOTPLogin).
THEOREM TotpNeverReplayed == Spec => []TotpNoReplay
<1>1. LoginInv => TotpNoReplay
    BY DEF LoginInv
<1> QED BY <1>1, LoginInvHolds, PTL

\* One recovery code never opens two sessions (completeRecoveryLogin).
THEOREM RecoveryCodesSpentOnce == Spec => []RecoveryCodeSingleUse
<1>1. LoginInv => RecoveryCodeSingleUse
    BY DEF LoginInv
<1> QED BY <1>1, LoginInvHolds, PTL

\* Neither a challenge nor a code of either kind opens two sessions.
THEOREM LoginsSpendOnce == Spec => []SingleUse
<1>1. ChallengeSingleUse /\ TotpNoReplay /\ RecoveryCodeSingleUse => SingleUse
    BY DEF SingleUse
<1> QED BY <1>1, ChallengesSpentOnce, TotpNeverReplayed, RecoveryCodesSpentOnce, PTL

\* A committed reset leaves no usable session or challenge of those it found (revokeAuthState).
THEOREM ResetRetires == Spec => []ResetRetiresEverything
<1>1. LoginInv => ResetRetiresEverything
    BY DEF LoginInv
<1> QED BY <1>1, LoginInvHolds, PTL

\* Usable recovery codes always belong to the enrolled secret (resetTOTP, completeEnrollment).
THEOREM CodesFollowEnrollment == Spec => []CodesMatchEnrollment
<1>1. LoginInv => CodesMatchEnrollment
    BY DEF LoginInv
<1> QED BY <1>1, LoginInvHolds, PTL

LEMMA StepEnrollmentStable ==
    ASSUME LoginInv, [Next]_vars, NEW u \in Users, user[u].secret # None
    PROVE  \/ user'[u].secret = None
           \/ user'[u].secret = user[u].secret /\ user'[u].last >= user[u].last
<1>1. TypeOK /\ user[u].last \in Int
    BY DEF LoginInv, TypeOK, User
<1>2. CASE UNCHANGED user
    BY <1>1, <1>2
<1>3. ASSUME NEW r \in Requests, CompleteEnrollment(r)
      PROVE  user'[u].secret = user[u].secret /\ user'[u].last >= user[u].last
    <2>1. PICK v \in Users, c \in Challenges, n \in Nat : user[v].secret = None /\ SetTotp(v, c, n)
        BY <1>3, RequestTyped, ChallengeTyped DEF LoginInv, RequestsRefer, CompleteEnrollment
    <2>2. user'[u] = user[u]
        BY <2>1, UserUpdated
    <2> QED BY <1>1, <2>2
<1>4. ASSUME NEW r \in Requests, CompleteTOTPLogin(r)
      PROVE  user'[u].secret = user[u].secret /\ user'[u].last >= user[u].last
    <2>1. PICK v \in Users, n \in Nat : user[v].last < n /\ user' = [user EXCEPT ![v].last = n]
        BY <1>4, RequestTyped, ChallengeTyped DEF LoginInv, RequestsRefer, CompleteTOTPLogin
    <2>2. PICK old \in User : old = user[u]
        BY <1>1 DEF TypeOK
    <2>3. user'[u] = IF u = v THEN [old EXCEPT !.last = n] ELSE old
        BY <1>1, <2>1, <2>2 DEF TypeOK
    <2> QED BY <1>1, <2>1, <2>2, <2>3, CounterRaised
<1>5. ASSUME NEW v \in Users, ResetCommit(v)
      PROVE  \/ user'[u].secret = None
             \/ user'[u].secret = user[u].secret /\ user'[u].last >= user[u].last
    <2>1. CASE SetTotp(v, None, NoTotp)
        BY <2>1, <1>1, UserUpdated DEF NoTotp
    <2> QED BY <1>2, <1>5, <2>1 DEF ResetCommit
<1>6. ASSUME NEW v \in Users, Disable(v) \/ Enable(v)
      PROVE  user'[u].secret = user[u].secret /\ user'[u].last >= user[u].last
    <2>1. PICK b \in BOOLEAN : user' = [user EXCEPT ![v].disabled = b]
        BY <1>6 DEF Disable, Enable
    <2>2. user'[u].secret = user[u].secret /\ user'[u].last = user[u].last
        BY <1>1, <2>1, DisabledMarked
    <2> QED BY <1>1, <2>2
<1> QED
    BY <1>2, <1>3, <1>4, <1>5, <1>6 DEF Next, vars, BeginLogin, CreateChallenge, LoadEnrollment,
       LoadLogin, LoadUser, CompleteRecoveryLogin, Fail, ResetBegin, ResetAbort, RevokeSession,
       Expire, Tick

\* Enrolments that race never replace a secret, and no login or reset lets the accepted
\* counter of a secret go back (completeEnrollment, completeTOTPLogin).
THEOREM EnrollmentStays == Spec => EnrollmentIsStable
<1>1. LoginInv /\ [Next]_vars =>
        [\A u \in Users :
            user[u].secret # None =>
                \/ user'[u].secret = None
                \/ user'[u].secret = user[u].secret /\ user'[u].last >= user[u].last]_vars
    BY StepEnrollmentStable
<1> QED BY <1>1, LoginInvHolds, PTL DEF Spec, EnrollmentIsStable
==============================================================================
