---------------------------- MODULE AuthSessions -----------------------------
(***************************************************************************)
(* Browser login of Finance Core: password challenge, TOTP enrolment or    *)
(* second factor, session (internal/auth/service.go, postgres_store.go),   *)
(* the offline resets (maintenance.go) and the session effects of          *)
(* disabling a member (rbac_store.go).                                     *)
(*                                                                         *)
(* An HTTP request reads the database in one or two separate statements,   *)
(* decides, and then runs one completing transaction; each is a step, so   *)
(* any other request, reset or disabling may run between them.  A          *)
(* READ COMMITTED completing transaction starts by consuming its challenge *)
(* row and re-reads every row it updates, so it is one step at its commit. *)
(* A reset runs SERIALIZABLE: it acts on the rows of its snapshot, holds   *)
(* the auth_users row from its first statement, and cannot commit when a   *)
(* row of the snapshot that it writes was changed meanwhile.  It is        *)
(* therefore two steps.                                                    *)
(*                                                                         *)
(* Abstracted: passwords (the client presents the right one or the request *)
(* fails), token and code strings (a TOTP code is its secret and 30-second *)
(* counter; a secret is named by the challenge that generated it), session *)
(* timeouts (a session may be revoked at any moment).                      *)
(***************************************************************************)
EXTENDS Integers, FiniteSets

CONSTANTS Users, Challenges, Sessions,  \* rows; challenge and session tokens are fresh
          Requests,                     \* HTTP requests in flight at one time
          None,                         \* SQL NULL
          RecoveryCodeCount,            \* recovery codes issued at enrolment
          MaxClock,                     \* bound: last 30-second step of a behaviour
          MaxExpiries                   \* bound: challenges that run out of time

ASSUME NoneAssumption  == None \notin Challenges
ASSUME BoundAssumption == MaxClock \in Nat /\ MaxExpiries \in Nat

VARIABLES user,       \* auth_users: disabled_at, TOTP secret and last accepted counter
          codes,      \* auth_recovery_codes that are not consumed, per user
          challenge,  \* auth_challenges
          session,    \* auth_sessions
          req,        \* what each request in flight has read and decided
          reset,      \* the maintenance transaction of each user, if one is running
          clock,      \* the current 30-second step
          retired     \* history: challenges that a committed reset found in its snapshot

vars == <<user, codes, challenge, session, req, reset, clock, retired>>

Codes == Challenges \X (1..RecoveryCodeCount)
CodesOf(c) == {c} \X (1..RecoveryCodeCount)

User      == [disabled : BOOLEAN, secret : Challenges \cup {None}, last : Int]
NoTotp    == -1                       \* totp_last_counter IS NULL
Free      == [state |-> "free"]       \* a token nobody has generated yet
Challenge == [state : {"open", "spent"}, kind : {"enroll", "login"}, user : Users,
              expired : BOOLEAN]
TotpFactor     == [type : {"totp"}, secret : Challenges, counter : Nat]
RecoveryFactor == [type : {"recovery"}, code : Codes]
Session   == [state : {"live", "revoked"}, user : Users, challenge : Challenges,
              factor : TotpFactor \cup RecoveryFactor]

Idle    == [pc |-> "idle"]
Request == [pc : {"insert"}, user : Users, kind : {"enroll", "login"}]
             \cup [pc : {"enroll"}, challenge : Challenges, counter : Nat]
             \cup [pc : {"user"}, challenge : Challenges, now : Nat]
             \cup [pc : {"totp"}, challenge : Challenges, secret : Challenges, counter : Nat]
             \cup [pc : {"recovery"}, challenge : Challenges, code : Codes]
Snapshot == [kind : {"password", "totp"}, issued : SUBSET Challenges,
             open : SUBSET Challenges, live : SUBSET Sessions, codes : SUBSET Codes]

TypeOK ==
    /\ user \in [Users -> User]
    /\ codes \in [Users -> SUBSET Codes]
    /\ challenge \in [Challenges -> {Free} \cup Challenge]
    /\ session \in [Sessions -> {Free} \cup Session]
    /\ req \in [Requests -> {Idle} \cup Request]
    /\ reset \in [Users -> {Idle} \cup Snapshot]
    /\ clock \in Nat
    /\ retired \in [Users -> SUBSET Challenges]

Issued(u)       == {c \in Challenges : challenge[c] # Free /\ challenge[c].user = u}
OpenOf(u)       == {c \in Issued(u) : challenge[c].state = "open"}
LiveOf(u)       == {s \in Sessions : session[s].state = "live" /\ session[s].user = u}
Expired         == {c \in Challenges : challenge[c] # Free /\ challenge[c].expired}
Unlocked(u)     == reset[u] = Idle    \* no reset holds the auth_users row
Window(now)     == {n \in now - 1 .. now + 1 : n >= 0}

-----------------------------------------------------------------------------
Init ==
    /\ user = [u \in Users |-> [disabled |-> FALSE, secret |-> None, last |-> NoTotp]]
    /\ codes = [u \in Users |-> {}]
    /\ challenge = [c \in Challenges |-> Free]
    /\ session = [s \in Sessions |-> Free]
    /\ req = [r \in Requests |-> Idle]
    /\ reset = [u \in Users |-> Idle]
    /\ clock = 0
    /\ retired = [u \in Users |-> {}]

Becomes(r, state) == req' = [req EXCEPT ![r] = state]
\* Mutant: the completing transaction checks the challenge but does not mark it consumed.
SpendUnmarked(c)  == challenge' = challenge
Spend(c)          == challenge' = [challenge EXCEPT ![c].state = "spent"]
SetTotp(u, c, n)  == user' = [user EXCEPT ![u].secret = c, ![u].last = n]
Revoked(ss)       == [s \in Sessions |-> IF s \in ss THEN [session[s] EXCEPT !.state = "revoked"]
                                         ELSE session[s]]

\* insertSession with a fresh token, for the user of challenge c.
InsertSession(c, factor) ==
    \E s \in Sessions :
        /\ session[s] = Free
        /\ session' = [session EXCEPT ![s] =
               [state |-> "live", user |-> challenge[c].user, challenge |-> c, factor |-> factor]]

-----------------------------------------------------------------------------
\* BeginLogin up to the password check: the row read decides the kind of challenge.
BeginLogin(r, u) ==
    /\ req[r] = Idle
    /\ ~user[u].disabled
    /\ Becomes(r, [pc |-> "insert", user |-> u,
                   kind |-> IF user[u].secret = None THEN "enroll" ELSE "login"])
    /\ UNCHANGED <<user, codes, challenge, session, reset, clock, retired>>

\* CreateChallenge: a plain INSERT, after Argon2 and without re-reading the user.
CreateChallenge(r) ==
    /\ req[r].pc = "insert"
    /\ \E c \in Challenges :
           /\ challenge[c] = Free
           /\ challenge' = [challenge EXCEPT ![c] =
                  [state |-> "open", kind |-> req[r].kind, user |-> req[r].user, expired |-> FALSE]]
    /\ Becomes(r, Idle)
    /\ UNCHANGED <<user, codes, session, reset, clock, retired>>

\* GetChallenge succeeds with the request's own timestamp; the completing transaction
\* uses that timestamp again, so expiry is decided here once.
Readable(c, kind) ==
    /\ challenge[c] # Free
    /\ challenge[c].state = "open" /\ ~challenge[c].expired /\ challenge[c].kind = kind

\* ConfirmEnrollment: the code is checked against the pending secret, no counter yet.
LoadEnrollment(r, c) ==
    /\ req[r] = Idle
    /\ Readable(c, "enroll")
    /\ \E n \in Window(clock) : Becomes(r, [pc |-> "enroll", challenge |-> c, counter |-> n])
    /\ UNCHANGED <<user, codes, challenge, session, reset, clock, retired>>

\* Mutant: the UPDATE is not conditional on totp_secret being NULL.
CompleteEnrollmentAgain(r) ==
    /\ req[r].pc = "enroll"
    /\ LET c == req[r].challenge
           u == challenge[c].user
       IN /\ challenge[c].state = "open"
          /\ Unlocked(u)
          /\ ~user[u].disabled
          /\ Spend(c)
          /\ SetTotp(u, c, req[r].counter)
          /\ codes' = [codes EXCEPT ![u] = CodesOf(c)]
          /\ InsertSession(c, [type |-> "totp", secret |-> c, counter |-> req[r].counter])
    /\ Becomes(r, Idle)
    /\ UNCHANGED <<reset, clock, retired>>

CompleteEnrollment(r) ==
    /\ req[r].pc = "enroll"
    /\ LET c == req[r].challenge
           u == challenge[c].user
       IN /\ challenge[c].state = "open"
          /\ Unlocked(u)
          /\ ~user[u].disabled
          /\ user[u].secret = None
          /\ Spend(c)
          /\ SetTotp(u, c, req[r].counter)
          /\ codes' = [codes EXCEPT ![u] = CodesOf(c)]
          /\ InsertSession(c, [type |-> "totp", secret |-> c, counter |-> req[r].counter])
    /\ Becomes(r, Idle)
    /\ UNCHANGED <<reset, clock, retired>>

\* VerifySecondFactor, first read: the login challenge.
LoadLogin(r, c) ==
    /\ req[r] = Idle
    /\ Readable(c, "login")
    /\ Becomes(r, [pc |-> "user", challenge |-> c, now |-> clock])
    /\ UNCHANGED <<user, codes, challenge, session, reset, clock, retired>>

\* VerifyTOTP: the current step or a neighbour, above the last accepted counter.
Acceptable(u, now) == {n \in Window(now) : n > user[u].last}

\* VerifySecondFactor, second read: the user; a TOTP code is verified here.
LoadUser(r) ==
    /\ req[r].pc = "user"
    /\ LET c == req[r].challenge
           u == challenge[c].user
       IN /\ ~user[u].disabled
          /\ user[u].secret # None
          /\ \/ \E n \in Acceptable(u, req[r].now) :
                    Becomes(r, [pc |-> "totp", challenge |-> c, secret |-> user[u].secret,
                                counter |-> n])
             \/ \E code \in {k \in Codes : challenge[k[1]] # Free} :
                    Becomes(r, [pc |-> "recovery", challenge |-> c, code |-> code])
    /\ UNCHANGED <<user, codes, challenge, session, reset, clock, retired>>

\* CompleteTOTPLogin: consume the challenge, advance the counter, insert the session.
CompleteTOTPLogin(r) ==
    /\ req[r].pc = "totp"
    /\ LET c == req[r].challenge
           u == challenge[c].user
       IN /\ challenge[c].state = "open"
          /\ Unlocked(u)
          /\ ~user[u].disabled
          /\ user[u].secret # None
          /\ user[u].last < req[r].counter
          /\ Spend(c)
          /\ user' = [user EXCEPT ![u].last = req[r].counter]
          /\ InsertSession(c, [type |-> "totp", secret |-> req[r].secret, counter |-> req[r].counter])
    /\ Becomes(r, Idle)
    /\ UNCHANGED <<codes, reset, clock, retired>>

\* CompleteRecoveryLogin: consume the challenge and the code; auth_users is not touched.
CompleteRecoveryLogin(r) ==
    /\ req[r].pc = "recovery"
    /\ LET c == req[r].challenge
           u == challenge[c].user
       IN /\ challenge[c].state = "open"
          /\ req[r].code \in codes[u]
          /\ Spend(c)
          /\ codes' = [codes EXCEPT ![u] = @ \ {req[r].code}]
          /\ InsertSession(c, [type |-> "recovery", code |-> req[r].code])
    /\ Becomes(r, Idle)
    /\ UNCHANGED <<user, reset, clock, retired>>

\* A wrong code, a failed re-check, a cancelled context or a database error: the
\* transaction, if any, rolls back.
Fail(r) ==
    /\ req[r] # Idle
    /\ Becomes(r, Idle)
    /\ UNCHANGED <<user, codes, challenge, session, reset, clock, retired>>

-----------------------------------------------------------------------------
\* ResetPassword / ResetTOTP, first statement: UPDATE auth_users fixes the snapshot and
\* holds the row.
ResetBegin(u, kind) ==
    /\ Unlocked(u)
    /\ ~user[u].disabled
    /\ reset' = [reset EXCEPT ![u] = [kind |-> kind, issued |-> Issued(u), open |-> OpenOf(u),
                                      live |-> LiveOf(u), codes |-> codes[u]]]
    /\ UNCHANGED <<user, codes, challenge, session, req, clock, retired>>

\* Mutant: the reset runs READ COMMITTED and its conflicts go unnoticed.
SnapshotIntactUnchecked(u) == TRUE

\* No row of the snapshot that the reset updates or deletes was changed since.
SnapshotIntact(u) ==
    /\ \A c \in reset[u].open : challenge[c].state = "open"
    /\ \A s \in reset[u].live : session[s].state = "live"
    /\ reset[u].kind = "totp" => reset[u].codes \subseteq codes[u]

\* Mutant: ResetTOTP leaves the recovery codes of the old secret in place.
ResetCommitKeepsCodes(u) ==
    /\ ~Unlocked(u)
    /\ SnapshotIntact(u)
    /\ session' = Revoked(reset[u].live)
    /\ challenge' = [c \in Challenges |->
           IF c \in reset[u].open THEN [challenge[c] EXCEPT !.state = "spent"] ELSE challenge[c]]
    /\ IF reset[u].kind = "totp" THEN SetTotp(u, None, NoTotp) ELSE UNCHANGED user
    /\ retired' = [retired EXCEPT ![u] = @ \cup reset[u].issued]
    /\ reset' = [reset EXCEPT ![u] = Idle]
    /\ UNCHANGED <<codes, req, clock>>

\* revokeAuthState on the rows of the snapshot, and the commit.
ResetCommit(u) ==
    /\ ~Unlocked(u)
    /\ SnapshotIntact(u)
    /\ session' = Revoked(reset[u].live)
    /\ challenge' = [c \in Challenges |->
           IF c \in reset[u].open THEN [challenge[c] EXCEPT !.state = "spent"] ELSE challenge[c]]
    /\ IF reset[u].kind = "totp"
       THEN /\ SetTotp(u, None, NoTotp)
            /\ codes' = [codes EXCEPT ![u] = @ \ reset[u].codes]
       ELSE UNCHANGED <<user, codes>>
    /\ retired' = [retired EXCEPT ![u] = @ \cup reset[u].issued]
    /\ reset' = [reset EXCEPT ![u] = Idle]
    /\ UNCHANGED <<req, clock>>

\* Serialization failure (40001), deadlock victim, or the command was interrupted.
ResetAbort(u) ==
    /\ ~Unlocked(u)
    /\ reset' = [reset EXCEPT ![u] = Idle]
    /\ UNCHANGED <<user, codes, challenge, session, req, clock, retired>>

\* DisableHouseholdMember: the mark and the revocation commit together.
Disable(u) ==
    /\ Unlocked(u)
    /\ ~user[u].disabled
    /\ user' = [user EXCEPT ![u].disabled = TRUE]
    /\ session' = Revoked(LiveOf(u))
    /\ UNCHANGED <<codes, challenge, req, reset, clock, retired>>

Enable(u) ==
    /\ Unlocked(u)
    /\ user[u].disabled
    /\ user' = [user EXCEPT ![u].disabled = FALSE]
    /\ UNCHANGED <<codes, challenge, session, req, reset, clock, retired>>

\* Logout, and AuthenticateSession finding the session idle for too long.
RevokeSession(s) ==
    /\ session[s].state = "live"
    /\ session' = Revoked({s})
    /\ UNCHANGED <<user, codes, challenge, req, reset, clock, retired>>

\* The challenge's five minutes are over.
Expire(c) ==
    /\ challenge[c] # Free
    /\ challenge[c].state = "open" /\ ~challenge[c].expired
    /\ Cardinality(Expired) < MaxExpiries
    /\ challenge' = [challenge EXCEPT ![c].expired = TRUE]
    /\ UNCHANGED <<user, codes, session, req, reset, clock, retired>>

Tick ==
    /\ clock < MaxClock
    /\ clock' = clock + 1
    /\ UNCHANGED <<user, codes, challenge, session, req, reset, retired>>

Next ==
    \/ \E r \in Requests :
         \/ \E u \in Users : BeginLogin(r, u)
         \/ \E c \in Challenges : LoadEnrollment(r, c) \/ LoadLogin(r, c)
         \/ CreateChallenge(r) \/ CompleteEnrollment(r) \/ LoadUser(r)
         \/ CompleteTOTPLogin(r) \/ CompleteRecoveryLogin(r) \/ Fail(r)
    \/ \E u \in Users :
         \/ \E kind \in {"password", "totp"} : ResetBegin(u, kind)
         \/ ResetCommit(u) \/ ResetAbort(u) \/ Disable(u) \/ Enable(u)
    \/ \E s \in Sessions : RevokeSession(s)
    \/ \E c \in Challenges : Expire(c)
    \/ Tick

Spec == Init /\ [][Next]_vars

-----------------------------------------------------------------------------
IssuedSessions == {s \in Sessions : session[s] # Free}

\* "Challenges ... are atomically marked used": requests racing on one challenge, or a
\* challenge retried after its session was issued, never yield a second session.
ChallengeSingleUse ==
    \A s, t \in IssuedSessions : s # t => session[s].challenge # session[t].challenge

\* "reject replay of an already accepted or older counter": one TOTP code of one secret
\* opens at most one session, even for requests that verified it before either committed,
\* and across resets and re-enrolments.
TotpNoReplay ==
    \A s, t \in IssuedSessions :
        s # t /\ session[s].factor.type = "totp" => session[s].factor # session[t].factor

\* "Consumption is atomic and one-time": a recovery code opens at most one session.
RecoveryCodeSingleUse ==
    \A s, t \in IssuedSessions :
        s # t /\ session[s].factor.type = "recovery" => session[s].factor # session[t].factor

\* A login spends what opened it: its challenge and its code, of either kind, never open
\* another one (consumeLoginChallenge, completeTOTPLogin, completeRecoveryLogin).
SingleUse == ChallengeSingleUse /\ TotpNoReplay /\ RecoveryCodeSingleUse

\* Once a password or TOTP reset has committed, no session obtained through a challenge
\* that the reset found is usable, and no such challenge can still become a session,
\* although completions run concurrently with the reset.
ResetRetiresEverything ==
    \A u \in Users : \A c \in retired[u] :
        /\ challenge[c].state = "spent"
        /\ \A s \in IssuedSessions : session[s].challenge = c => session[s].state = "revoked"

\* The recovery codes a user can still use were issued with the secret now enrolled;
\* without an enrolled secret there are none.
CodesMatchEnrollment ==
    \A u \in Users : \A code \in codes[u] : code[1] = user[u].secret

\* Two enrolments racing for one user: an enrolled secret is never replaced by another,
\* it can only be cleared; and while it stays, the accepted counter never goes back.
EnrollmentIsStable ==
    [][\A u \in Users :
         user[u].secret # None =>
             \/ user'[u].secret = None
             \/ user'[u].secret = user[u].secret /\ user'[u].last >= user[u].last]_vars

-----------------------------------------------------------------------------
(***************************************************************************)
(* The strengthening that makes the properties above inductive.            *)
(***************************************************************************)
Spent(c, u)   == challenge[c] # Free /\ challenge[c].state = "spent" /\ challenge[c].user = u
IsTotp(s)     == session[s].factor.type = "totp"

\* A session's challenge is spent and belongs to the session's user.
SessionsSpend == \A s \in IssuedSessions : Spent(session[s].challenge, session[s].user)

\* A request that has read a challenge still refers to an existing row.
RequestsRefer ==
    \A r \in Requests :
        req[r].pc \in {"enroll", "user", "totp", "recovery"} => challenge[req[r].challenge] # Free

\* An enrolled secret comes from a spent challenge of that user; none means no counter.
EnrolledSpent ==
    \A u \in Users : IF user[u].secret = None THEN user[u].last = NoTotp
                     ELSE Spent(user[u].secret, u)

\* Accepted counters of the enrolled secret are not above the last counter.
CountersRecorded ==
    \A s \in IssuedSessions : IsTotp(s) =>
        LET f == session[s].factor
            u == session[s].user
        IN Spent(f.secret, u) /\ (user[u].secret = f.secret => f.counter <= user[u].last)

\* A verified code that some session has already used cannot pass the counter check.
VerifiedCodesGuarded ==
    \A r \in Requests : req[r].pc = "totp" =>
        LET u == challenge[req[r].challenge].user
        IN /\ Spent(req[r].secret, u)
           /\ challenge[req[r].challenge].state = "open" =>
                \A s \in IssuedSessions :
                    IsTotp(s) /\ session[s].factor.secret = req[r].secret
                              /\ session[s].factor.counter = req[r].counter
                        => user[u].last >= req[r].counter

\* While a reset runs, a code verified for a challenge it did not see is still fresh.
VerifiedDuringReset ==
    \A r \in Requests : req[r].pc = "totp" =>
        LET c == req[r].challenge
            u == challenge[c].user
        IN ~Unlocked(u) /\ challenge[c].state = "open" /\ c \notin reset[u].issued =>
               req[r].secret = user[u].secret /\ req[r].counter > user[u].last

\* What the snapshot of a running reset still tells about the rows.
SnapshotSound ==
    \A u \in Users : ~Unlocked(u) =>
        /\ codes[u] \subseteq reset[u].codes
        /\ \A c \in reset[u].issued :
               /\ challenge[c] # Free /\ challenge[c].user = u
               /\ c \in reset[u].open \/ challenge[c].state = "spent"
               /\ \A s \in IssuedSessions : session[s].challenge = c /\ session[s].state = "live"
                      => s \in reset[u].live \/ c \in reset[u].open

\* A used recovery code is gone for good.
UsedCodesGone ==
    \A s \in IssuedSessions : ~IsTotp(s) =>
        LET k == session[s].factor.code
        IN Spent(k[1], session[s].user) /\ k \notin codes[session[s].user]

LoginInv ==
    /\ TypeOK
    /\ SessionsSpend /\ RequestsRefer /\ EnrolledSpent
    /\ CountersRecorded /\ VerifiedCodesGuarded /\ VerifiedDuringReset
    /\ SnapshotSound /\ UsedCodesGone
    /\ ChallengeSingleUse /\ TotpNoReplay /\ RecoveryCodeSingleUse
    /\ ResetRetiresEverything /\ CodesMatchEnrollment
==============================================================================
