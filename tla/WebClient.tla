----------------------------- MODULE WebClient -----------------------------
(***************************************************************************)
(* The browser's side of a login (web/src/auth.ts, api.ts, App.vue and the *)
(* panels): what one tab shows while its requests are answered in any      *)
(* order, late, or after its session ended.                                *)
(*                                                                         *)
(* Every change of the login state counts an epoch.  An answer is dropped  *)
(* when the epoch is no longer the one its request was sent in; but the    *)
(* answers about the login itself are applied whenever they come.  Vue     *)
(* runs the watcher of the login state before any other answer, so it is   *)
(* part of the step.                                                       *)
(*                                                                         *)
(* A session is a number, which also stands for its user and its CSRF      *)
(* token.  Questions, figures and lists are left out; the month is kept,   *)
(* since an answer has to be shown as that of its month.  Two requests     *)
(* that agree in everything are one.                                       *)
(***************************************************************************)
EXTENDS Naturals, FiniteSets

CONSTANTS MonthOptions, \* the months one can choose
          Roles,        \* owner and others
          MaxSessions,  \* bound on the sessions the server issues
          MaxClicks,    \* bound on what the user and the other owners do
          Blank

ASSUME ClientAssumption ==
    /\ MaxSessions \in Nat \ {0} /\ MaxClicks \in Nat
    /\ Blank \notin MonthOptions /\ Blank \notin Roles
    /\ Blank \notin MonthOptions \X Nat

VARIABLES auth,    \* AuthState
          epoch,   \* how often it was replaced
          opened,  \* the epoch in which the present screen was opened
          period,  \* the month chosen
          app,     \* what App.vue shows and which of its requests it awaits
          flight,  \* requests that were sent and not answered
          cookie,  \* the session of the browser's cookie, 0 if there is none
          issued,  \* sessions issued so far
          clicks

loginVars  == <<auth, epoch, opened>>
serverVars == <<cookie, issued>>
clientVars == <<loginVars, period, app, flight, serverVars, clicks>>

-----------------------------------------------------------------------------
(***************************************************************************)
(* Login states and requests                                               *)
(***************************************************************************)

Phases == {"checking", "login", "enroll_totp", "verify_totp", "authenticated"}

AuthState == [phase : Phases, session : 0..MaxSessions, role : Roles \cup {Blank},
              codes : BOOLEAN]

\* What was read, with its month and the epoch it was asked for in.
Shown == {Blank} \cup (MonthOptions \X Nat)

\* The refs of App.vue: seq is refreshSeq, error an errorCode that is not empty.
AppState == [data : Shown, loading : BOOLEAN, seq : Nat, error : BOOLEAN, advice : Shown,
             advisorMonth : MonthOptions \cup {Blank}, advisorLoading : BOOLEAN,
             signingOut : BOOLEAN]

\* emptyState
EmptyState(phase) == [phase |-> phase, session |-> 0, role |-> Blank, codes |-> FALSE]

\* dashboardReady: signed in, and no recovery codes left to acknowledge.
Ready(a) == a.phase = "authenticated" /\ ~a.codes

\* The component App.vue shows.
ScreenOf(a) == IF Ready(a) THEN "dashboard"
               ELSE IF a.phase \in {"checking", "login"} THEN a.phase ELSE "totp"

\* mount, demoted, member and finish ask for the session: at first, after the
\* members' list was refused, after a role was changed, after the second
\* factor.  members and assets are the lists of the two panels below the
\* figures, saveMember and saveAsset what these write; role is a member's.
RequestKinds == {"dashboard", "advisor", "members", "saveMember", "role", "assets", "saveAsset",
                 "logout", "login", "verify", "mount", "demoted", "member", "finish"}

\* requireBrowserAuth wants the CSRF token with these.
Posts == {"advisor", "saveMember", "role", "saveAsset", "logout"}

Request == [kind : RequestKinds, epoch : Nat, cookie : 0..MaxSessions, csrf : 0..MaxSessions,
            month : MonthOptions \cup {Blank}, seq : Nat, codes : BOOLEAN]

\* A request sent at the end of a step: its epoch, its CSRF token and its
\* cookie are those of the next state.
Sent(kind, m, seq, codes) ==
    [kind |-> kind, epoch |-> epoch', cookie |-> cookie', csrf |-> auth'.session,
     month |-> m, seq |-> seq, codes |-> codes]

Plain(kind) == Sent(kind, Blank, 0, FALSE)

\* A request of no session is denied, and so may any other be: its session may
\* have timed out, been revoked or be beyond a failing lookup.
Grants(r) == r.cookie # 0 /\ (r.kind \in Posts => r.csrf = r.cookie)

\* The visible panel disables its form while one of these is on its way.
AwaitsOne(kinds) == \E r \in flight : r.kind \in kinds /\ r.epoch >= opened

-----------------------------------------------------------------------------
(***************************************************************************)
(* Steps of the page                                                       *)
(***************************************************************************)

\* refresh: the next request is the one that may land.
Refreshed(v) == [v EXCEPT !.seq = @ + 1, !.loading = TRUE, !.error = FALSE]
RefreshOf(v, m) == Sent("dashboard", m, v.seq + 1, FALSE)

Cleared(v) == [v EXCEPT !.data = Blank, !.advice = Blank, !.advisorMonth = Blank]

\* The panels below the figures, each by the list it reads; the members' is for
\* owners.
Panels(v, a) ==
    IF v.data = Blank \/ ~Ready(a) THEN {}
    ELSE {"assets"} \cup (IF a.role = "owner" THEN {"members"} ELSE {})

\* A panel reads its list when it appears.
Mounted == {Plain(list) : list \in Panels(app', auth') \ Panels(app, auth)}

\* The login state stays; v is shown and calls are on their way.
Stay(v, calls) ==
    UNCHANGED loginVars /\ app' = v /\ flight' = calls \cup Mounted

\* replaceState, and the watcher that follows it: the dashboard is read, or
\* cleared.
Become(next, v, calls) ==
    /\ auth' = next
    /\ epoch' = epoch + 1
    /\ opened' = IF ScreenOf(next) = ScreenOf(auth) THEN opened ELSE epoch + 1
    /\ IF Ready(next)
       THEN app' = Refreshed(v) /\ flight' = calls \cup {RefreshOf(v, period)} \cup Mounted
       ELSE app' = Cleared(v) /\ flight' = calls

\* A request answered with 401: clearAuthStateIfCurrent.
Unauthorized(r, v, calls) ==
    IF r.epoch = epoch THEN Become(EmptyState("login"), v, calls) ELSE Stay(v, calls)

ClientInit ==
    /\ auth = EmptyState("checking") /\ epoch = 0 /\ opened = 0
    /\ period \in MonthOptions
    /\ app = [data |-> Blank, loading |-> FALSE, seq |-> 0, error |-> FALSE,
              advice |-> Blank, advisorMonth |-> Blank, advisorLoading |-> FALSE,
              signingOut |-> FALSE]
    /\ issued \in {0, 1} /\ cookie = issued
    /\ flight = {[kind |-> "mount", epoch |-> 0, cookie |-> cookie, csrf |-> 0,
                  month |-> Blank, seq |-> 0, codes |-> FALSE]}
    /\ clicks = 0

-----------------------------------------------------------------------------
(***************************************************************************)
(* What the user does                                                      *)
(***************************************************************************)

Click == clicks < MaxClicks /\ clicks' = clicks + 1 /\ UNCHANGED serverVars

\* The watcher of the month; the arrow keys work on every screen.
PickMonth(m) ==
    /\ Click /\ m # period /\ period' = m
    /\ IF Ready(auth)
       THEN Stay(Refreshed(app), flight \cup {RefreshOf(app, m)})
       ELSE Stay(app, flight)

Refresh ==
    /\ Click /\ Ready(auth) /\ ~app.loading
    /\ UNCHANGED period
    /\ Stay(Refreshed(app), flight \cup {RefreshOf(app, period)})

\* submitAdvisor: the button and its shortcut are off while it is loading.
SubmitAdvisor ==
    /\ Click /\ Ready(auth) /\ app.data # Blank /\ ~app.advisorLoading
    /\ UNCHANGED period
    /\ Stay([app EXCEPT !.advisorLoading = TRUE, !.advice = Blank,
                        !.advisorMonth = app.data[1]],
            flight \cup {Sent("advisor", app.data[1], 0, FALSE)})

SignOut ==
    /\ Click /\ Ready(auth) /\ ~app.signingOut
    /\ UNCHANGED period
    /\ Stay([app EXCEPT !.signingOut = TRUE, !.error = FALSE], flight \cup {Plain("logout")})

\* LoginPanel and TOTPPanel
SubmitLogin ==
    /\ Click /\ auth.phase = "login" /\ ~AwaitsOne({"login"})
    /\ UNCHANGED period
    /\ Stay(app, flight \cup {Plain("login")})

SubmitSecondFactor ==
    /\ Click /\ auth.phase \in {"enroll_totp", "verify_totp"} /\ ~AwaitsOne({"verify", "finish"})
    /\ UNCHANGED period
    /\ Stay(app, flight \cup {Sent("verify", Blank, 0, auth.phase = "enroll_totp")})

ClearRecoveryCodes ==
    /\ Click /\ auth.phase = "authenticated" /\ auth.codes
    /\ UNCHANGED period
    /\ Become([auth EXCEPT !.codes = FALSE], app, flight)

\* onRoleChange
ChangeRole ==
    /\ Click /\ "members" \in Panels(app, auth)
    /\ ~AwaitsOne({"role", "member"})
    /\ UNCHANGED period
    /\ Stay(app, flight \cup {Plain("role")})

\* The members panel: a member is created, disabled or enabled, or the list is
\* read again after an error.
UseMembers ==
    /\ Click /\ "members" \in Panels(app, auth)
    /\ UNCHANGED period
    /\ \E kind \in {"saveMember", "members"} : Stay(app, flight \cup {Plain(kind)})

\* The portfolio panel: an asset is saved or deleted, which viewers may not, or
\* the list is read again.
UsePortfolio ==
    /\ Click /\ "assets" \in Panels(app, auth)
    /\ UNCHANGED period
    /\ \/ auth.role # "viewer" /\ Stay(app, flight \cup {Plain("saveAsset")})
       \/ Stay(app, flight \cup {Plain("assets")})

UserStep == \/ \E m \in MonthOptions : PickMonth(m)
            \/ Refresh \/ SubmitAdvisor \/ SignOut \/ SubmitLogin \/ SubmitSecondFactor
            \/ ClearRecoveryCodes \/ ChangeRole \/ UseMembers \/ UsePortfolio

-----------------------------------------------------------------------------
(***************************************************************************)
(* Answers                                                                 *)
(***************************************************************************)

\* r is answered and leaves the server and the month as they are.
Answers(r, kinds) == r.kind \in kinds /\ UNCHANGED <<period, serverVars, clicks>>

Others(r) == flight \ {r}

\* Mutant: the answer of an earlier request may land, too.
LandsAny(r) == r.epoch = epoch /\ Ready(auth)

\* Only the last request lands, if the login is the one it was sent in.
Lands(r) == r.seq = app.seq /\ r.epoch = epoch /\ Ready(auth)

\* The finally of refresh.
Settled(r, v) ==
    IF r.seq = app.seq /\ r.epoch = epoch /\ period = r.month
    THEN [v EXCEPT !.loading = FALSE] ELSE v

AnswerDashboard(r) ==
    /\ Answers(r, {"dashboard"})
    /\ \/ /\ Grants(r)
          /\ Stay(Settled(r, IF Lands(r) THEN [app EXCEPT !.data = <<r.month, r.epoch>>]
                             ELSE app), Others(r))
       \/ Unauthorized(r, app, Others(r))
       \/ Stay(Settled(r, IF r.seq = app.seq /\ r.epoch = epoch
                          THEN [app EXCEPT !.error = TRUE] ELSE app), Others(r))

\* Mutant: an advice is shown whatever became of the login since.
AdvisesLate(r) == Ready(auth)

\* An advice is shown in the login it was asked for in.
Advises(r) == r.epoch = epoch /\ Ready(auth)

\* The finally of submitAdvisor.
Advised(r, v) == IF r.epoch = epoch THEN [v EXCEPT !.advisorLoading = FALSE] ELSE v

AnswerAdvisor(r) ==
    /\ Answers(r, {"advisor"})
    /\ \/ /\ Grants(r)
          /\ Stay(Advised(r, IF Advises(r) THEN [app EXCEPT !.advice = <<r.month, r.epoch>>]
                             ELSE app), Others(r))
       \/ Unauthorized(r, app, Others(r))
       \/ Stay(Advised(r, app), Others(r))

\* reload of the members panel
AnswerMembers(r) ==
    /\ Answers(r, {"members"})
    /\ \/ Stay(app, Others(r))
       \/ Unauthorized(r, app, Others(r))

\* Another owner demoted the user, who is refused the list: the panel asks what
\* the session is now.
RefuseMembers(r) ==
    /\ Click /\ r.kind = "members" /\ Grants(r)
    /\ UNCHANGED period
    /\ Stay(app, Others(r) \cup {Plain("demoted")})

\* reload of the portfolio panel
AnswerAssets(r) ==
    /\ Answers(r, {"assets"})
    /\ \/ Stay(app, Others(r))
       \/ Unauthorized(r, app, Others(r))

\* The list that is read again once something in it was changed.
ListOf(kind) == IF kind = "saveMember" THEN "members" ELSE "assets"

AnswerSave(r) ==
    /\ Answers(r, {"saveMember", "saveAsset"})
    /\ \/ Grants(r) /\ Stay(app, Others(r) \cup {Plain(ListOf(r.kind))})
       \/ Stay(app, Others(r))
       \/ Unauthorized(r, app, Others(r))

\* onRoleChange: the session is asked for again; after a failure, the list is.
AnswerRole(r) ==
    /\ Answers(r, {"role"})
    /\ \/ Grants(r) /\ Stay(app, Others(r) \cup {Plain("member")})
       \/ Stay(app, Others(r) \cup {Plain("members")})
       \/ Unauthorized(r, app, Others(r) \cup {Plain("members")})

\* bootstrapSession and finishSession: what the server said of the session
\* becomes the login state, whatever it has become meanwhile.
AnswerSession(r) ==
    /\ Answers(r, {"mount", "demoted", "member", "finish"})
    /\ \/ \E role \in Roles :
          LET next == [phase |-> "authenticated", session |-> r.cookie, role |-> role,
                       codes |-> r.codes]
          IN  /\ Grants(r)
              /\ Become(next, app, Others(r) \cup
                     (IF r.kind = "member" /\ role = "owner" THEN {Plain("members")} ELSE {}))
       \/ Become(EmptyState("login"), app, Others(r))
       \/ r.kind \in {"demoted", "finish"} /\ Stay(app, Others(r))
       \/ r.kind = "member" /\ Stay(app, Others(r) \cup {Plain("members")})

AnswerLogin(r) ==
    /\ Answers(r, {"login"})
    /\ \/ \E phase \in {"enroll_totp", "verify_totp"} :
             Become(EmptyState(phase), app, Others(r))
       \/ Stay(app, Others(r))

\* A new session replaces the cookie; the page then asks for it.
AnswerSecondFactor(r) ==
    /\ r.kind = "verify" /\ UNCHANGED <<period, clicks>>
    /\ \/ /\ issued < MaxSessions /\ issued' = issued + 1 /\ cookie' = issued + 1
          /\ Stay(app, Others(r) \cup {Sent("finish", Blank, 0, r.codes)})
       \/ UNCHANGED <<cookie, issued>> /\ Stay(app, Others(r))

\* The rest of signOut.
SignedOut(v) == [v EXCEPT !.loading = FALSE, !.advisorLoading = FALSE, !.signingOut = FALSE]

AnswerLogout(r) ==
    /\ r.kind = "logout" /\ UNCHANGED <<period, issued, clicks>>
    /\ \/ /\ Grants(r) /\ cookie' = 0
          /\ Become(EmptyState("login"), SignedOut(app), Others(r))
       \/ /\ UNCHANGED cookie
          /\ Become(EmptyState("login"), SignedOut(app), Others(r))
       \/ /\ UNCHANGED cookie
          /\ Stay([app EXCEPT !.error = TRUE, !.signingOut = FALSE], Others(r))

ClientNext ==
    \/ UserStep
    \/ \E r \in flight :
          \/ AnswerDashboard(r) \/ AnswerAdvisor(r) \/ AnswerMembers(r) \/ RefuseMembers(r)
          \/ AnswerAssets(r) \/ AnswerSave(r) \/ AnswerRole(r)
          \/ AnswerSession(r) \/ AnswerLogin(r) \/ AnswerSecondFactor(r) \/ AnswerLogout(r)

ClientSpec == ClientInit /\ [][ClientNext]_clientVars

-----------------------------------------------------------------------------
(***************************************************************************)
(* Properties                                                              *)
(***************************************************************************)

ClientTypeOK ==
    /\ auth \in AuthState /\ epoch \in Nat /\ opened \in 0..epoch
    /\ period \in MonthOptions
    /\ app \in AppState
    /\ flight \in SUBSET Request
    /\ cookie \in 0..issued /\ issued \in 0..MaxSessions
    /\ clicks \in 0..MaxClicks

Awaited == {r \in flight : r.kind = "dashboard" /\ r.seq = app.seq}

\* While the dashboard says that it is loading, the request it waits for is on
\* its way and is one that can still land: the button comes back (App.vue).
LoadingIsTrue ==
    Ready(auth) /\ app.loading =>
        \E r \in Awaited : r.epoch = epoch /\ r.month = period

\* Once nothing is loading, the dashboard shows the month that is chosen, or
\* says that it could not be read, whatever order the answers came in and
\* however often the login state was replaced meanwhile (App.vue, refreshSeq
\* and the epoch of auth.ts).
ChosenMonthIsShown ==
    /\ ClientTypeOK
    /\ LoadingIsTrue
    /\ Ready(auth) /\ ~app.loading /\ ~app.error /\ ~app.signingOut =>
          app.data # Blank /\ app.data[1] = period

\* Nothing that was asked for before the dashboard was opened, by the user who
\* signed in before or on the other side of a sign-out, is ever shown on it,
\* and nothing is kept for the next one; an advice is shown with the month it
\* was asked about (App.vue, currentAuthEpoch).
NothingOfFormerLogin ==
    /\ ~Ready(auth) => app.data = Blank /\ app.advice = Blank
    /\ app.data # Blank => app.data[2] >= opened
    /\ app.advice # Blank => app.advice[2] >= opened /\ app.advice[1] = app.advisorMonth

\* The advisor's button is off while a question is under way, and only then
\* (the comment on onAdvisorKeydown).  The code breaks this: when the session
\* has ended before the question, the 401 counts an epoch, and the reset of
\* advisorLoading is left out with the rest of the answer.  After the next
\* login no question can be asked until one signs out.
AdvisorButtonComesBack ==
    Ready(auth) /\ app.advisorLoading => \E r \in flight : r.kind = "advisor"
=============================================================================
