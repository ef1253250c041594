---------------------------- MODULE AuthSession ----------------------------
(***************************************************************************)
(* Sign-in, refresh rotation and sign-out: AuthService over the tables     *)
(* users and refresh_tokens, the cookie its handlers set and clear, and    *)
(* the pages (api.ts, session.ts, AuthProvider) of one browser.            *)
(*                                                                         *)
(* The tabs of a browser share the cookie; each has its own access token,  *)
(* React status and at most one refresh in flight.  Every statement of a   *)
(* server call is one step.  A statement that fails was not executed, and  *)
(* the server stops working for a page that is gone (r.Context()).         *)
(***************************************************************************)
EXTENDS Naturals, Sequences, FiniteSets

CONSTANTS
    Tabs,        \* the browser's tabs
    Emails,      \* the addresses somebody may sign in with
    Nobody,      \* no address
    MaxTokens,   \* bound: rows of refresh_tokens; a full table fails the INSERT
    MaxLoads     \* bound: times each tab is loaded

ASSUME BoundsAssumption == MaxTokens \in Nat /\ MaxLoads \in Nat
ASSUME NobodyAssumption == Nobody \notin Emails

VARIABLES
    users,      \* the rows of users
    tokens,     \* tokens[t]: row t of refresh_tokens; its raw value is t
    cookie,     \* the refresh cookie, 0 when there is none
    page,       \* page[p]: what tab p holds in memory
    refresh,    \* refresh[p]: the refresh `inflight` of tab p
    call,       \* call[p]: the sign-in or sign-out tab p waits for
    disturbed,  \* history: two calls overlapped or an answer was lost, see Overlaps
    left        \* history: the token last signed out, 0 after a sign-in

vars == <<users, tokens, cookie, page, refresh, call, disturbed, left>>

-----------------------------------------------------------------------------
(* Types                                                                   *)

Tokens == 1..MaxTokens
Row == [user : Emails, status : {"live", "expired", "revoked"}]
Page == [status : {"closed", "loading", "authed", "anon"}, access : BOOLEAN,
         waiting : BOOLEAN, loads : 0..MaxLoads]
Request ==
    [kind : {"refresh", "login", "register", "logout"},
     step : {"find", "revokeAll", "revoke", "issue", "count", "create", "answer"},
     token : Tokens \cup {0}, user : Emails \cup {Nobody}, answer : {"ok", "refused", "error"}]
NoRequest == [step |-> "idle"]

TypeOK ==
    /\ users \subseteq Emails
    /\ tokens \in Seq(Row) /\ Len(tokens) <= MaxTokens
    /\ cookie \in 0..Len(tokens)
    /\ page \in [Tabs -> Page]
    /\ refresh \in [Tabs -> Request \cup {NoRequest}]
    /\ call \in [Tabs -> Request \cup {NoRequest}]
    /\ disturbed \in BOOLEAN
    /\ left \in 0..Len(tokens)

-----------------------------------------------------------------------------
Init ==
    /\ users = {}
    /\ tokens = <<>>
    /\ cookie = 0
    /\ page = [p \in Tabs |-> [status |-> "closed", access |-> FALSE, waiting |-> FALSE, loads |-> 0]]
    /\ refresh = [p \in Tabs |-> NoRequest]
    /\ call = [p \in Tabs |-> NoRequest]
    /\ disturbed = FALSE
    /\ left = 0

\* A request as it leaves the browser, with the cookie of that moment.
Sent(kind, step, user) ==
    [kind |-> kind, step |-> step, user |-> user, answer |-> "ok",
     token |-> IF kind \in {"refresh", "logout"} THEN cookie ELSE 0]

\* A request that was answered, and one that was answered with a failure.
Answered(r, token) == [r EXCEPT !.step = "answer", !.token = token, !.user = Nobody]
Failed(r, what) == [Answered(r, 0) EXCEPT !.answer = what]

Refreshing == {p \in Tabs : refresh[p] # NoRequest}
SigningOut == {p \in Tabs : call[p] # NoRequest /\ call[p].kind = "logout"}

\* History: p sends the cookie while another call that may revoke it runs.
Overlaps(p) == Refreshing \ {p} # {} \/ SigningOut # {}

-----------------------------------------------------------------------------
(* The server.  s is the statement's request, reply puts it back.          *)

\* The two places a request may be in.
Refresh(p, r) == refresh' = [refresh EXCEPT ![p] = r] /\ UNCHANGED call
Called(p, r) == call' = [call EXCEPT ![p] = r] /\ UNCHANGED refresh

Revoked(row) == [row EXCEPT !.status = "revoked"]

\* Refresh: ByHash and what it decides.
FindRefresh(p) ==
    /\ refresh[p].step = "find"
    /\ LET t == refresh[p].token
           refuse == Failed(refresh[p], "refused")
       IN  Refresh(p, CASE t = 0 -> refuse
                        [] t # 0 /\ tokens[t].status = "revoked" -> [refresh[p] EXCEPT !.step = "revokeAll"]
                        [] t # 0 /\ tokens[t].status = "expired" -> refuse
                        [] OTHER -> [refresh[p] EXCEPT !.step = "revoke", !.user = tokens[t].user])
    /\ UNCHANGED <<users, tokens, cookie, page, disturbed, left>>

\* A revoked token was sent: every live token of its user is revoked.
RevokeAll(p) ==
    /\ refresh[p].step = "revokeAll"
    /\ tokens' = [t \in DOMAIN tokens |->
         IF tokens[t].user = tokens[refresh[p].token].user THEN Revoked(tokens[t]) ELSE tokens[t]]
    /\ Refresh(p, Failed(refresh[p], "refused"))
    /\ UNCHANGED <<users, cookie, page, disturbed, left>>

\* Revoke: whether somebody else revoked it in between is not looked at.
RevokeOld(p) ==
    /\ refresh[p].step = "revoke"
    /\ tokens' = [tokens EXCEPT ![refresh[p].token] = Revoked(@)]
    /\ Refresh(p, [refresh[p] EXCEPT !.step = "issue"])
    /\ UNCHANGED <<users, cookie, page, disturbed, left>>

\* issue: a new row; the answer carries its token.
Issue(r) == tokens' = Append(tokens, [user |-> r.user, status |-> "live"]) /\ Len(tokens) < MaxTokens
Issued(r) == Answered(r, Len(tokens) + 1)

IssueRefresh(p) ==
    /\ refresh[p].step = "issue"
    /\ Issue(refresh[p])
    /\ Refresh(p, Issued(refresh[p]))
    /\ UNCHANGED <<users, cookie, page, disturbed, left>>

IssueSignIn(p) ==
    /\ call[p].step = "issue"
    /\ Issue(call[p])
    /\ Called(p, Issued(call[p]))
    /\ UNCHANGED <<users, cookie, page, disturbed, left>>

\* Register: Count, then Create; the UNIQUE index on the address may refuse.
CountUsers(p) ==
    /\ call[p].step = "count"
    /\ Called(p, IF users = {} THEN [call[p] EXCEPT !.step = "create"]
                 ELSE Failed(call[p], "refused"))
    /\ UNCHANGED <<users, tokens, cookie, page, disturbed, left>>

CreateUser(p) ==
    /\ call[p].step = "create"
    /\ users' = users \cup {call[p].user}
    /\ Called(p, IF call[p].user \in users THEN Failed(call[p], "refused")
                 ELSE [call[p] EXCEPT !.step = "issue"])
    /\ UNCHANGED <<tokens, cookie, page, disturbed, left>>

\* Login: the address is known and the password right, or not.
CheckPassword(p) ==
    /\ call[p].step = "find" /\ call[p].kind = "login"
    /\ \E right \in BOOLEAN :
         Called(p, IF right /\ call[p].user \in users THEN [call[p] EXCEPT !.step = "issue"]
                   ELSE Failed(call[p], "refused"))
    /\ UNCHANGED <<users, tokens, cookie, page, disturbed, left>>

\* Mutant: Logout leaves the token alone.
FindLogoutOnly(p) ==
    /\ call[p].step = "find" /\ call[p].kind = "logout"
    /\ Called(p, Answered(call[p], call[p].token))
    /\ UNCHANGED <<users, tokens, cookie, page, disturbed, left>>

\* Logout: ByHash; a token that is missing or revoked needs nothing more.
FindLogout(p) ==
    /\ call[p].step = "find" /\ call[p].kind = "logout"
    /\ LET t == call[p].token IN
         Called(p, IF t = 0 \/ (t # 0 /\ tokens[t].status = "revoked") THEN Answered(call[p], call[p].token)
                   ELSE [call[p] EXCEPT !.step = "revoke"])
    /\ UNCHANGED <<users, tokens, cookie, page, disturbed, left>>

RevokeLogout(p) ==
    /\ call[p].step = "revoke"
    /\ tokens' = [tokens EXCEPT ![call[p].token] = Revoked(@)]
    /\ Called(p, Answered(call[p], call[p].token))
    /\ UNCHANGED <<users, cookie, page, disturbed, left>>

\* A statement fails: 500, with what was done before it left as it is.
RefreshFails(p) ==
    /\ refresh[p] # NoRequest /\ refresh[p].step # "answer"
    /\ Refresh(p, Failed(refresh[p], "error"))
    /\ UNCHANGED <<users, tokens, cookie, page, disturbed, left>>

CallFails(p) ==
    /\ call[p] # NoRequest /\ call[p].step # "answer"
    /\ Called(p, Failed(call[p], "error"))
    /\ UNCHANGED <<users, tokens, cookie, page, disturbed, left>>

\* REFRESH_TTL passes.
Expire(t) ==
    /\ tokens[t].status = "live"
    /\ tokens' = [tokens EXCEPT ![t].status = "expired"]
    /\ UNCHANGED <<users, cookie, page, refresh, call, disturbed, left>>

-----------------------------------------------------------------------------
(* A page and its refresh                                                  *)

\* rotate: POST /auth/refresh with the cookie of this moment.
SendRefresh(p) == refresh' = [refresh EXCEPT ![p] = Sent("refresh", "find", Nobody)]

\* Opening or reloading the tab drops its calls and restores the session:
\* bootstrapSession.
Load(p) ==
    /\ page[p].loads < MaxLoads
    /\ page' = [page EXCEPT ![p] = [status |-> "loading", access |-> FALSE, waiting |-> FALSE,
                                   loads |-> @.loads + 1]]
    /\ SendRefresh(p)
    /\ call' = [call EXCEPT ![p] = NoRequest]
    /\ disturbed' = (disturbed \/ Overlaps(p) \/ p \in Refreshing)
    /\ UNCHANGED <<users, tokens, cookie, left>>

\* A data request is answered 401, its access token being missing or older
\* than ACCESS_TTL: refresh, or join the refresh in flight.
Unauthorized(p) ==
    /\ page[p].status = "authed"
    /\ page' = [page EXCEPT ![p].waiting = TRUE]
    /\ IF refresh[p] = NoRequest
       THEN SendRefresh(p) /\ disturbed' = (disturbed \/ Overlaps(p))
       ELSE UNCHANGED <<refresh, disturbed>>
    /\ UNCHANGED <<users, tokens, cookie, call, left>>

\* The answer of the refresh: a session for the page and for all who waited.
ReceiveSession(p) ==
    /\ refresh[p].step = "answer" /\ refresh[p].answer = "ok"
    /\ cookie' = refresh[p].token
    /\ page' = [page EXCEPT ![p].access = TRUE, ![p].waiting = FALSE,
                            ![p].status = IF @ = "loading" THEN "authed" ELSE @]
    /\ Refresh(p, NoRequest)
    /\ UNCHANGED <<users, tokens, disturbed, left>>

\* Mutant: only the first page load is told.
NoSessionBootOnly(p) ==
    page' = [page EXCEPT ![p].access = FALSE,
                         ![p].status = IF @ = "loading" THEN "anon" ELSE @]

\* rotate failed: bootstrapSession or fireSessionDead takes the page to anon.
NoSession(p) ==
    page' = [page EXCEPT ![p].access = FALSE, ![p].waiting = FALSE,
                         ![p].status = IF @ = "loading" \/ page[p].waiting THEN "anon" ELSE @]

\* Mutant: the handler clears the cookie for a 401 only.
SessionEndsOn401(p) ==
    /\ refresh[p].step = "answer" /\ refresh[p].answer # "ok"
    /\ cookie' = IF refresh[p].answer = "refused" THEN 0 ELSE cookie
    /\ NoSession(p)
    /\ Refresh(p, NoRequest)
    /\ UNCHANGED <<users, tokens, disturbed, left>>

\* A refresh that failed, for whatever reason, clears the cookie.
SessionEnds(p) ==
    /\ refresh[p].step = "answer" /\ refresh[p].answer # "ok"
    /\ cookie' = 0
    /\ NoSession(p)
    /\ Refresh(p, NoRequest)
    /\ UNCHANGED <<users, tokens, disturbed, left>>

\* The answer is lost: the page ends its session, the cookie stays.  (A call
\* lost on its way out looks like one whose first statement failed.)
LoseRefresh(p) ==
    /\ refresh[p].step = "answer"
    /\ NoSession(p)
    /\ disturbed' = TRUE
    /\ Refresh(p, NoRequest)
    /\ UNCHANGED <<users, tokens, cookie, left>>

-----------------------------------------------------------------------------
(* Signing in and out                                                      *)

SignIn(p) ==
    /\ page[p].status = "anon" /\ call[p] = NoRequest
    /\ \E e \in Emails : \/ Called(p, Sent("login", "find", e))
                         \/ Called(p, Sent("register", "count", e))
    /\ UNCHANGED <<users, tokens, cookie, page, disturbed, left>>

\* A fresh cookie: when it is still good and no other call is on its way,
\* nothing that happened before matters any more.
ReceiveSignIn(p) ==
    /\ call[p].step = "answer" /\ call[p].kind # "logout"
    /\ IF call[p].answer = "ok"
       THEN /\ cookie' = call[p].token
            /\ page' = [page EXCEPT ![p].access = TRUE, ![p].status = "authed"]
            /\ disturbed' = (disturbed /\ (\/ Refreshing # {} \/ \E q \in Tabs \ {p} : call[q] # NoRequest
                                         \/ tokens[call[p].token].status = "revoked"))
            /\ left' = 0
       ELSE UNCHANGED <<cookie, page, disturbed, left>>
    /\ Called(p, NoRequest)
    /\ UNCHANGED <<users, tokens>>

SignOut(p) ==
    /\ page[p].status = "authed" /\ call[p] = NoRequest
    /\ Called(p, Sent("logout", "find", Nobody))
    /\ disturbed' = (disturbed \/ Refreshing # {} \/ SigningOut # {})
    /\ UNCHANGED <<users, tokens, cookie, page, left>>

\* Whatever the answer, the page is signed out; a failure keeps the cookie.
SignedOut(p) == page' = [page EXCEPT ![p].access = FALSE, ![p].status = "anon"]
ReceiveSignOut(p) ==
    /\ call[p].step = "answer" /\ call[p].kind = "logout"
    /\ SignedOut(p)
    /\ IF call[p].answer = "ok"
       THEN cookie' = 0 /\ left' = call[p].token
       ELSE UNCHANGED <<cookie, left>>
    /\ Called(p, NoRequest)
    /\ UNCHANGED <<users, tokens, disturbed>>

LoseCall(p) ==
    /\ call[p].step = "answer"
    /\ IF call[p].kind = "logout"
       THEN SignedOut(p) /\ disturbed' = TRUE
       ELSE UNCHANGED <<page, disturbed>>
    /\ Called(p, NoRequest)
    /\ UNCHANGED <<users, tokens, cookie, left>>

-----------------------------------------------------------------------------
ServeRefresh(p) ==
    \/ FindRefresh(p) \/ RevokeAll(p) \/ RevokeOld(p) \/ IssueRefresh(p) \/ RefreshFails(p)
    \/ ReceiveSession(p) \/ SessionEnds(p) \/ LoseRefresh(p)
ServeCall(p) ==
    \/ CountUsers(p) \/ CreateUser(p) \/ CheckPassword(p) \/ IssueSignIn(p)
    \/ FindLogout(p) \/ RevokeLogout(p) \/ CallFails(p)
    \/ ReceiveSignIn(p) \/ ReceiveSignOut(p) \/ LoseCall(p)
User(p) == Load(p) \/ Unauthorized(p) \/ SignIn(p) \/ SignOut(p)

Next ==
    \/ \E t \in DOMAIN tokens : Expire(t)
    \/ \E p \in Tabs : User(p) \/ ServeRefresh(p) \/ ServeCall(p)

Spec == Init /\ [][Next]_vars

-----------------------------------------------------------------------------
(* Properties                                                              *)

\* A revoked token was sent: the server takes the browser for a thief and ends
\* every session of the user.
TakenForReplay(p) == refresh[p].step = "revokeAll"

\* The guard of refreshSession (api.ts): "all parallel calls become one
\* request", so unless the user signs out no cookie is read as a replay.
NoSelfReplay ==
    \A p \in Tabs : TakenForReplay(p) => SigningOut # {} \/ left # 0

\* A cookie is read as a replay only after two calls with it overlapped, a
\* page was left during its refresh, or an answer was lost: never because of
\* a failure of the server, an expiry or the order of one page's requests.
ReplayHasCause == \A p \in Tabs : TakenForReplay(p) => disturbed

\* After a sign-out that was answered the browser is out until somebody signs
\* in: no cookie, and the token it held is of no use.
SignOutSticks == left # 0 /\ ~disturbed => cookie = 0 /\ tokens[left].status # "live"

\* bootstrapSession, `inflight` and AuthProvider agree: a page on its loading
\* screen, a data request that waits for a new access token, and a page that
\* shows itself signed in without one, have a refresh that is really on its
\* way, whatever was reloaded, signed out or lost meanwhile.
NobodyForgotten ==
    \A p \in Tabs :
      \/ page[p].status = "loading" \/ page[p].waiting
      \/ page[p].status = "authed" /\ ~page[p].access
      => refresh[p] # NoRequest
=============================================================================
