---------------------------- MODULE AuthProofs ----------------------------
(***************************************************************************)
(* What AuthSession promises a browser, for any number of tabs, users and  *)
(* tokens: no cookie is taken for a replay without a cause, a sign-out     *)
(* lasts, and no page waits for an answer that will not come.              *)
(* And what Forms promises who fills them in, for any texts, times and     *)
(* number of requests: a note that is not saved says so, what is typed     *)
(* into the trade form does not go unasked, and a save leaves alone what   *)
(* its user did.                                                           *)
(***************************************************************************)
EXTENDS AuthSession, Forms, SequenceTheorems, TLAPS

Steps(what) ==
    CASE what = "refresh" -> {"find", "revokeAll", "revoke", "issue", "answer"}
      [] what = "login" -> {"find", "issue", "answer"}
      [] what = "register" -> {"count", "create", "issue", "answer"}
      [] OTHER -> {"find", "revoke", "answer"}

\* A request carries what its next statement needs from the table toks.
Sound(r, toks) ==
    /\ r.step \in Steps(r.kind)
    /\ r.step # "answer" => r.answer = "ok"
    /\ r.token \in 0..Len(toks)
    /\ r.step \in {"revokeAll", "revoke"} => r.token # 0
    /\ r.step \in {"count", "create", "issue"} => r.user \in Emails
    /\ r.kind = "login" /\ r.step = "find" => r.user \in Emails
    /\ r.kind = "refresh" /\ r.step = "revoke" => r.user \in Emails
    /\ r.step = "answer" /\ r.answer = "ok" /\ r.kind # "logout" => r.token # 0
    /\ r.step = "answer" /\ r.answer = "ok" /\ r.kind = "logout" /\ r.token # 0 =>
         toks[r.token].status = "revoked"

RequestsSound ==
    \A p \in Tabs :
        /\ refresh[p] # NoRequest => refresh[p].kind = "refresh" /\ Sound(refresh[p], tokens)
        /\ call[p] # NoRequest => call[p].kind # "refresh" /\ Sound(call[p], tokens)

\* A page has a refresh exactly while it loads or a request of it waits.
PagesInv ==
    \A p \in Tabs :
        /\ refresh[p] # NoRequest <=> page[p].status = "loading" \/ page[p].waiting
        /\ call[p] # NoRequest => page[p].status \notin {"closed", "loading"}
        /\ page[p].status = "authed" /\ ~page[p].access => refresh[p] # NoRequest

\* A token nobody has received yet, and one that was sent to be found.
Brings(r) == r # NoRequest /\ r.step = "answer" /\ r.answer = "ok" /\ r.kind # "logout"
Spends(r) == r # NoRequest /\ r.step \in {"find", "revokeAll", "revoke"} /\ r.kind \in {"refresh", "logout"}
Apart(r, s) == Brings(r) /\ (Brings(s) \/ Spends(s)) => r.token # s.token

NewTokens ==
    /\ \A p \in Tabs : /\ Brings(refresh[p]) => refresh[p].token # cookie
                       /\ Brings(call[p]) => call[p].token # cookie
    /\ \A p, q \in Tabs : /\ p # q => Apart(refresh[p], refresh[q]) /\ Apart(call[p], call[q])
                          /\ Apart(refresh[p], call[q]) /\ Apart(call[p], refresh[q])

IsLogout(r) == r # NoRequest /\ r.kind = "logout"
IsRevoked(t) == t # 0 /\ tokens[t].status = "revoked"

\* One request at a time has the cookie.
OneCookie ==
    \A p, q \in Tabs :
        /\ refresh[p] # NoRequest /\ refresh[q] # NoRequest => p = q
        /\ IsLogout(call[p]) /\ IsLogout(call[q]) => p = q
        /\ ~(refresh[p] # NoRequest /\ IsLogout(call[q]))

\* None brings or sends a token that was revoked.
NoneRevoked ==
    \A p \in Tabs :
        /\ refresh[p].step # "revokeAll"
        /\ Brings(refresh[p]) \/ Spends(refresh[p]) => ~IsRevoked(refresh[p].token)
        /\ Brings(call[p]) \/ Spends(call[p]) => ~IsRevoked(call[p].token)

\* The cookie is revoked only while the answer that replaces it is on its way.
CookieGood ==
    IsRevoked(cookie) => \E p \in Tabs :
        \/ refresh[p].step \in {"issue", "answer"}
        \/ IsLogout(call[p]) /\ call[p].step = "answer" /\ call[p].answer = "ok"

\* After a sign-out no request can bring the session back.
OutForGood ==
    left # 0 =>
        /\ cookie = 0 /\ tokens[left].status = "revoked"
        /\ \A p \in Tabs : refresh[p] # NoRequest =>
             \/ refresh[p].step = "find" /\ refresh[p].token = 0
             \/ refresh[p].step = "answer" /\ refresh[p].answer # "ok"

Calm == OneCookie /\ NoneRevoked /\ CookieGood /\ OutForGood

AuthInv == TypeOK /\ RequestsSound /\ PagesInv /\ NewTokens /\ (~disturbed => Calm)

-----------------------------------------------------------------------------
(* Requests and tokens.                                                    *)

\* A request in flight is known by its step.
LEMMA InFlight ==
    ASSUME NEW r \in Request \cup {NoRequest}
    PROVE  /\ r.step # "idle" <=> r # NoRequest
           /\ r # NoRequest => r \in Request
<1>1. \A x \in Request : x.step # "idle"
  BY DEF Request
<1>2. NoRequest.step = "idle"
  BY DEF NoRequest
<1> QED BY <1>1, <1>2

\* What the places of a tab hold, by the types.
LEMMA Places ==
    ASSUME TypeOK, NEW p \in Tabs
    PROVE  /\ refresh[p] \in Request \cup {NoRequest} /\ call[p] \in Request \cup {NoRequest}
           /\ page[p] \in Page
           /\ refresh[p] # NoRequest => refresh[p] \in Request /\ refresh[p].step # "idle"
           /\ call[p] # NoRequest => call[p] \in Request /\ call[p].step # "idle"
           /\ refresh[p].step # "idle" => refresh[p] # NoRequest /\ refresh[p] \in Request
           /\ call[p].step # "idle" => call[p] # NoRequest /\ call[p] \in Request
<1>1. refresh[p] \in Request \cup {NoRequest} /\ call[p] \in Request \cup {NoRequest} /\ page[p] \in Page
  BY DEF TypeOK
<1> QED BY <1>1, InFlight

\* No row is lost, and none comes back to life.
Grows(toks) ==
    /\ toks \in Seq(Row) /\ Len(tokens) <= Len(toks) /\ Len(toks) <= MaxTokens
    /\ \A t \in 1..Len(tokens) : tokens[t].status = "revoked" => toks[t].status = "revoked"

\* A table that is left alone grows.
LEMMA NoGrowth == TypeOK => Grows(tokens)
  BY DEF TypeOK, Grows

\* A request that fits the table fits a table that has grown.
LEMMA SoundGrows ==
    ASSUME TypeOK, NEW toks, Grows(toks), NEW r, Sound(r, tokens)
    PROVE  Sound(r, toks)
<1>1. Len(tokens) \in Nat /\ Len(toks) \in Nat /\ Len(tokens) <= Len(toks)
  BY LenProperties DEF TypeOK, Grows
<1>2. r.token \in 0..Len(tokens) /\ r.token \in 0..Len(toks)
  BY <1>1 DEF Sound
<1>3. r.token # 0 /\ tokens[r.token].status = "revoked" => toks[r.token].status = "revoked"
  BY <1>1, <1>2 DEF Grows
<1> QED BY <1>2, <1>3 DEF Sound

\* The rows of UPDATE ... SET revoked_at and of INSERT.
LEMMA RevokeGrows ==
    ASSUME TypeOK, NEW t \in 1..Len(tokens), tokens' = [tokens EXCEPT ![t] = Revoked(@)]
    PROVE  Grows(tokens') /\ Len(tokens') = Len(tokens) /\ tokens'[t].status = "revoked"
           /\ \A u \in 1..Len(tokens) : u # t => tokens'[u] = tokens[u]
<1>1. tokens \in Seq(Row) /\ tokens[t] \in Row /\ Len(tokens) \in Nat /\ DOMAIN tokens = 1..Len(tokens)
  BY ElementOfSeq, LenProperties DEF TypeOK
<1>2. Revoked(tokens[t]) \in Row /\ Revoked(tokens[t]).status = "revoked"
  BY <1>1 DEF Revoked, Row
<1>3. tokens' \in Seq(Row) /\ Len(tokens') = Len(tokens)
  BY <1>1, <1>2, ExceptSeq
<1>4. tokens'[t] = Revoked(tokens[t]) /\ \A u \in 1..Len(tokens) : u # t => tokens'[u] = tokens[u]
  BY <1>1
<1> QED BY <1>1, <1>2, <1>3, <1>4 DEF Grows, TypeOK

\* issue: the INSERT adds one live row at the end.
LEMMA IssueGrows ==
    ASSUME TypeOK, NEW r, r.user \in Emails, Issue(r)
    PROVE  /\ Grows(tokens') /\ Len(tokens') = Len(tokens) + 1
           /\ \A u \in 1..Len(tokens) : tokens'[u] = tokens[u]
           /\ tokens'[Len(tokens) + 1].status = "live"
           /\ Len(tokens) + 1 \in Tokens
<1>1. [user |-> r.user, status |-> "live"] \in Row
  BY DEF Row
<1>2. tokens \in Seq(Row) /\ Len(tokens) \in Nat /\ Len(tokens) < MaxTokens
      /\ tokens' = Append(tokens, [user |-> r.user, status |-> "live"])
  BY LenProperties DEF TypeOK, Issue
<1>3. /\ tokens' \in Seq(Row) /\ Len(tokens') = Len(tokens) + 1
      /\ \A u \in 1..Len(tokens) : tokens'[u] = tokens[u]
      /\ tokens'[Len(tokens) + 1] = [user |-> r.user, status |-> "live"]
  BY <1>1, <1>2, AppendProperties
<1> QED BY <1>2, <1>3, BoundsAssumption DEF Grows, Tokens

-----------------------------------------------------------------------------
(* Types and requests.                                                     *)

\* A refresh that moves on keeps the others sound.
LEMMA RefreshMoves ==
    ASSUME TypeOK, RequestsSound, NEW p \in Tabs, Grows(tokens'), NEW r,
           r = NoRequest \/ (r \in Request /\ r.kind = "refresh" /\ Sound(r, tokens')),
           Refresh(p, r)
    PROVE  /\ refresh' \in [Tabs -> Request \cup {NoRequest}] /\ call' \in [Tabs -> Request \cup {NoRequest}]
           /\ RequestsSound'
  BY SoundGrows DEF TypeOK, RequestsSound, Refresh

\* The same for a sign-in or a sign-out.
LEMMA CallMoves ==
    ASSUME TypeOK, RequestsSound, NEW p \in Tabs, Grows(tokens'), NEW r,
           r = NoRequest \/ (r \in Request /\ r.kind # "refresh" /\ Sound(r, tokens')),
           Called(p, r)
    PROVE  /\ refresh' \in [Tabs -> Request \cup {NoRequest}] /\ call' \in [Tabs -> Request \cup {NoRequest}]
           /\ RequestsSound'
  BY SoundGrows DEF TypeOK, RequestsSound, Called

\* A request that was answered.
LEMMA AnsweredFacts ==
    ASSUME NEW r \in Request, NEW token \in Tokens \cup {0}
    PROVE  /\ Answered(r, token) \in Request /\ Answered(r, token).kind = r.kind
           /\ Answered(r, token).step = "answer" /\ Answered(r, token).token = token
           /\ Answered(r, token).answer = r.answer
           /\ "answer" \in Steps(r.kind)
  BY DEF Request, Answered, Steps

\* An answer that carries the row just inserted is sound.
LEMMA IssuedIsSound ==
    ASSUME NEW r \in Request, NEW toks, Len(toks) = Len(tokens) + 1, Len(tokens) \in Nat,
           Len(tokens) + 1 \in Tokens, r.kind # "logout"
    PROVE  Issued(r) \in Request /\ Issued(r).kind = r.kind /\ Sound(Issued(r), toks)
<1> DEFINE x == Issued(r)
<1>1. /\ x \in Request /\ x.kind = r.kind /\ x.step = "answer" /\ x.token = Len(tokens) + 1
      /\ "answer" \in Steps(x.kind)
  BY AnsweredFacts DEF Issued
<1> HIDE DEF x
<1>2. Sound(x, toks)
  BY <1>1 DEF Sound
<1> QED BY <1>1, <1>2 DEF x

\* A request that failed is sound.
LEMMA FailedIsSound ==
    ASSUME NEW r \in Request, NEW toks, Len(toks) \in Nat, Sound(r, toks), NEW what \in {"refused", "error"}
    PROVE  /\ Failed(r, what) \in Request /\ Sound(Failed(r, what), toks)
           /\ Failed(r, what).kind = r.kind /\ Failed(r, what).step = "answer" /\ Failed(r, what).answer = what
<1> DEFINE x == Failed(r, what)
<1>1. /\ x \in Request /\ x.kind = r.kind /\ x.step = "answer" /\ x.answer = what /\ x.token = 0
      /\ "answer" \in Steps(x.kind)
  <2>1. Answered(r, 0) \in Request /\ Answered(r, 0).kind = r.kind /\ Answered(r, 0).step = "answer"
        /\ Answered(r, 0).token = 0 /\ "answer" \in Steps(r.kind)
    BY AnsweredFacts
  <2>2. x = [Answered(r, 0) EXCEPT !.answer = what]
    BY DEF Failed
  <2> HIDE DEF x
  <2> QED BY <2>1, <2>2 DEF Request
<1> HIDE DEF x
<1>2. Sound(x, toks)
  BY <1>1 DEF Sound
<1> QED BY <1>1, <1>2 DEF x

\* A request is sent with the cookie.
LEMMA SentIsSound ==
    ASSUME TypeOK, NEW what, NEW step, NEW user,
           \/ what = "refresh" /\ step = "find" /\ user = Nobody
           \/ what = "logout" /\ step = "find" /\ user = Nobody
           \/ what = "login" /\ step = "find" /\ user \in Emails
           \/ what = "register" /\ step = "count" /\ user \in Emails
    PROVE  /\ Sent(what, step, user) \in Request /\ Sound(Sent(what, step, user), tokens)
           /\ Sent(what, step, user).kind = what /\ Sent(what, step, user).step = step
           /\ Sent(what, step, user).token = IF what \in {"refresh", "logout"} THEN cookie ELSE 0
<1>1. Len(tokens) \in Nat /\ Len(tokens) <= MaxTokens /\ cookie \in 0..Len(tokens)
  BY LenProperties DEF TypeOK
<1>2. cookie \in Tokens \cup {0}
  BY <1>1, BoundsAssumption DEF Tokens
<1> DEFINE r == Sent(what, step, user)
<1>3. /\ r.kind = what /\ r.step = step /\ r.user = user /\ r.answer = "ok"
      /\ r.token = IF what \in {"refresh", "logout"} THEN cookie ELSE 0
      /\ r = [kind |-> what, step |-> step, user |-> user, answer |-> "ok",
              token |-> IF what \in {"refresh", "logout"} THEN cookie ELSE 0]
  BY DEF Sent
<1>4. r \in Request
  BY <1>2, <1>3 DEF Request
<1>5. Sound(r, tokens)
  <2> HIDE DEF r
  <2> QED BY <1>1, <1>3 DEF Sound, Steps
<1> QED BY <1>3, <1>4, <1>5

\* Every step keeps the types and leaves every request what it needs.
LEMMA TypeStep ==
    ASSUME TypeOK, RequestsSound, [Next]_vars
    PROVE  TypeOK' /\ RequestsSound'
<1> USE NoGrowth
<1>0. /\ tokens \in Seq(Row) /\ Len(tokens) \in Nat /\ Len(tokens) <= MaxTokens /\ DOMAIN tokens = 1..Len(tokens)
      /\ \A t \in 1..Len(tokens) : tokens[t] \in Row
      /\ refresh \in [Tabs -> Request \cup {NoRequest}] /\ call \in [Tabs -> Request \cup {NoRequest}]
  BY ElementOfSeq, LenProperties DEF TypeOK
<1>1. ASSUME NEW t \in DOMAIN tokens, Expire(t) PROVE TypeOK' /\ RequestsSound'
  <2>1. /\ tokens' = [tokens EXCEPT ![t].status = "expired"] /\ tokens[t].status = "live"
        /\ UNCHANGED <<users, cookie, page, refresh, call, disturbed, left>>
    BY <1>1 DEF Expire
  <2>2. [tokens[t] EXCEPT !.status = "expired"] \in Row
    BY <1>0 DEF Row
  <2>3. tokens' \in Seq(Row) /\ Len(tokens') = Len(tokens)
    BY <1>0, <2>1, <2>2, ExceptSeq
  <2>4. \A u \in 1..Len(tokens) : u # t => tokens'[u] = tokens[u]
    BY <1>0, <2>1
  <2>5. Grows(tokens')
    BY <1>0, <2>1, <2>3, <2>4 DEF Grows
  <2>6. RequestsSound'
    BY <2>1, <2>5, SoundGrows DEF RequestsSound
  <2> QED BY <1>0, <2>1, <2>3, <2>6 DEF TypeOK
<1>2. ASSUME NEW p \in Tabs, FindRefresh(p) PROVE TypeOK' /\ RequestsSound'
  <2>1. refresh[p] \in Request /\ refresh[p].kind = "refresh" /\ refresh[p].step = "find" /\ Sound(refresh[p], tokens)
    BY <1>2, Places DEF FindRefresh, RequestsSound
  <2> DEFINE t == refresh[p].token
  <2>2. t \in 0..Len(tokens)
    BY <2>1 DEF Sound
  <2>3. t # 0 => tokens[t].user \in Emails
    BY <1>0, <2>2 DEF Row
  <2>4. /\ UNCHANGED <<users, tokens, cookie, page, disturbed, left>>
        /\ \/ Refresh(p, Failed(refresh[p], "refused"))
           \/ t # 0 /\ Refresh(p, [refresh[p] EXCEPT !.step = "revokeAll"])
           \/ t # 0 /\ Refresh(p, [refresh[p] EXCEPT !.step = "revoke", !.user = tokens[t].user])
    BY <1>2 DEF FindRefresh
  <2>5. t # 0 => /\ [refresh[p] EXCEPT !.step = "revokeAll"] \in Request
                 /\ [refresh[p] EXCEPT !.step = "revokeAll"].kind = "refresh"
                 /\ Sound([refresh[p] EXCEPT !.step = "revokeAll"], tokens)
    BY <2>1 DEF Request, Sound, Steps
  <2>6. t # 0 => /\ [refresh[p] EXCEPT !.step = "revoke", !.user = tokens[t].user] \in Request
                 /\ [refresh[p] EXCEPT !.step = "revoke", !.user = tokens[t].user].kind = "refresh"
                 /\ Sound([refresh[p] EXCEPT !.step = "revoke", !.user = tokens[t].user], tokens)
    BY <2>1, <2>3 DEF Request, Sound, Steps
  <2> HIDE DEF t
  <2> QED BY <1>0, <2>1, <2>4, <2>5, <2>6, FailedIsSound, RefreshMoves DEF TypeOK
<1>3. ASSUME NEW p \in Tabs, RevokeAll(p) PROVE TypeOK' /\ RequestsSound'
  <2>1. refresh[p] \in Request /\ refresh[p].kind = "refresh" /\ Sound(refresh[p], tokens)
    BY <1>3, Places DEF RevokeAll, RequestsSound
  <2>2. tokens' \in [1..Len(tokens) -> Row] /\ \A t \in 1..Len(tokens) : tokens'[t] \in {tokens[t], Revoked(tokens[t])}
    BY <1>0, <1>3 DEF RevokeAll, Revoked, Row
  <2>3. tokens' \in Seq(Row) /\ Len(tokens') = Len(tokens)
    <3>1. tokens' \in Seq(Row)
      BY <1>0, <2>2, SeqDef
    <3>2. Len(tokens') \in Nat /\ 1..Len(tokens') = 1..Len(tokens)
      BY <2>2, <3>1, LenProperties
    <3> QED BY <1>0, <3>1, <3>2
  <2>4. Grows(tokens')
    BY <1>0, <2>2, <2>3 DEF Grows, Revoked, Row
  <2>5. Failed(refresh[p], "refused") \in Request /\ Sound(Failed(refresh[p], "refused"), tokens') /\ Failed(refresh[p], "refused").kind = "refresh"
    BY <1>0, <2>1, <2>4, SoundGrows, FailedIsSound
  <2> QED BY <1>0, <1>3, <2>3, <2>4, <2>5, RefreshMoves DEF RevokeAll, TypeOK
<1>4. ASSUME NEW p \in Tabs, RevokeOld(p) PROVE TypeOK' /\ RequestsSound'
  <2>1. refresh[p] \in Request /\ refresh[p].kind = "refresh" /\ refresh[p].step = "revoke" /\ Sound(refresh[p], tokens)
    BY <1>4, Places DEF RevokeOld, RequestsSound
  <2>2. /\ refresh[p].token \in 1..Len(tokens) /\ refresh[p].token # 0
        /\ tokens' = [tokens EXCEPT ![refresh[p].token] = Revoked(@)]
        /\ Refresh(p, [refresh[p] EXCEPT !.step = "issue"])
        /\ UNCHANGED <<users, cookie, page, disturbed, left>>
    BY <1>0, <1>4, <2>1 DEF RevokeOld, Sound
  <2>3. Grows(tokens') /\ Len(tokens') = Len(tokens)
    BY <2>2, RevokeGrows
  <2> DEFINE r == [refresh[p] EXCEPT !.step = "issue"]
  <2>4. r \in Request /\ r.kind = "refresh" /\ Sound(r, tokens')
    BY <1>0, <2>1, <2>3 DEF Request, Sound, Steps
  <2> HIDE DEF r
  <2> QED BY <1>0, <2>2, <2>3, <2>4, RefreshMoves DEF TypeOK, Grows, r
<1>5. ASSUME NEW p \in Tabs, IssueRefresh(p) PROVE TypeOK' /\ RequestsSound'
  <2>1. refresh[p] \in Request /\ refresh[p].kind = "refresh" /\ refresh[p].step = "issue" /\ Sound(refresh[p], tokens)
    BY <1>5, Places DEF IssueRefresh, RequestsSound
  <2>2. Grows(tokens') /\ Len(tokens') = Len(tokens) + 1 /\ Len(tokens) + 1 \in Tokens
    BY <1>5, <2>1, IssueGrows DEF IssueRefresh, Sound
  <2> DEFINE r == Issued(refresh[p])
  <2>3. r \in Request /\ r.kind = "refresh" /\ Sound(r, tokens')
    BY <1>0, <2>1, <2>2, IssuedIsSound
  <2> HIDE DEF r
  <2> QED BY <1>0, <1>5, <2>2, <2>3, RefreshMoves DEF TypeOK, Grows, r, IssueRefresh
<1>6. ASSUME NEW p \in Tabs, IssueSignIn(p) PROVE TypeOK' /\ RequestsSound'
  <2>1. /\ call[p] \in Request /\ call[p].kind \in {"login", "register"}
        /\ call[p].step = "issue" /\ Sound(call[p], tokens)
    BY <1>6, Places DEF IssueSignIn, RequestsSound, Request, Sound, Steps
  <2>2. Grows(tokens') /\ Len(tokens') = Len(tokens) + 1 /\ Len(tokens) + 1 \in Tokens
    BY <1>6, <2>1, IssueGrows DEF IssueSignIn, Sound
  <2> DEFINE r == Issued(call[p])
  <2>3. r \in Request /\ r.kind # "refresh" /\ Sound(r, tokens')
    BY <1>0, <2>1, <2>2, IssuedIsSound
  <2> HIDE DEF r
  <2> QED BY <1>0, <1>6, <2>2, <2>3, CallMoves DEF TypeOK, Grows, r, IssueSignIn
<1>7. ASSUME NEW p \in Tabs, CountUsers(p) \/ CreateUser(p) \/ CheckPassword(p) PROVE TypeOK' /\ RequestsSound'
  <2>1. /\ call[p] \in Request /\ call[p].kind \in {"login", "register"} /\ call[p].user \in Emails
        /\ call[p].step \in {"count", "create", "find"} /\ Sound(call[p], tokens)
    BY <1>7, Places DEF CountUsers, CreateUser, CheckPassword, RequestsSound, Request, Sound, Steps
  <2>2. /\ UNCHANGED <<tokens, cookie, page, disturbed, left>>
        /\ users' \in {users, users \cup {call[p].user}}
        /\ \/ Called(p, Failed(call[p], "refused"))
           \/ call[p].kind = "register" /\ Called(p, [call[p] EXCEPT !.step = "create"])
           \/ Called(p, [call[p] EXCEPT !.step = "issue"])
    BY <1>7, <2>1 DEF CountUsers, CreateUser, CheckPassword, Sound, Steps
  <2>3. \A step \in {"create", "issue"} : step = "issue" \/ call[p].kind = "register" =>
          LET r == [call[p] EXCEPT !.step = step] IN r \in Request /\ r.kind # "refresh" /\ Sound(r, tokens)
    BY <2>1 DEF Request, Sound, Steps
  <2>4. RequestsSound' /\ call' \in [Tabs -> Request \cup {NoRequest}] /\ refresh' \in [Tabs -> Request \cup {NoRequest}]
    BY <1>0, <2>1, <2>2, <2>3, FailedIsSound, CallMoves
  <2> QED BY <2>1, <2>2, <2>4 DEF TypeOK
<1>8. ASSUME NEW p \in Tabs, FindLogout(p) \/ RevokeLogout(p) PROVE TypeOK' /\ RequestsSound'
  <2>1. /\ call[p] \in Request /\ call[p].kind = "logout"
        /\ call[p].step \in {"find", "revoke"} /\ Sound(call[p], tokens)
    BY <1>8, Places DEF FindLogout, RevokeLogout, RequestsSound, Request, Sound, Steps
  <2> DEFINE t == call[p].token
             r == Answered(call[p], t)
             s == [call[p] EXCEPT !.step = "revoke"]
  <2>2. t \in 0..Len(tokens) /\ t \in Tokens \cup {0}
    BY <2>1 DEF Sound, Request
  <2>3. r \in Request /\ s \in Request /\ r.kind = "logout" /\ s.kind = "logout"
        /\ r.step = "answer" /\ r.token = t /\ s.step = "revoke" /\ s.token = t /\ s.answer = "ok"
    BY <2>1, <2>2 DEF Request, Answered, Sound
  <2>4. t # 0 => Sound(s, tokens)
    BY <2>2, <2>3 DEF Sound, Steps
  <2>5. ASSUME NEW toks, Len(toks) = Len(tokens), t # 0 => toks[t].status = "revoked"
        PROVE  Sound(r, toks)
    BY <2>2, <2>3, <2>5 DEF Sound, Steps
  <2> HIDE DEF r, s
  <2>6. CASE FindLogout(p)
    <3>1. /\ UNCHANGED <<users, tokens, cookie, page, disturbed, left>>
          /\ \/ (t # 0 => tokens[t].status = "revoked") /\ Called(p, r)
             \/ t # 0 /\ Called(p, s)
      BY <2>6 DEF FindLogout, r, s
    <3>2. RequestsSound' /\ call' \in [Tabs -> Request \cup {NoRequest}] /\ refresh' \in [Tabs -> Request \cup {NoRequest}]
      BY <1>0, <2>3, <2>4, <2>5, <3>1, CallMoves
    <3> QED BY <3>1, <3>2 DEF TypeOK
  <2>7. CASE RevokeLogout(p)
    <3>1. /\ UNCHANGED <<users, cookie, page, disturbed, left>>
          /\ tokens' = [tokens EXCEPT ![t] = Revoked(@)] /\ Called(p, r)
          /\ t \in 1..Len(tokens)
      BY <1>0, <2>1, <2>2, <2>7 DEF RevokeLogout, r, Sound
    <3>2. Grows(tokens') /\ Len(tokens') = Len(tokens) /\ tokens'[t].status = "revoked"
      BY <3>1, RevokeGrows
    <3>3. RequestsSound' /\ call' \in [Tabs -> Request \cup {NoRequest}] /\ refresh' \in [Tabs -> Request \cup {NoRequest}]
      BY <1>0, <2>3, <2>5, <3>1, <3>2, CallMoves
    <3> QED BY <1>0, <3>1, <3>2, <3>3 DEF TypeOK, Grows
  <2> QED BY <1>8, <2>6, <2>7
<1>9. ASSUME NEW p \in Tabs, RefreshFails(p) \/ CallFails(p) PROVE TypeOK' /\ RequestsSound'
  <2>1. CASE RefreshFails(p)
    <3>1. refresh[p] \in Request /\ refresh[p].kind = "refresh" /\ Sound(refresh[p], tokens)
          /\ Refresh(p, Failed(refresh[p], "error")) /\ UNCHANGED <<users, tokens, cookie, page, disturbed, left>>
      BY <2>1, Places DEF RefreshFails, RequestsSound
    <3> QED BY <1>0, <3>1, FailedIsSound, RefreshMoves DEF TypeOK
  <2>2. CASE CallFails(p)
    <3>1. call[p] \in Request /\ call[p].kind # "refresh" /\ Sound(call[p], tokens)
          /\ Called(p, Failed(call[p], "error")) /\ UNCHANGED <<users, tokens, cookie, page, disturbed, left>>
      BY <2>2, Places DEF CallFails, RequestsSound
    <3> QED BY <1>0, <3>1, FailedIsSound, CallMoves DEF TypeOK
  <2> QED BY <1>9, <2>1, <2>2
<1>10. ASSUME NEW p \in Tabs, Load(p) \/ Unauthorized(p) PROVE TypeOK' /\ RequestsSound'
  <2>1. page[p] \in Page /\ page \in [Tabs -> Page]
    BY <1>10 DEF TypeOK
  <2> DEFINE r == Sent("refresh", "find", Nobody)
  <2>2. r \in Request /\ Sound(r, tokens) /\ r.kind = "refresh"
    BY SentIsSound
  <2> HIDE DEF r
  <2>3. /\ UNCHANGED <<users, tokens, cookie, left>> /\ disturbed' \in BOOLEAN
        /\ refresh' \in {refresh, [refresh EXCEPT ![p] = r]}
        /\ call' \in {call, [call EXCEPT ![p] = NoRequest]}
    BY <1>10 DEF Load, Unauthorized, SendRefresh, r, TypeOK
  <2>4. page' \in [Tabs -> Page]
    <3>1. CASE Load(p)
      <4>1. page[p].loads + 1 \in 0..MaxLoads
        BY <2>1, <3>1, BoundsAssumption DEF Load, Page
      <4> QED BY <2>1, <3>1, <4>1 DEF Load, Page
    <3>2. CASE Unauthorized(p)
      BY <2>1, <3>2 DEF Unauthorized, Page
    <3> QED BY <1>10, <3>1, <3>2
  <2>5. refresh' \in [Tabs -> Request \cup {NoRequest}] /\ call' \in [Tabs -> Request \cup {NoRequest}]
    BY <1>0, <2>2, <2>3
  <2>6. RequestsSound'
    BY <1>0, <2>2, <2>3 DEF RequestsSound
  <2> QED BY <2>3, <2>4, <2>5, <2>6 DEF TypeOK
<1>11. ASSUME NEW p \in Tabs, ReceiveSession(p) \/ SessionEnds(p) \/ LoseRefresh(p) PROVE TypeOK' /\ RequestsSound'
  <2>1. page[p] \in Page /\ page \in [Tabs -> Page]
    BY <1>11 DEF TypeOK
  <2>2. refresh[p] # NoRequest /\ Sound(refresh[p], tokens) /\ refresh[p].token \in 0..Len(tokens)
    BY <1>11, Places DEF ReceiveSession, SessionEnds, LoseRefresh, RequestsSound, Sound
  <2>3. /\ Refresh(p, NoRequest) /\ UNCHANGED <<users, tokens, left>> /\ disturbed' \in BOOLEAN
        /\ cookie' \in {cookie, 0, refresh[p].token}
    BY <1>11 DEF ReceiveSession, SessionEnds, LoseRefresh, TypeOK
  <2>4. page' \in [Tabs -> Page]
    <3>1. CASE ReceiveSession(p)
      BY <2>1, <3>1 DEF ReceiveSession, Page
    <3>2. CASE NoSession(p)
      BY <2>1, <3>2 DEF NoSession, Page
    <3> QED BY <1>11, <3>1, <3>2 DEF SessionEnds, LoseRefresh
  <2>5. RequestsSound' /\ call' \in [Tabs -> Request \cup {NoRequest}] /\ refresh' \in [Tabs -> Request \cup {NoRequest}]
    BY <2>3, RefreshMoves
  <2> QED BY <1>0, <2>2, <2>3, <2>4, <2>5 DEF TypeOK
<1>12. ASSUME NEW p \in Tabs, SignIn(p) \/ SignOut(p) PROVE TypeOK' /\ RequestsSound'
  <2>1. PICK what \in {"login", "register", "logout"}, step \in {"find", "count"}, user \in Emails \cup {Nobody} :
          /\ \/ what = "logout" /\ step = "find" /\ user = Nobody
             \/ what = "login" /\ step = "find" /\ user \in Emails
             \/ what = "register" /\ step = "count" /\ user \in Emails
          /\ Called(p, Sent(what, step, user))
    BY <1>12 DEF SignIn, SignOut
  <2>2. UNCHANGED <<users, tokens, cookie, page, left>> /\ disturbed' \in BOOLEAN
    BY <1>12 DEF SignIn, SignOut, TypeOK
  <2> DEFINE r == Sent(what, step, user)
  <2>3. r \in Request /\ Sound(r, tokens) /\ r.kind # "refresh"
    BY <2>1, SentIsSound
  <2> HIDE DEF r
  <2>4. RequestsSound' /\ call' \in [Tabs -> Request \cup {NoRequest}] /\ refresh' \in [Tabs -> Request \cup {NoRequest}]
    BY <2>1, <2>2, <2>3, CallMoves DEF r
  <2> QED BY <2>2, <2>4 DEF TypeOK
<1>13. ASSUME NEW p \in Tabs, ReceiveSignIn(p) \/ ReceiveSignOut(p) \/ LoseCall(p) PROVE TypeOK' /\ RequestsSound'
  <2>1. page[p] \in Page /\ page \in [Tabs -> Page]
    BY <1>13 DEF TypeOK
  <2>2. call[p] # NoRequest /\ Sound(call[p], tokens) /\ call[p].token \in 0..Len(tokens)
    BY <1>13, Places DEF ReceiveSignIn, ReceiveSignOut, LoseCall, RequestsSound, Sound
  <2>3. /\ Called(p, NoRequest) /\ UNCHANGED <<users, tokens>> /\ disturbed' \in BOOLEAN
        /\ cookie' \in {cookie, 0, call[p].token} /\ left' \in {left, 0, call[p].token}
    BY <1>13 DEF ReceiveSignIn, ReceiveSignOut, LoseCall, TypeOK
  <2>4. page' \in [Tabs -> Page]
    <3>1. CASE page' = [page EXCEPT ![p].access = TRUE, ![p].status = "authed"]
      BY <2>1, <3>1 DEF Page
    <3>2. CASE SignedOut(p)
      BY <2>1, <3>2 DEF SignedOut, Page
    <3>3. CASE page' = page
      BY <2>1, <3>3
    <3> QED BY <1>13, <3>1, <3>2, <3>3 DEF ReceiveSignIn, ReceiveSignOut, LoseCall
  <2>5. RequestsSound' /\ call' \in [Tabs -> Request \cup {NoRequest}] /\ refresh' \in [Tabs -> Request \cup {NoRequest}]
    BY <2>3, CallMoves
  <2> QED BY <1>0, <2>2, <2>3, <2>4, <2>5 DEF TypeOK
<1>14. CASE UNCHANGED vars
  BY <1>14 DEF vars, TypeOK, RequestsSound
<1> QED BY <1>1, <1>2, <1>3, <1>4, <1>5, <1>6, <1>7, <1>8, <1>9, <1>10, <1>11, <1>12, <1>13, <1>14
        DEF Next, User, ServeRefresh, ServeCall

-----------------------------------------------------------------------------
(* What the server does to a request.                                      *)

ServesRefresh(p) == FindRefresh(p) \/ RevokeAll(p) \/ RevokeOld(p) \/ IssueRefresh(p) \/ RefreshFails(p)
ServesCall(p) == \/ CountUsers(p) \/ CreateUser(p) \/ CheckPassword(p) \/ IssueSignIn(p)
                 \/ FindLogout(p) \/ RevokeLogout(p) \/ CallFails(p)

\* The statement of a request r leaves s in its place.
Fails(r, s) == s.step = "answer" /\ s.answer # "ok" /\ s.token = 0
Revokes(r, s) ==
    /\ r.step = "revoke" /\ s.token = r.token /\ r.token \in 1..Len(tokens)
    /\ tokens'[r.token].status = "revoked" /\ Len(tokens') = Len(tokens)
    /\ \A u \in 1..Len(tokens) : u # r.token => tokens'[u] = tokens[u]
Issues(r, s) ==
    /\ r.step = "issue" /\ s.step = "answer" /\ s.token = Len(tokens) + 1
    /\ Len(tokens') = Len(tokens) + 1 /\ tokens'[Len(tokens) + 1].status = "live"
    /\ \A u \in 1..Len(tokens) : tokens'[u] = tokens[u]

\* What one statement of the server does to the refresh of tab p.
LEMMA RefreshServed ==
    ASSUME TypeOK, RequestsSound, NEW p \in Tabs, ServesRefresh(p)
    PROVE  LET r == refresh[p]
               s == refresh'[p]
           IN  /\ UNCHANGED <<call, page, cookie, disturbed, left>>
               /\ \A q \in Tabs \ {p} : refresh'[q] = refresh[q]
               /\ r # NoRequest /\ s # NoRequest /\ r.kind = "refresh" /\ s.kind = "refresh" /\ r.step # "answer"
               /\ \/ Fails(r, s) /\ (tokens' = tokens \/ r.step = "revokeAll")
                  \/ r.step = "find" /\ s.step = "revokeAll" /\ s.token = r.token /\ IsRevoked(r.token) /\ tokens' = tokens
                  \/ r.step = "find" /\ s.step = "revoke" /\ s.token = r.token /\ ~IsRevoked(r.token) /\ tokens' = tokens
                  \/ Revokes(r, s) /\ s.step = "issue"
                  \/ Issues(r, s)
<1> DEFINE r == refresh[p]
           s == refresh'[p]
<1>1. r \in Request /\ r # NoRequest /\ r.kind = "refresh" /\ Sound(r, tokens) /\ r.step \notin {"idle", "answer"}
  BY Places DEF ServesRefresh, FindRefresh, RevokeAll, RevokeOld, IssueRefresh, RefreshFails, RequestsSound
<1>2. Len(tokens) \in Nat /\ r.token \in 0..Len(tokens) /\ refresh \in [Tabs -> Request \cup {NoRequest}]
  BY <1>1, LenProperties DEF TypeOK, Sound
<1>3. UNCHANGED <<call, page, cookie, disturbed, left>> /\ \A q \in Tabs \ {p} : refresh'[q] = refresh[q]
  BY <1>2 DEF ServesRefresh, FindRefresh, RevokeAll, RevokeOld, IssueRefresh, RefreshFails, Refresh
<1>4. ASSUME NEW x, Refresh(p, x), x \in Request PROVE s = x /\ s # NoRequest
  BY <1>2, <1>4, InFlight DEF Refresh, Request
<1>5. \A what \in {"refused", "error"} : Failed(r, what) \in Request /\ Failed(r, what).kind = "refresh" /\ Fails(r, Failed(r, what))
  <2> TAKE what \in {"refused", "error"}
  <2>1. Answered(r, 0) \in Request /\ Answered(r, 0).kind = "refresh" /\ Answered(r, 0).step = "answer" /\ Answered(r, 0).token = 0
    BY <1>1, AnsweredFacts
  <2> QED BY <2>1 DEF Failed, Fails, Request
<1>6. CASE FindRefresh(p)
  <2>1. /\ tokens' = tokens /\ r.step = "find"
        /\ \/ Refresh(p, Failed(r, "refused"))
           \/ IsRevoked(r.token) /\ Refresh(p, [r EXCEPT !.step = "revokeAll"])
           \/ r.token # 0 /\ ~IsRevoked(r.token) /\ Refresh(p, [r EXCEPT !.step = "revoke", !.user = tokens[r.token].user])
    BY <1>6 DEF FindRefresh, IsRevoked
  <2>2. CASE Refresh(p, Failed(r, "refused"))
    BY <1>1, <1>3, <1>4, <1>5, <2>1, <2>2
  <2>3. CASE IsRevoked(r.token) /\ Refresh(p, [r EXCEPT !.step = "revokeAll"])
    <3>1. s = [r EXCEPT !.step = "revokeAll"]
      BY <1>2, <2>3 DEF Refresh
    <3>2. s \in Request /\ s.kind = "refresh" /\ s.step = "revokeAll" /\ s.token = r.token
      BY <1>1, <3>1 DEF Request
    <3> HIDE DEF s
    <3> QED BY <1>1, <1>3, <2>1, <2>3, <3>2, InFlight DEF s
  <2>4. CASE r.token # 0 /\ ~IsRevoked(r.token) /\ Refresh(p, [r EXCEPT !.step = "revoke", !.user = tokens[r.token].user])
    <3>1. s = [r EXCEPT !.step = "revoke", !.user = tokens[r.token].user]
      BY <1>2, <2>4 DEF Refresh
    <3>2. tokens \in Seq(Row) /\ r.token \in 1..Len(tokens)
      BY <1>2, <2>4 DEF TypeOK
    <3>3. tokens[r.token] \in Row
      BY <3>2, ElementOfSeq
    <3>4. tokens[r.token].user \in Emails
      BY <3>3 DEF Row
    <3>5. s \in Request /\ s.kind = "refresh" /\ s.step = "revoke" /\ s.token = r.token
      BY <1>1, <3>1, <3>4 DEF Request
    <3> QED BY <1>1, <1>3, <2>1, <2>4, <3>5, InFlight
  <2> QED BY <2>1, <2>2, <2>3, <2>4
<1>7. CASE RevokeAll(p)
  BY <1>1, <1>3, <1>4, <1>5, <1>7 DEF RevokeAll
<1>8. CASE RevokeOld(p)
  <2>1. tokens' = [tokens EXCEPT ![r.token] = Revoked(@)] /\ Refresh(p, [r EXCEPT !.step = "issue"]) /\ r.step = "revoke"
        /\ r.token \in 1..Len(tokens)
    BY <1>1, <1>2, <1>8 DEF RevokeOld, Sound
  <2>2. s = [r EXCEPT !.step = "issue"]
    BY <1>2, <2>1 DEF Refresh
  <2>3. s \in Request /\ s.kind = "refresh" /\ s.step = "issue" /\ s.token = r.token
    BY <1>1, <2>2 DEF Request
  <2>4. Revokes(r, s)
    BY <2>1, <2>3, RevokeGrows DEF Revokes
  <2> QED BY <1>1, <1>3, <2>3, <2>4, InFlight
<1>9. CASE IssueRefresh(p)
  <2>1. Issue(r) /\ Refresh(p, Issued(r)) /\ r.step = "issue" /\ r.user \in Emails
    BY <1>1, <1>9 DEF IssueRefresh, Sound
  <2>2. /\ Len(tokens') = Len(tokens) + 1 /\ \A u \in 1..Len(tokens) : tokens'[u] = tokens[u]
        /\ tokens'[Len(tokens) + 1].status = "live" /\ Len(tokens) + 1 \in Tokens
    BY <2>1, IssueGrows
  <2>3. Issued(r) \in Request /\ Issued(r).kind = "refresh" /\ Issued(r).step = "answer" /\ Issued(r).token = Len(tokens) + 1
    BY <1>1, <2>2, AnsweredFacts DEF Issued
  <2>4. s = Issued(r) /\ s # NoRequest
    BY <1>4, <2>1, <2>3
  <2>5. Issues(r, s)
    BY <2>1, <2>2, <2>3, <2>4 DEF Issues
  <2> QED BY <1>1, <1>3, <2>3, <2>4, <2>5
<1>10. CASE RefreshFails(p)
  BY <1>1, <1>3, <1>4, <1>5, <1>10 DEF RefreshFails
<1> QED BY <1>6, <1>7, <1>8, <1>9, <1>10 DEF ServesRefresh

\* What one statement of the server does to the call of tab p.
LEMMA CallServed ==
    ASSUME TypeOK, RequestsSound, NEW p \in Tabs, ServesCall(p)
    PROVE  LET r == call[p]
               s == call'[p]
           IN  /\ UNCHANGED <<refresh, page, cookie, disturbed, left>>
               /\ \A q \in Tabs \ {p} : call'[q] = call[q]
               /\ r # NoRequest /\ s # NoRequest /\ r.kind # "refresh" /\ s.kind = r.kind /\ r.step # "answer"
               /\ \/ Fails(r, s) /\ tokens' = tokens
                  \/ r.kind # "logout" /\ s.step \in {"create", "issue"} /\ tokens' = tokens
                  \/ r.kind = "logout" /\ r.step = "find" /\ s.step = "answer" /\ s.token = r.token
                       /\ (r.token = 0 \/ IsRevoked(r.token)) /\ tokens' = tokens
                  \/ r.kind = "logout" /\ r.step = "find" /\ s.step = "revoke" /\ s.token = r.token
                       /\ ~IsRevoked(r.token) /\ tokens' = tokens
                  \/ r.kind = "logout" /\ Revokes(r, s) /\ s.step = "answer" /\ s.answer = "ok"
                  \/ r.kind # "logout" /\ Issues(r, s)
<1> DEFINE r == call[p]
           s == call'[p]
<1>1. r \in Request /\ r # NoRequest /\ r.kind # "refresh" /\ Sound(r, tokens) /\ r.step \notin {"idle", "answer"}
  BY Places DEF ServesCall, CountUsers, CreateUser, CheckPassword, IssueSignIn, FindLogout, RevokeLogout, CallFails, RequestsSound
<1>2. Len(tokens) \in Nat /\ r.token \in 0..Len(tokens) /\ call \in [Tabs -> Request \cup {NoRequest}]
      /\ r.token \in Tokens \cup {0}
  BY <1>1, LenProperties DEF TypeOK, Sound, Request
<1>3. UNCHANGED <<refresh, page, cookie, disturbed, left>> /\ \A q \in Tabs \ {p} : call'[q] = call[q]
  BY <1>2 DEF ServesCall, CountUsers, CreateUser, CheckPassword, IssueSignIn, FindLogout, RevokeLogout, CallFails, Called
<1>4. ASSUME NEW x, Called(p, x), x \in Request PROVE s = x /\ s # NoRequest
  BY <1>2, <1>4, InFlight DEF Called, Request
<1>5. \A what \in {"refused", "error"} : Failed(r, what) \in Request /\ Failed(r, what).kind = r.kind /\ Fails(r, Failed(r, what))
  <2> TAKE what \in {"refused", "error"}
  <2>1. Answered(r, 0) \in Request /\ Answered(r, 0).kind = r.kind /\ Answered(r, 0).step = "answer" /\ Answered(r, 0).token = 0
    BY <1>1, AnsweredFacts
  <2> QED BY <2>1 DEF Failed, Fails, Request
<1>6. \A step \in {"create", "issue", "revoke"} :
        LET x == [r EXCEPT !.step = step]
        IN  x \in Request /\ x.kind = r.kind /\ x.step = step /\ x.token = r.token
  BY <1>1 DEF Request
<1>7. CASE CountUsers(p) \/ CreateUser(p) \/ CheckPassword(p)
  <2>1. /\ tokens' = tokens /\ r.kind # "logout"
        /\ \/ Called(p, Failed(r, "refused"))
           \/ \E step \in {"create", "issue"} : Called(p, [r EXCEPT !.step = step])
    BY <1>1, <1>7 DEF CountUsers, CreateUser, CheckPassword, Sound, Steps
  <2>2. CASE Called(p, Failed(r, "refused"))
    BY <1>1, <1>3, <1>4, <1>5, <2>1, <2>2
  <2>3. CASE \E step \in {"create", "issue"} : Called(p, [r EXCEPT !.step = step])
    <3>1. PICK step \in {"create", "issue"} : Called(p, [r EXCEPT !.step = step])
      BY <2>3
    <3>2. s = [r EXCEPT !.step = step] /\ s # NoRequest
      BY <1>4, <1>6, <3>1
    <3>3. s.kind = r.kind /\ s.step \in {"create", "issue"}
      BY <1>6, <3>2
    <3> QED BY <1>1, <1>3, <2>1, <3>2, <3>3
  <2> QED BY <2>1, <2>2, <2>3
<1>8. CASE IssueSignIn(p)
  <2>1. Issue(r) /\ Called(p, Issued(r)) /\ r.step = "issue" /\ r.user \in Emails /\ r.kind # "logout"
    BY <1>1, <1>8 DEF IssueSignIn, Sound, Steps, Request
  <2>2. /\ Len(tokens') = Len(tokens) + 1 /\ \A u \in 1..Len(tokens) : tokens'[u] = tokens[u]
        /\ tokens'[Len(tokens) + 1].status = "live" /\ Len(tokens) + 1 \in Tokens
    BY <2>1, IssueGrows
  <2>3. Issued(r) \in Request /\ Issued(r).kind = r.kind /\ Issued(r).step = "answer" /\ Issued(r).token = Len(tokens) + 1
    BY <1>1, <2>2, AnsweredFacts DEF Issued
  <2>4. s = Issued(r) /\ s # NoRequest
    BY <1>4, <2>1, <2>3
  <2>5. Issues(r, s)
    BY <2>1, <2>2, <2>3, <2>4 DEF Issues
  <2> QED BY <1>1, <1>3, <2>1, <2>3, <2>4, <2>5
<1>9. Answered(r, r.token) \in Request /\ Answered(r, r.token).kind = r.kind
      /\ Answered(r, r.token).answer = r.answer /\ Answered(r, r.token).step = "answer" /\ Answered(r, r.token).token = r.token
  BY <1>1, <1>2, AnsweredFacts
<1>10. CASE FindLogout(p)
  <2>1. /\ tokens' = tokens /\ r.step = "find" /\ r.kind = "logout"
        /\ \/ (r.token = 0 \/ IsRevoked(r.token)) /\ Called(p, Answered(r, r.token))
           \/ ~IsRevoked(r.token) /\ Called(p, [r EXCEPT !.step = "revoke"])
    BY <1>10 DEF FindLogout, IsRevoked
  <2>2. CASE (r.token = 0 \/ IsRevoked(r.token)) /\ Called(p, Answered(r, r.token))
    <3>1. s = Answered(r, r.token) /\ s # NoRequest
      BY <1>4, <1>9, <2>2
    <3>2. s.kind = r.kind /\ s.step = "answer" /\ s.token = r.token
      BY <1>9, <3>1
    <3> QED BY <1>1, <1>3, <2>1, <2>2, <3>1, <3>2
  <2>3. CASE ~IsRevoked(r.token) /\ Called(p, [r EXCEPT !.step = "revoke"])
    <3>1. s = [r EXCEPT !.step = "revoke"] /\ s # NoRequest
      BY <1>4, <1>6, <2>3
    <3>2. s.kind = r.kind /\ s.step = "revoke" /\ s.token = r.token
      BY <1>6, <3>1
    <3> QED BY <1>1, <1>3, <2>1, <2>3, <3>1, <3>2
  <2> QED BY <2>1, <2>2, <2>3
<1>11. CASE RevokeLogout(p)
  <2>1. tokens' = [tokens EXCEPT ![r.token] = Revoked(@)] /\ Called(p, Answered(r, r.token)) /\ r.step = "revoke"
        /\ r.token \in 1..Len(tokens) /\ r.kind = "logout"
    BY <1>1, <1>2, <1>11 DEF RevokeLogout, Sound, Steps, Request
  <2>2. s = Answered(r, r.token) /\ s # NoRequest
    BY <1>4, <1>9, <2>1
  <2>3. s.kind = r.kind /\ s.step = "answer" /\ s.token = r.token /\ s.answer = "ok"
    BY <1>1, <1>9, <2>2 DEF Sound
  <2>4. Revokes(r, s)
    BY <2>1, <2>3, RevokeGrows DEF Revokes
  <2> QED BY <1>1, <1>3, <2>1, <2>2, <2>3, <2>4
<1>12. CASE CallFails(p)
  BY <1>1, <1>3, <1>4, <1>5, <1>12 DEF CallFails
<1> QED BY <1>7, <1>8, <1>10, <1>11, <1>12 DEF ServesCall

\* The answer of a request is read, sent, or lost: its place afterwards.
LEMMA RefreshPut ==
    ASSUME TypeOK, NEW p \in Tabs, NEW x, refresh' = [refresh EXCEPT ![p] = x]
    PROVE  refresh'[p] = x /\ \A q \in Tabs : q # p => refresh'[q] = refresh[q]
  BY DEF TypeOK

\* The same for a call.
LEMMA CallPut ==
    ASSUME TypeOK, NEW p \in Tabs, NEW x, call' = [call EXCEPT ![p] = x]
    PROVE  call'[p] = x /\ \A q \in Tabs : q # p => call'[q] = call[q]
  BY DEF TypeOK

\* Every step keeps pages and refreshes together.
LEMMA PagesStep ==
    ASSUME TypeOK, RequestsSound, PagesInv, [Next]_vars
    PROVE  PagesInv'
<1>0. page \in [Tabs -> Page]
  BY DEF TypeOK
<1>1. ASSUME page' = page,
             \A q \in Tabs : (refresh'[q] # NoRequest <=> refresh[q] # NoRequest) /\ (call'[q] # NoRequest => call[q] # NoRequest)
      PROVE  PagesInv'
  BY <1>1 DEF PagesInv
<1>2. ASSUME NEW p \in Tabs, ServesRefresh(p) PROVE PagesInv'
  <2>1. /\ UNCHANGED <<call, page>> /\ \A q \in Tabs \ {p} : refresh'[q] = refresh[q]
        /\ refresh[p] # NoRequest /\ refresh'[p] # NoRequest
    BY <1>2, RefreshServed
  <2> QED BY <1>1, <2>1
<1>3. ASSUME NEW p \in Tabs, ServesCall(p) PROVE PagesInv'
  <2>1. /\ UNCHANGED <<refresh, page>> /\ \A q \in Tabs \ {p} : call'[q] = call[q]
        /\ call[p] # NoRequest
    BY <1>3, CallServed
  <2> QED BY <1>1, <2>1
<1>4. ASSUME NEW t \in DOMAIN tokens, Expire(t) PROVE PagesInv'
  BY <1>1, <1>4 DEF Expire
<1>5. Sent("refresh", "find", Nobody) # NoRequest
  <2>1. Sent("refresh", "find", Nobody).step = "find"
    BY SentIsSound
  <2> QED BY <2>1 DEF NoRequest
<1>6. ASSUME NEW p \in Tabs, Load(p) PROVE PagesInv'
  <2>1. /\ refresh'[p] # NoRequest /\ call'[p] = NoRequest
        /\ \A q \in Tabs : q # p => refresh'[q] = refresh[q] /\ call'[q] = call[q]
    <3>1. /\ refresh' = [refresh EXCEPT ![p] = Sent("refresh", "find", Nobody)]
          /\ call' = [call EXCEPT ![p] = NoRequest]
      BY <1>6 DEF Load, SendRefresh
    <3>2. refresh'[p] # NoRequest /\ \A q \in Tabs : q # p => refresh'[q] = refresh[q]
      BY <1>5, <3>1, RefreshPut
    <3>3. call'[p] = NoRequest /\ \A q \in Tabs : q # p => call'[q] = call[q]
      BY <3>1, CallPut
    <3> QED BY <3>2, <3>3
  <2>2. page'[p].status = "loading" /\ \A q \in Tabs : q # p => page'[q] = page[q]
    BY <1>0, <1>6 DEF Load
  <2> QED BY <2>1, <2>2 DEF PagesInv
<1>7. ASSUME NEW p \in Tabs, Unauthorized(p) PROVE PagesInv'
  <2>1. /\ page' = [page EXCEPT ![p].waiting = TRUE] /\ page[p].status = "authed" /\ call' = call
        /\ \/ refresh[p] = NoRequest /\ refresh' = [refresh EXCEPT ![p] = Sent("refresh", "find", Nobody)]
           \/ refresh[p] # NoRequest /\ refresh' = refresh
    BY <1>7 DEF Unauthorized, SendRefresh
  <2>2. refresh'[p] # NoRequest /\ \A q \in Tabs : q # p => refresh'[q] = refresh[q]
    BY <1>5, <2>1, RefreshPut
  <2>3. /\ page'[p].status = "authed" /\ page'[p].waiting = TRUE
        /\ \A q \in Tabs : q # p => page'[q] = page[q]
    BY <1>0, <2>1 DEF Page
  <2> QED BY <2>1, <2>2, <2>3 DEF PagesInv
<1>8. ASSUME NEW p \in Tabs, ReceiveSession(p) PROVE PagesInv'
  <2>1. /\ call' = call /\ refresh'[p] = NoRequest /\ \A q \in Tabs : q # p => refresh'[q] = refresh[q]
    BY <1>8, RefreshPut DEF ReceiveSession, Refresh
  <2>2. /\ page'[p].access = TRUE /\ page'[p].waiting = FALSE
        /\ page'[p].status = IF page[p].status = "loading" THEN "authed" ELSE page[p].status
        /\ \A q \in Tabs : q # p => page'[q] = page[q]
    BY <1>0, <1>8 DEF ReceiveSession, Page
  <2> QED BY <2>1, <2>2 DEF PagesInv
<1>9. ASSUME NEW p \in Tabs, SessionEnds(p) \/ LoseRefresh(p) PROVE PagesInv'
  <2>1. /\ call' = call /\ refresh'[p] = NoRequest /\ \A q \in Tabs : q # p => refresh'[q] = refresh[q]
    BY <1>9, RefreshPut DEF SessionEnds, LoseRefresh, Refresh
  <2>2. refresh[p] # NoRequest
    BY <1>9, Places DEF SessionEnds, LoseRefresh
  <2>3. NoSession(p)
    BY <1>9 DEF SessionEnds, LoseRefresh
  <2>4. /\ page'[p].waiting = FALSE
        /\ page'[p].status = IF page[p].status = "loading" \/ page[p].waiting THEN "anon" ELSE page[p].status
        /\ \A q \in Tabs : q # p => page'[q] = page[q]
    BY <1>0, <2>3 DEF NoSession, Page
  <2>5. page'[p].status = "anon"
    BY <2>2, <2>4 DEF PagesInv
  <2> QED BY <2>1, <2>4, <2>5 DEF PagesInv
<1>10. ASSUME NEW p \in Tabs, SignIn(p) \/ SignOut(p) PROVE PagesInv'
  <2>1. /\ page' = page /\ refresh' = refresh /\ page[p].status \in {"anon", "authed"}
        /\ \E r : call' = [call EXCEPT ![p] = r]
    BY <1>10 DEF SignIn, SignOut, Called
  <2>2. \A q \in Tabs : q # p => call'[q] = call[q]
    BY <2>1, CallPut
  <2> QED BY <2>1, <2>2 DEF PagesInv
<1>11. ASSUME NEW p \in Tabs, ReceiveSignIn(p) \/ ReceiveSignOut(p) \/ LoseCall(p) PROVE PagesInv'
  <2>1. /\ refresh' = refresh /\ call'[p] = NoRequest /\ \A q \in Tabs : q # p => call'[q] = call[q]
    BY <1>11, CallPut DEF ReceiveSignIn, ReceiveSignOut, LoseCall, Called
  <2>2. call[p] # NoRequest /\ page[p].status \notin {"closed", "loading"}
    BY <1>11, Places DEF ReceiveSignIn, ReceiveSignOut, LoseCall, PagesInv
  <2>3. /\ \A q \in Tabs : q # p => page'[q] = page[q]
        /\ page'[p].waiting = page[p].waiting
        /\ \/ page'[p].status = "authed" /\ page'[p].access = TRUE
           \/ page'[p].status = "anon"
           \/ page'[p] = page[p]
    BY <1>0, <1>11 DEF ReceiveSignIn, ReceiveSignOut, LoseCall, SignedOut, Page
  <2> QED BY <2>1, <2>2, <2>3 DEF PagesInv
<1>12. CASE UNCHANGED vars
  BY <1>12 DEF vars, PagesInv
<1> QED BY <1>2, <1>3, <1>4, <1>6, <1>7, <1>8, <1>9, <1>10, <1>11, <1>12
        DEF Next, User, ServeRefresh, ServeCall, ServesRefresh, ServesCall

-----------------------------------------------------------------------------
(* Tokens on their way.                                                    *)

\* A request r became s: it brings a new token, and sends the cookie's or the
\* one it sent before; or it is gone, and the cookie is its token or none.
Passes(r, s) ==
    \/ /\ cookie' = cookie
       /\ Brings(s) => s.token = Len(tokens) + 1
       /\ Spends(s) => s.token = cookie \/ (Spends(r) /\ s.token = r.token)
    \/ s = NoRequest /\ (cookie' \in {cookie, 0} \/ (Brings(r) /\ cookie' = r.token))

\* The tokens in flight are rows of the table, a new one is not 0.
LEMMA InTable ==
    ASSUME TypeOK, RequestsSound
    PROVE  /\ Len(tokens) \in Nat /\ cookie \in 0..Len(tokens)
           /\ \A p \in Tabs : /\ Brings(refresh[p]) => refresh[p].token \in 1..Len(tokens)
                              /\ Brings(call[p]) => call[p].token \in 1..Len(tokens)
                              /\ Spends(refresh[p]) => refresh[p].token \in 0..Len(tokens)
                              /\ Spends(call[p]) => call[p].token \in 0..Len(tokens)
<1>1. Len(tokens) \in Nat /\ cookie \in 0..Len(tokens)
  BY LenProperties DEF TypeOK
<1> QED BY <1>1 DEF RequestsSound, Sound, Brings, Spends

\* An empty place brings and sends no token.
LEMMA NothingPasses == ~Brings(NoRequest) /\ ~Spends(NoRequest)
  BY DEF Brings, Spends

\* New tokens stay apart when one refresh moves on in this way ...
LEMMA RefreshPasses ==
    ASSUME TypeOK, RequestsSound, NewTokens, NEW p \in Tabs, NEW s, refresh'[p] = s,
           \A q \in Tabs : q # p => refresh'[q] = refresh[q],
           call' = call, Passes(refresh[p], s)
    PROVE  NewTokens'
<1> USE InTable, NothingPasses
<1>1. \A q \in Tabs : /\ Brings(refresh'[q]) => refresh'[q].token # cookie'
                      /\ Brings(call[q]) => call[q].token # cookie'
  BY DEF NewTokens, Apart, Passes
<1>2. \A q \in Tabs : q # p => Apart(s, refresh[q]) /\ Apart(refresh[q], s)
  BY DEF NewTokens, Apart, Passes
<1>3. \A q \in Tabs : Apart(s, call[q]) /\ Apart(call[q], s)
  BY DEF NewTokens, Apart, Passes
<1>4. \A q1, q2 \in Tabs :
        /\ q1 # q2 => Apart(refresh'[q1], refresh'[q2]) /\ Apart(call'[q1], call'[q2])
        /\ Apart(refresh'[q1], call'[q2]) /\ Apart(call'[q1], refresh'[q2])
  BY <1>2, <1>3 DEF NewTokens
<1> QED BY <1>1, <1>4 DEF NewTokens, Apart, Brings, Spends

\* ... and when one call does.
LEMMA CallPasses ==
    ASSUME TypeOK, RequestsSound, NewTokens, NEW p \in Tabs, NEW s, call'[p] = s,
           \A q \in Tabs : q # p => call'[q] = call[q],
           refresh' = refresh, Passes(call[p], s)
    PROVE  NewTokens'
<1> USE InTable, NothingPasses
<1>1. \A q \in Tabs : /\ Brings(refresh[q]) => refresh[q].token # cookie'
                      /\ Brings(call'[q]) => call'[q].token # cookie'
  BY DEF NewTokens, Apart, Passes
<1>2. \A q \in Tabs : q # p => Apart(s, call[q]) /\ Apart(call[q], s)
  BY DEF NewTokens, Apart, Passes
<1>3. \A q \in Tabs : Apart(s, refresh[q]) /\ Apart(refresh[q], s)
  BY DEF NewTokens, Apart, Passes
<1>4. \A q1, q2 \in Tabs :
        /\ q1 # q2 => Apart(refresh'[q1], refresh'[q2]) /\ Apart(call'[q1], call'[q2])
        /\ Apart(refresh'[q1], call'[q2]) /\ Apart(call'[q1], refresh'[q2])
  BY <1>2, <1>3 DEF NewTokens
<1> QED BY <1>1, <1>4 DEF NewTokens, Apart, Brings, Spends

\* Every step keeps the new tokens apart.
LEMMA TokensStep ==
    ASSUME TypeOK, RequestsSound, NewTokens, [Next]_vars
    PROVE  NewTokens'
<1> DEFINE Ref == Sent("refresh", "find", Nobody)
<1>0. ~Brings(Ref) /\ Spends(Ref) /\ Ref.token = cookie
  BY SentIsSound DEF Brings, Spends, NoRequest
<1> HIDE DEF Ref
<1>1. ASSUME NEW p \in Tabs, ServesRefresh(p) PROVE NewTokens'
  <2>1. /\ UNCHANGED <<call, cookie>> /\ \A q \in Tabs : q # p => refresh'[q] = refresh[q]
    BY <1>1, RefreshServed
  <2>2. Passes(refresh[p], refresh'[p])
    BY <1>1, RefreshServed DEF Passes, Fails, Revokes, Issues, Brings, Spends
  <2> QED BY <2>1, <2>2, RefreshPasses
<1>2. ASSUME NEW p \in Tabs, ServesCall(p) PROVE NewTokens'
  <2>1. /\ UNCHANGED <<refresh, cookie>> /\ \A q \in Tabs : q # p => call'[q] = call[q]
    BY <1>2, CallServed
  <2>2. Passes(call[p], call'[p])
    BY <1>2, CallServed DEF Passes, Fails, Revokes, Issues, Brings, Spends
  <2> QED BY <2>1, <2>2, CallPasses
<1>3. ASSUME NEW p \in Tabs, Load(p) PROVE NewTokens'
  <2>1. cookie' = cookie /\ refresh' = [refresh EXCEPT ![p] = Ref] /\ call' = [call EXCEPT ![p] = NoRequest]
    BY <1>3 DEF Load, SendRefresh, Ref
  <2>2. refresh'[p] = Ref /\ \A q \in Tabs : q # p => refresh'[q] = refresh[q]
    BY <2>1, RefreshPut
  <2>3. call'[p] = NoRequest /\ \A q \in Tabs : q # p => call'[q] = call[q]
    BY <2>1, CallPut
  <2>4. \A q1, q2 \in Tabs :
        /\ q1 # q2 => Apart(refresh'[q1], refresh'[q2]) /\ Apart(call'[q1], call'[q2])
        /\ Apart(refresh'[q1], call'[q2]) /\ Apart(call'[q1], refresh'[q2])
    BY <1>0, <2>2, <2>3, NothingPasses DEF NewTokens, Apart
  <2>5. \A q \in Tabs : /\ Brings(refresh'[q]) => refresh'[q].token # cookie'
                        /\ Brings(call'[q]) => call'[q].token # cookie'
    BY <1>0, <2>1, <2>2, <2>3, NothingPasses DEF NewTokens
  <2> QED BY <2>4, <2>5 DEF NewTokens, Apart, Brings, Spends
<1>4. ASSUME NEW p \in Tabs, Unauthorized(p) PROVE NewTokens'
  <2>1. /\ cookie' = cookie /\ call' = call
        /\ \/ refresh' = [refresh EXCEPT ![p] = Ref]
           \/ refresh' = refresh
    BY <1>4 DEF Unauthorized, SendRefresh, Ref
  <2>2. CASE refresh' = [refresh EXCEPT ![p] = Ref]
    <3>1. refresh'[p] = Ref /\ \A q \in Tabs : q # p => refresh'[q] = refresh[q]
      BY <2>2, RefreshPut
    <3>2. Passes(refresh[p], Ref)
      BY <1>0, <2>1 DEF Passes
    <3> QED BY <2>1, <3>1, <3>2, RefreshPasses
  <2>3. CASE refresh' = refresh
    BY <2>1, <2>3 DEF NewTokens, Apart, Brings, Spends
  <2> QED BY <2>1, <2>2, <2>3
<1>5. ASSUME NEW p \in Tabs, ReceiveSession(p) \/ SessionEnds(p) \/ LoseRefresh(p) PROVE NewTokens'
  <2>1. refresh[p] \in Request /\ refresh[p] # NoRequest /\ refresh[p].kind = "refresh"
    BY <1>5, Places DEF ReceiveSession, SessionEnds, LoseRefresh, RequestsSound
  <2>2. /\ refresh' = [refresh EXCEPT ![p] = NoRequest] /\ call' = call
        /\ cookie' \in {cookie, 0} \/ (Brings(refresh[p]) /\ cookie' = refresh[p].token)
    BY <1>5, <2>1 DEF ReceiveSession, SessionEnds, LoseRefresh, Refresh, Brings
  <2>3. refresh'[p] = NoRequest /\ \A q \in Tabs : q # p => refresh'[q] = refresh[q]
    BY <2>2, RefreshPut
  <2> QED BY <2>2, <2>3, RefreshPasses DEF Passes
<1>6. ASSUME NEW p \in Tabs, SignIn(p) \/ SignOut(p) PROVE NewTokens'
  <2>1. PICK what \in {"login", "register", "logout"}, step \in {"find", "count"}, user \in Emails \cup {Nobody} :
          /\ \/ what = "logout" /\ step = "find" /\ user = Nobody
             \/ what = "login" /\ step = "find" /\ user \in Emails
             \/ what = "register" /\ step = "count" /\ user \in Emails
          /\ Called(p, Sent(what, step, user))
    BY <1>6 DEF SignIn, SignOut
  <2> DEFINE s == Sent(what, step, user)
  <2>2. s.step # "answer" /\ (s.kind = "logout" => s.token = cookie) /\ s.kind # "refresh"
    BY <2>1, SentIsSound
  <2> HIDE DEF s
  <2>3. call'[p] = s /\ (\A q \in Tabs : q # p => call'[q] = call[q]) /\ UNCHANGED <<refresh, cookie>>
    BY <1>6, <2>1, CallPut DEF Called, SignIn, SignOut, s
  <2>4. Passes(call[p], s)
    BY <2>2, <2>3 DEF Passes, Brings, Spends
  <2> QED BY <2>3, <2>4, CallPasses
<1>7. ASSUME NEW p \in Tabs, ReceiveSignIn(p) \/ ReceiveSignOut(p) \/ LoseCall(p) PROVE NewTokens'
  <2>1. call[p] # NoRequest
    BY <1>7, Places DEF ReceiveSignIn, ReceiveSignOut, LoseCall
  <2>2. /\ call' = [call EXCEPT ![p] = NoRequest] /\ refresh' = refresh
        /\ cookie' \in {cookie, 0} \/ (Brings(call[p]) /\ cookie' = call[p].token)
    BY <1>7, <2>1 DEF ReceiveSignIn, ReceiveSignOut, LoseCall, Called, Brings
  <2>3. call'[p] = NoRequest /\ \A q \in Tabs : q # p => call'[q] = call[q]
    BY <2>2, CallPut
  <2> QED BY <2>2, <2>3, CallPasses DEF Passes
<1>8. CASE UNCHANGED <<refresh, call, cookie>>
  BY <1>8 DEF NewTokens, Apart, Brings, Spends
<1> QED BY <1>1, <1>2, <1>3, <1>4, <1>5, <1>6, <1>7, <1>8
        DEF Next, User, ServeRefresh, ServeCall, ServesRefresh, ServesCall, Expire, vars

-----------------------------------------------------------------------------
(* An undisturbed browser stays calm.                                      *)

\* Who holds the cookie: nobody, while no refresh and no sign-out runs.
Quiet == \A q \in Tabs : refresh[q] = NoRequest /\ ~IsLogout(call[q])

\* While nobody holds it, the cookie is not revoked.
LEMMA QuietIsGood == ASSUME TypeOK, CookieGood, Quiet PROVE ~IsRevoked(cookie)
  BY Places DEF CookieGood, Quiet, NoRequest

\* While tab p holds it, nobody else does.
LEMMA RefreshIsAlone ==
    ASSUME OneCookie, NEW p \in Tabs, refresh[p] # NoRequest
    PROVE  \A q \in Tabs : ~IsLogout(call[q]) /\ (q # p => refresh[q] = NoRequest)
  BY DEF OneCookie

\* The same for a sign-out.
LEMMA SignOutIsAlone ==
    ASSUME OneCookie, NEW p \in Tabs, IsLogout(call[p])
    PROVE  \A q \in Tabs : refresh[q] = NoRequest /\ (q # p => ~IsLogout(call[q]))
  BY DEF OneCookie

\* An empty place is at no step and signs nobody out.
LEMMA NoRequestFacts == NoRequest.step = "idle" /\ ~IsLogout(NoRequest)
  BY DEF NoRequest, IsLogout

\* A statement for a refresh keeps the browser calm.
LEMMA CalmRefresh ==
    ASSUME TypeOK, RequestsSound, NewTokens, Calm, NEW p \in Tabs, ServesRefresh(p), RequestsSound'
    PROVE  Calm'
<1> DEFINE r == refresh[p]
           s == refresh'[p]
<1>1. /\ UNCHANGED <<call, page, cookie, disturbed, left>>
      /\ \A q \in Tabs \ {p} : refresh'[q] = refresh[q]
      /\ r # NoRequest /\ s # NoRequest /\ r.kind = "refresh" /\ s.kind = "refresh" /\ r.step # "answer"
  BY RefreshServed
<1>2. \A q \in Tabs : ~IsLogout(call[q]) /\ (q # p => refresh[q] = NoRequest /\ refresh'[q] = NoRequest)
  BY <1>1, RefreshIsAlone DEF Calm
<1>3. r.step # "revokeAll" /\ (Spends(r) => ~IsRevoked(r.token))
  BY DEF Calm, NoneRevoked
<1>4. \/ Fails(r, s) /\ tokens' = tokens
      \/ r.step = "find" /\ s.step = "revoke" /\ s.token = r.token /\ ~IsRevoked(r.token) /\ tokens' = tokens
      \/ Revokes(r, s) /\ s.step = "issue"
      \/ Issues(r, s)
  BY <1>1, <1>3, RefreshServed DEF Spends
<1> HIDE DEF r, s
<1>5. OneCookie'
  BY <1>1, <1>2 DEF OneCookie, IsLogout
<1>6. \A q \in Tabs : /\ Brings(call[q]) => call[q].token \in 1..Len(tokens) /\ ~IsRevoked(call[q].token)
                      /\ ~Spends(call[q])
                      /\ Spends(r) /\ Brings(call[q]) => call[q].token # r.token
  <2>1. \A q \in Tabs : Brings(call[q]) => call[q].token \in 1..Len(tokens)
    BY InTable
  <2>2. \A q \in Tabs : ~Spends(call[q])
    BY <1>2, Places DEF Spends, IsLogout, RequestsSound
  <2> QED BY <2>1, <2>2 DEF Calm, NoneRevoked, NewTokens, Apart, r
<1>7. NoneRevoked'
  <2>1. s.step # "revokeAll"
    BY <1>4 DEF Fails, Issues
  <2>2. Brings(s) \/ Spends(s) => ~(s.token # 0 /\ tokens'[s.token].status = "revoked")
    BY <1>1, <1>4 DEF Brings, Spends, Fails, Issues, IsRevoked
  <2>3. ASSUME NEW q \in Tabs, Brings(call[q])
        PROVE  ~(call[q].token # 0 /\ tokens'[call[q].token].status = "revoked")
    BY <1>1, <1>4, <1>6, <2>3 DEF Spends, Revokes, Issues, IsRevoked
  <2>4. \A q \in Tabs : q # p => refresh'[q].step # "revokeAll" /\ ~Brings(refresh'[q]) /\ ~Spends(refresh'[q])
    BY <1>2, NothingPasses, NoRequestFacts
  <2>5. \A q \in Tabs : /\ refresh'[q].step # "revokeAll"
                        /\ Brings(refresh'[q]) \/ Spends(refresh'[q]) =>
                             ~(refresh'[q].token # 0 /\ tokens'[refresh'[q].token].status = "revoked")
    BY <2>1, <2>2, <2>4 DEF s
  <2> QED BY <1>1, <1>6, <2>3, <2>5 DEF NoneRevoked, IsRevoked, Brings, Spends
<1>8. CookieGood'
  <2>1. CASE s.step \in {"issue", "answer"}
    BY <2>1 DEF CookieGood, s
  <2>2. CASE s.step \notin {"issue", "answer"}
    <3>1. r.step = "find" /\ tokens' = tokens /\ cookie' = cookie
      BY <1>1, <1>4, <2>2 DEF Fails, Revokes, Issues
    <3>2. ~\E q \in Tabs : \/ refresh[q].step \in {"issue", "answer"}
                           \/ IsLogout(call[q]) /\ call[q].step = "answer" /\ call[q].answer = "ok"
      BY <1>2, <3>1, NoRequestFacts DEF r
    <3>3. ~IsRevoked(cookie)
      BY <3>2 DEF Calm, CookieGood
    <3> QED BY <3>1, <3>3 DEF CookieGood, IsRevoked
  <2> QED BY <2>1, <2>2
<1>9. OutForGood'
  <2>1. CASE left = 0
    BY <1>1, <2>1 DEF OutForGood
  <2>2. CASE left # 0
    <3>1. cookie = 0 /\ tokens[left].status = "revoked" /\ r.step = "find" /\ r.token = 0
      BY <1>1, <2>2 DEF Calm, OutForGood, r
    <3>2. s.step = "revoke" => s.token # 0
      BY <1>1 DEF RequestsSound, Sound, s
    <3>3. Fails(r, s) /\ tokens' = tokens
      BY <1>4, <3>1, <3>2 DEF Revokes, Issues
    <3>4. \A q \in Tabs : refresh'[q] # NoRequest => refresh'[q].step = "answer" /\ refresh'[q].answer # "ok"
      BY <1>2, <3>3 DEF Fails, s
    <3> QED BY <1>1, <3>1, <3>3, <3>4 DEF OutForGood
  <2> QED BY <2>1, <2>2
<1> QED BY <1>5, <1>7, <1>8, <1>9 DEF Calm

\* A statement for a sign-in or a sign-out does, too.
LEMMA CalmCall ==
    ASSUME TypeOK, RequestsSound, NewTokens, Calm, NEW p \in Tabs, ServesCall(p)
    PROVE  Calm'
<1> DEFINE r == call[p]
           s == call'[p]
<1>1. /\ UNCHANGED <<refresh, page, cookie, disturbed, left>>
      /\ \A q \in Tabs \ {p} : call'[q] = call[q]
      /\ r # NoRequest /\ s # NoRequest /\ r.kind # "refresh" /\ s.kind = r.kind /\ r.step # "answer"
  BY CallServed
<1>2. r.kind = "logout" => \A q \in Tabs : refresh[q] = NoRequest /\ (q # p => ~IsLogout(call[q]))
  BY <1>1, SignOutIsAlone DEF Calm, IsLogout
<1>3. \/ ~Brings(s) /\ ~Spends(s) /\ tokens' = tokens
      \/ r.kind = "logout" /\ s.step = "revoke" /\ s.token = r.token /\ ~IsRevoked(r.token) /\ tokens' = tokens
      \/ r.kind = "logout" /\ Revokes(r, s) /\ s.step = "answer" /\ s.answer = "ok"
      \/ r.kind # "logout" /\ Issues(r, s)
  BY <1>1, CallServed DEF Fails, Brings, Spends
<1>4. OneCookie'
  BY <1>1 DEF Calm, OneCookie, IsLogout
<1>5. Len(tokens) \in Nat /\ cookie \in 0..Len(tokens) /\ left \in 0..Len(tokens)
  BY LenProperties DEF TypeOK
<1>6. ASSUME NEW t \in 1..Len(tokens), tokens'[t].status = "revoked"
      PROVE  \/ tokens[t].status = "revoked"
             \/ /\ r.kind = "logout" /\ Revokes(r, s) /\ t = r.token
                /\ IsLogout(s) /\ s.step = "answer" /\ s.answer = "ok"
  <2> HIDE DEF r, s
  <2> QED BY <1>1, <1>3, <1>6 DEF Revokes, Issues, IsLogout
<1>7. ASSUME NEW t \in 1..Len(tokens), tokens[t].status = "revoked" PROVE tokens'[t].status = "revoked"
  BY <1>3, <1>7 DEF Revokes, Issues
<1>8. NoneRevoked'
  <2>1. ASSUME NEW q \in Tabs, Brings(refresh[q]) \/ Spends(refresh[q])
        PROVE  ~(refresh[q].token # 0 /\ tokens'[refresh[q].token].status = "revoked")
    <3>1. r.kind # "logout"
      BY <1>2, <2>1, NothingPasses
    <3>2. refresh[q].token \in 0..Len(tokens) /\ ~IsRevoked(refresh[q].token)
      BY <1>5, <2>1, InTable DEF Calm, NoneRevoked
    <3> QED BY <1>6, <3>1, <3>2 DEF IsRevoked
  <2>2. ASSUME NEW q \in Tabs, q # p, Brings(call[q]) \/ Spends(call[q])
        PROVE  ~(call[q].token # 0 /\ tokens'[call[q].token].status = "revoked")
    <3>1. call[q].token \in 0..Len(tokens) /\ ~IsRevoked(call[q].token)
      BY <1>5, <2>2, InTable DEF Calm, NoneRevoked
    <3>2. r.kind = "logout" /\ Revokes(r, s) => call[q].token # r.token
      <4> SUFFICES ASSUME r.kind = "logout", Revokes(r, s) PROVE call[q].token # r.token
        OBVIOUS
      <4>1. Spends(r)
        BY <1>1 DEF Revokes, Spends
      <4>2. Brings(call[q])
        BY <1>2, <2>2 DEF Spends, Brings, IsLogout, RequestsSound
      <4> QED BY <2>2, <4>1, <4>2 DEF NewTokens, Apart
    <3> QED BY <1>6, <3>1, <3>2 DEF IsRevoked
  <2>3. ASSUME Brings(s) \/ Spends(s) PROVE ~(s.token # 0 /\ tokens'[s.token].status = "revoked")
    <3> HIDE DEF r, s
    <3> QED BY <1>1, <1>3, <2>3 DEF Brings, Spends, Issues, IsRevoked
  <2>4. \A q \in Tabs : Brings(call'[q]) \/ Spends(call'[q]) =>
                          ~(call'[q].token # 0 /\ tokens'[call'[q].token].status = "revoked")
    BY <1>1, <2>2, <2>3
  <2> QED BY <1>1, <2>1, <2>4 DEF Calm, NoneRevoked, IsRevoked, Brings, Spends
<1>9. CookieGood'
  <2>1. SUFFICES ASSUME cookie # 0, tokens'[cookie].status = "revoked"
                 PROVE  \E q \in Tabs : \/ refresh[q].step \in {"issue", "answer"}
                                        \/ IsLogout(call'[q]) /\ call'[q].step = "answer" /\ call'[q].answer = "ok"
    BY <1>1 DEF CookieGood, IsRevoked, IsLogout
  <2>2. CASE tokens[cookie].status = "revoked"
    <3>1. PICK q \in Tabs : \/ refresh[q].step \in {"issue", "answer"}
                            \/ IsLogout(call[q]) /\ call[q].step = "answer" /\ call[q].answer = "ok"
      BY <2>1, <2>2 DEF Calm, CookieGood, IsRevoked
    <3> QED BY <1>1, <3>1
  <2>3. CASE IsLogout(s) /\ s.step = "answer" /\ s.answer = "ok"
    BY <2>3
  <2> QED BY <1>5, <1>6, <2>1, <2>2, <2>3
<1>10. OutForGood'
  BY <1>1, <1>5, <1>7 DEF Calm, OutForGood
<1> QED BY <1>4, <1>8, <1>9, <1>10 DEF Calm

\* The actions of a page on its refresh and its calls.
LEMMA CalmPage ==
    ASSUME TypeOK, RequestsSound, ~disturbed => Calm, NEW p \in Tabs, ~disturbed',
           Load(p) \/ Unauthorized(p) \/ SignIn(p) \/ SignOut(p)
    PROVE  Calm'
<1> DEFINE Ref == Sent("refresh", "find", Nobody)
<1>0. Ref.step = "find" /\ Ref.token = cookie
  BY SentIsSound
<1> HIDE DEF Ref
<1>1. Calm
  BY DEF Load, Unauthorized, SignIn, SignOut
<1>2. ASSUME Quiet, UNCHANGED <<tokens, cookie, left>>, refresh'[p] = Ref,
             \A q \in Tabs : q # p => refresh'[q] = refresh[q],
             \A q \in Tabs : call'[q] \in {call[q], NoRequest}
      PROVE  Calm'
  <2>1. ~IsRevoked(cookie)
    BY <1>1, <1>2, QuietIsGood DEF Calm
  <2>2. \A q \in Tabs : ~IsLogout(call'[q]) /\ (q # p => refresh'[q] = NoRequest)
    BY <1>2, NoRequestFacts DEF Quiet
  <2>3. OneCookie'
    BY <2>2 DEF OneCookie, IsLogout
  <2>4. \A q \in Tabs : Brings(call'[q]) \/ Spends(call'[q]) => call'[q] = call[q]
    BY <1>2, NothingPasses
  <2>5. NoneRevoked'
    <3>1. \A q \in Tabs : Brings(call'[q]) \/ Spends(call'[q]) => ~IsRevoked(call'[q].token)
      BY <1>1, <2>4 DEF Calm, NoneRevoked
    <3>2. \A q \in Tabs : /\ refresh'[q].step # "revokeAll"
                          /\ Brings(refresh'[q]) \/ Spends(refresh'[q]) => ~IsRevoked(refresh'[q].token)
      BY <1>0, <1>2, <2>1, <2>2, NothingPasses, NoRequestFacts
    <3> QED BY <1>2, <3>1, <3>2 DEF NoneRevoked, IsRevoked, Brings, Spends
  <2>6. CookieGood'
    BY <1>2, <2>1 DEF CookieGood, IsRevoked
  <2>7. OutForGood'
    BY <1>0, <1>1, <1>2, <2>2 DEF Calm, OutForGood
  <2> QED BY <2>3, <2>5, <2>6, <2>7 DEF Calm
<1>3. CASE Load(p)
  <2>1. /\ refresh' = [refresh EXCEPT ![p] = Ref] /\ call' = [call EXCEPT ![p] = NoRequest]
        /\ UNCHANGED <<tokens, cookie, left>> /\ ~Overlaps(p) /\ p \notin Refreshing
    BY <1>3 DEF Load, SendRefresh, Ref
  <2>2. Quiet
    BY <2>1 DEF Overlaps, Refreshing, SigningOut, Quiet, IsLogout
  <2>3. refresh'[p] = Ref /\ \A q \in Tabs : q # p => refresh'[q] = refresh[q]
    BY <2>1, RefreshPut
  <2>4. \A q \in Tabs : call'[q] \in {call[q], NoRequest}
    BY <2>1, CallPut
  <2> QED BY <1>2, <2>1, <2>2, <2>3, <2>4
<1>4. CASE Unauthorized(p)
  <2>1. CASE refresh[p] = NoRequest
    <3>1. /\ refresh' = [refresh EXCEPT ![p] = Ref] /\ call' = call
          /\ UNCHANGED <<tokens, cookie, left>> /\ ~Overlaps(p) /\ p \notin Refreshing
      BY <1>4, <2>1 DEF Unauthorized, SendRefresh, Ref, Refreshing
    <3>2. Quiet
      BY <3>1 DEF Overlaps, Refreshing, SigningOut, Quiet, IsLogout
    <3>3. refresh'[p] = Ref /\ \A q \in Tabs : q # p => refresh'[q] = refresh[q]
      BY <3>1, RefreshPut
    <3> QED BY <1>2, <3>1, <3>2, <3>3
  <2>2. CASE refresh[p] # NoRequest
    <3>1. UNCHANGED <<refresh, call, tokens, cookie, left>>
      BY <1>4, <2>2 DEF Unauthorized
    <3> QED BY <1>1, <3>1 DEF Calm, OneCookie, NoneRevoked, CookieGood, OutForGood, IsRevoked, IsLogout, Brings, Spends
  <2> QED BY <2>1, <2>2
<1>5. CASE SignIn(p)
  <2>1. PICK what \in {"login", "register"}, step \in {"find", "count"}, user \in Emails :
          /\ \/ what = "login" /\ step = "find" /\ user \in Emails
             \/ what = "register" /\ step = "count" /\ user \in Emails
          /\ Called(p, Sent(what, step, user))
    BY <1>5 DEF SignIn
  <2> DEFINE s == Sent(what, step, user)
  <2>2. s.step # "answer" /\ s.kind \notin {"logout", "refresh"}
    BY <2>1, SentIsSound
  <2>3. ~Brings(s) /\ ~Spends(s) /\ ~IsLogout(s)
    BY <2>2 DEF Brings, Spends, IsLogout
  <2> HIDE DEF s
  <2>4. /\ call'[p] = s /\ call[p] = NoRequest /\ (\A q \in Tabs : q # p => call'[q] = call[q])
        /\ UNCHANGED <<tokens, refresh, cookie, left>>
    BY <1>5, <2>1, CallPut DEF Called, SignIn, s
  <2>5. OneCookie'
    BY <1>1, <2>3, <2>4 DEF Calm, OneCookie, IsLogout
  <2>6. NoneRevoked'
    <3>1. \A q \in Tabs : Brings(call'[q]) \/ Spends(call'[q]) => ~IsRevoked(call'[q].token)
      BY <1>1, <2>3, <2>4 DEF Calm, NoneRevoked
    <3> QED BY <1>1, <2>4, <3>1 DEF Calm, NoneRevoked, IsRevoked, Brings, Spends
  <2>7. CookieGood'
    BY <1>1, <2>4, NoRequestFacts DEF Calm, CookieGood, IsRevoked, IsLogout
  <2>8. OutForGood'
    BY <1>1, <2>4 DEF Calm, OutForGood
  <2> QED BY <2>5, <2>6, <2>7, <2>8 DEF Calm
<1>6. CASE SignOut(p)
  <2> DEFINE s == Sent("logout", "find", Nobody)
  <2>1. s.step = "find" /\ s.kind = "logout" /\ s.token = cookie
    BY SentIsSound
  <2> HIDE DEF s
  <2>2. /\ call' = [call EXCEPT ![p] = s] /\ Refreshing = {} /\ SigningOut = {}
        /\ UNCHANGED <<tokens, refresh, cookie, left>>
    BY <1>6 DEF SignOut, Called, s
  <2>3. Quiet
    BY <2>2 DEF Refreshing, SigningOut, Quiet, IsLogout
  <2>4. ~IsRevoked(cookie)
    BY <1>1, <2>3, QuietIsGood DEF Calm
  <2>5. call'[p] = s /\ \A q \in Tabs : q # p => call'[q] = call[q]
    BY <2>2, CallPut
  <2>6. OneCookie'
    BY <2>2, <2>3, <2>5 DEF OneCookie, Quiet, IsLogout
  <2>7. NoneRevoked'
    <3>1. \A q \in Tabs : Brings(call'[q]) \/ Spends(call'[q]) => ~IsRevoked(call'[q].token)
      BY <1>1, <2>1, <2>4, <2>5 DEF Calm, NoneRevoked, Brings
    <3> QED BY <1>1, <2>2, <3>1 DEF Calm, NoneRevoked, IsRevoked, Brings, Spends
  <2>8. CookieGood' /\ OutForGood'
    BY <1>1, <2>2, <2>4 DEF Calm, CookieGood, OutForGood, IsRevoked
  <2> QED BY <2>6, <2>7, <2>8 DEF Calm
<1> QED BY <1>3, <1>4, <1>5, <1>6

\* The answers that reach a page, and those that do not.
LEMMA CalmAnswer ==
    ASSUME TypeOK, RequestsSound, ~disturbed => Calm, NEW p \in Tabs, ~disturbed',
           \/ ReceiveSession(p) \/ SessionEnds(p) \/ LoseRefresh(p)
           \/ ReceiveSignIn(p) \/ ReceiveSignOut(p) \/ LoseCall(p)
    PROVE  Calm'
<1>1. ASSUME Calm, refresh'[p] = NoRequest, \A q \in Tabs : q # p => refresh'[q] = refresh[q],
             UNCHANGED <<tokens, call>>
      PROVE  OneCookie' /\ NoneRevoked'
  <2>1. OneCookie'
    BY <1>1 DEF Calm, OneCookie, IsLogout
  <2>2. \A q \in Tabs : /\ refresh'[q].step # "revokeAll"
                        /\ Brings(refresh'[q]) \/ Spends(refresh'[q]) => ~IsRevoked(refresh'[q].token)
    BY <1>1, NothingPasses, NoRequestFacts DEF Calm, NoneRevoked
  <2>3. \A q \in Tabs : Brings(call[q]) \/ Spends(call[q]) => ~IsRevoked(call[q].token)
    BY <1>1 DEF Calm, NoneRevoked
  <2> QED BY <1>1, <2>1, <2>2, <2>3 DEF NoneRevoked, IsRevoked, Brings, Spends
<1>2. ASSUME Calm, call'[p] = NoRequest, \A q \in Tabs : q # p => call'[q] = call[q],
             UNCHANGED <<tokens, refresh>>
      PROVE  OneCookie' /\ NoneRevoked'
  <2>1. OneCookie'
    BY <1>2, NoRequestFacts DEF Calm, OneCookie, IsLogout
  <2>2. \A q \in Tabs : Brings(call'[q]) \/ Spends(call'[q]) => ~IsRevoked(call'[q].token)
    BY <1>2, NothingPasses DEF Calm, NoneRevoked
  <2>3. \A q \in Tabs : /\ refresh[q].step # "revokeAll"
                        /\ Brings(refresh[q]) \/ Spends(refresh[q]) => ~IsRevoked(refresh[q].token)
    BY <1>2 DEF Calm, NoneRevoked
  <2> QED BY <1>2, <2>1, <2>2, <2>3 DEF NoneRevoked, IsRevoked, Brings, Spends
<1>3. CASE ReceiveSession(p) \/ SessionEnds(p)
  <2>1. Calm /\ refresh[p] # NoRequest /\ refresh[p].kind = "refresh" /\ refresh[p].step = "answer"
    BY <1>3, Places DEF ReceiveSession, SessionEnds, RequestsSound
  <2>2. /\ refresh' = [refresh EXCEPT ![p] = NoRequest] /\ UNCHANGED <<tokens, call, left>>
        /\ cookie' = 0 \/ (Brings(refresh[p]) /\ cookie' = refresh[p].token /\ refresh[p].answer = "ok")
    BY <1>3, <2>1 DEF ReceiveSession, SessionEnds, Refresh, Brings
  <2>3. refresh'[p] = NoRequest /\ \A q \in Tabs : q # p => refresh'[q] = refresh[q]
    BY <2>2, RefreshPut
  <2>4. CookieGood'
    BY <2>1, <2>2 DEF Calm, NoneRevoked, CookieGood, IsRevoked
  <2>5. OutForGood'
    BY <2>1, <2>2, <2>3 DEF Calm, OutForGood
  <2> QED BY <1>1, <2>1, <2>2, <2>3, <2>4, <2>5 DEF Calm
<1>4. CASE ReceiveSignIn(p) /\ call[p].answer = "ok"
  <2>1. Brings(call[p]) /\ call[p].token # 0
    BY <1>4, Places DEF ReceiveSignIn, Brings, RequestsSound, Sound
  <2>2. /\ call' = [call EXCEPT ![p] = NoRequest] /\ UNCHANGED <<tokens, refresh>>
        /\ cookie' = call[p].token /\ left' = 0
        /\ \/ ~disturbed
           \/ /\ Refreshing = {} /\ \A q \in Tabs \ {p} : call[q] = NoRequest
              /\ tokens[call[p].token].status # "revoked"
    BY <1>4 DEF ReceiveSignIn, Called
  <2>3. call'[p] = NoRequest /\ \A q \in Tabs : q # p => call'[q] = call[q]
    BY <2>2, CallPut
  <2>4. OutForGood'
    BY <2>2 DEF OutForGood
  <2>5. CASE ~disturbed
    <3>1. CookieGood'
      BY <2>1, <2>2, <2>5 DEF Calm, NoneRevoked, CookieGood, IsRevoked
    <3> QED BY <1>2, <2>2, <2>3, <2>4, <2>5, <3>1 DEF Calm
  <2>6. CASE /\ Refreshing = {} /\ \A q \in Tabs \ {p} : call[q] = NoRequest
             /\ tokens[call[p].token].status # "revoked"
    <3>1. \A q \in Tabs : refresh'[q] = NoRequest /\ call'[q] = NoRequest
      BY <2>2, <2>3, <2>6 DEF Refreshing
    <3>2. OneCookie' /\ NoneRevoked'
      BY <3>1, NoRequestFacts, NothingPasses DEF OneCookie, NoneRevoked, IsLogout, Brings, Spends
    <3>3. CookieGood'
      BY <2>2, <2>6 DEF CookieGood, IsRevoked
    <3> QED BY <2>4, <3>2, <3>3 DEF Calm
  <2> QED BY <2>2, <2>5, <2>6
<1>5. CASE \/ ReceiveSignIn(p) /\ call[p].answer # "ok"
           \/ ReceiveSignOut(p) /\ call[p].answer # "ok"
           \/ LoseCall(p) /\ call[p].kind # "logout"
  <2>1. /\ call' = [call EXCEPT ![p] = NoRequest] /\ UNCHANGED <<tokens, refresh, cookie, left, disturbed>>
        /\ ~(IsLogout(call[p]) /\ call[p].answer = "ok")
    BY <1>5 DEF ReceiveSignIn, ReceiveSignOut, LoseCall, Called, IsLogout
  <2>2. call'[p] = NoRequest /\ \A q \in Tabs : q # p => call'[q] = call[q]
    BY <2>1, CallPut
  <2>3. Calm
    BY <2>1
  <2>4. CookieGood'
    BY <2>1, <2>2, <2>3 DEF Calm, CookieGood, IsRevoked, IsLogout
  <2>5. OutForGood'
    BY <2>1, <2>3 DEF Calm, OutForGood
  <2> QED BY <1>2, <2>1, <2>2, <2>3, <2>4, <2>5 DEF Calm
<1>6. CASE ReceiveSignOut(p) /\ call[p].answer = "ok"
  <2>1. Calm /\ call[p] # NoRequest /\ IsLogout(call[p]) /\ Sound(call[p], tokens)
    BY <1>6, Places DEF ReceiveSignOut, IsLogout, RequestsSound
  <2>2. /\ call' = [call EXCEPT ![p] = NoRequest] /\ UNCHANGED <<tokens, refresh>>
        /\ cookie' = 0 /\ left' = call[p].token /\ call[p].step = "answer" /\ call[p].kind = "logout"
    BY <1>6 DEF ReceiveSignOut, Called
  <2>3. call'[p] = NoRequest /\ \A q \in Tabs : q # p => call'[q] = call[q]
    BY <2>2, CallPut
  <2>4. CookieGood'
    BY <2>2 DEF CookieGood, IsRevoked
  <2>5. \A q \in Tabs : refresh[q] = NoRequest
    BY <2>1, SignOutIsAlone DEF Calm
  <2>6. OutForGood'
    BY <1>6, <2>1, <2>2, <2>5 DEF OutForGood, Sound
  <2> QED BY <1>2, <2>1, <2>2, <2>3, <2>4, <2>6 DEF Calm
<1>7. ~LoseRefresh(p) /\ ~(LoseCall(p) /\ call[p].kind = "logout")
  BY DEF LoseRefresh, LoseCall
<1> QED BY <1>3, <1>4, <1>5, <1>6, <1>7

\* Every step after which the browser is undisturbed leaves it calm.
LEMMA CalmStep ==
    ASSUME TypeOK, RequestsSound, NewTokens, ~disturbed => Calm, [Next]_vars, RequestsSound', ~disturbed'
    PROVE  Calm'
<1>1. ASSUME NEW t \in DOMAIN tokens, Expire(t) PROVE Calm'
  <2>1. /\ tokens' = [tokens EXCEPT ![t].status = "expired"] /\ tokens[t].status = "live"
        /\ UNCHANGED <<cookie, refresh, call, left, disturbed>>
    BY <1>1 DEF Expire
  <2>2. /\ Len(tokens) \in Nat /\ cookie \in 0..Len(tokens) /\ left \in 0..Len(tokens)
        /\ tokens \in [1..Len(tokens) -> Row]
    BY LenProperties DEF TypeOK
  <2>3. \A u \in 1..Len(tokens) : tokens'[u].status = "revoked" <=> tokens[u].status = "revoked"
    BY <2>1, <2>2 DEF Row
  <2>4. Calm
    BY <2>1
  <2>5. OneCookie'
    BY <2>1, <2>4 DEF Calm, OneCookie, IsLogout
  <2>6. NoneRevoked'
    <3>1. ASSUME NEW r, Brings(r) \/ Spends(r) => r.token \in 0..Len(tokens) /\ ~IsRevoked(r.token)
          PROVE  Brings(r) \/ Spends(r) => ~(r.token # 0 /\ tokens'[r.token].status = "revoked")
      BY <2>2, <2>3, <3>1 DEF IsRevoked
    <3>2. \A q \in Tabs : /\ Brings(refresh[q]) \/ Spends(refresh[q]) => refresh[q].token \in 0..Len(tokens) /\ ~IsRevoked(refresh[q].token)
                          /\ Brings(call[q]) \/ Spends(call[q]) => call[q].token \in 0..Len(tokens) /\ ~IsRevoked(call[q].token)
      BY <2>2, <2>4, InTable DEF Calm, NoneRevoked
    <3>3. \A q \in Tabs : refresh[q].step # "revokeAll"
      BY <2>4 DEF Calm, NoneRevoked
    <3> QED BY <2>1, <3>1, <3>2, <3>3 DEF NoneRevoked, IsRevoked, Brings, Spends
  <2>7. CookieGood'
    BY <2>1, <2>2, <2>3, <2>4 DEF Calm, CookieGood, IsRevoked, IsLogout
  <2>8. OutForGood'
    BY <2>1, <2>2, <2>3, <2>4 DEF Calm, OutForGood
  <2> QED BY <2>5, <2>6, <2>7, <2>8 DEF Calm
<1>2. ASSUME NEW p \in Tabs, ServesRefresh(p) PROVE Calm'
  BY <1>2, RefreshServed, CalmRefresh
<1>3. ASSUME NEW p \in Tabs, ServesCall(p) PROVE Calm'
  BY <1>3, CallServed, CalmCall
<1>4. CASE UNCHANGED vars
  BY <1>4 DEF vars, Calm, OneCookie, NoneRevoked, CookieGood, OutForGood, IsRevoked, IsLogout, Brings, Spends
<1> QED BY <1>1, <1>2, <1>3, <1>4, CalmPage, CalmAnswer
        DEF Next, User, ServeRefresh, ServeCall, ServesRefresh, ServesCall

-----------------------------------------------------------------------------
(* The invariant and what follows from it.                                 *)

\* The empty system: no user, no token, every tab closed.
LEMMA AuthInit == Init => AuthInv
<1> SUFFICES ASSUME Init PROVE AuthInv
  OBVIOUS
<1>1. tokens \in Seq(Row) /\ Len(tokens) = 0
  BY EmptySeq DEF Init
<1>2. \A p \in Tabs : refresh[p] = NoRequest /\ call[p] = NoRequest
  BY DEF Init
<1>3. TypeOK
  <2>1. page \in [Tabs -> Page]
    BY BoundsAssumption DEF Init, Page
  <2>2. refresh \in [Tabs -> Request \cup {NoRequest}] /\ call \in [Tabs -> Request \cup {NoRequest}]
    BY DEF Init
  <2>3. cookie \in 0..Len(tokens) /\ left \in 0..Len(tokens)
    BY <1>1 DEF Init
  <2>4. users \subseteq Emails /\ disturbed \in BOOLEAN
    BY DEF Init
  <2>5. Len(tokens) <= MaxTokens
    BY <1>1, BoundsAssumption
  <2> QED BY <1>1, <2>1, <2>2, <2>3, <2>4, <2>5 DEF TypeOK
<1>4. RequestsSound /\ PagesInv /\ NewTokens
  BY <1>2, NothingPasses DEF Init, RequestsSound, PagesInv, NewTokens, Apart
<1>5. Calm
  BY <1>2, NothingPasses, NoRequestFacts
     DEF Init, Calm, OneCookie, NoneRevoked, CookieGood, OutForGood, IsRevoked
<1> QED BY <1>3, <1>4, <1>5 DEF AuthInv

\* In every reachable state requests, pages and tokens fit together, and a
\* browser nobody disturbed has at most one call with the cookie, whose token
\* nobody revoked.
THEOREM AuthInvariant == Spec => []AuthInv
<1>1. Init => AuthInv
  BY AuthInit
<1>2. AuthInv /\ [Next]_vars => AuthInv'
  <2> SUFFICES ASSUME AuthInv, [Next]_vars PROVE AuthInv'
    OBVIOUS
  <2>1. TypeOK /\ RequestsSound /\ PagesInv /\ NewTokens /\ (~disturbed => Calm)
    BY DEF AuthInv
  <2>2. TypeOK' /\ RequestsSound'
    BY <2>1, TypeStep
  <2>3. PagesInv' /\ NewTokens'
    BY <2>1, PagesStep, TokensStep
  <2>4. ~disturbed' => Calm'
    BY <2>1, <2>2, CalmStep
  <2> QED BY <2>2, <2>3, <2>4 DEF AuthInv
<1> QED BY <1>1, <1>2, PTL DEF Spec

\* A token that was revoked is sent by a disturbed browser only (Refresh takes
\* it for a replay and ends every session of the user).
THEOREM ReplayNeedsCause == Spec => []ReplayHasCause
<1>1. AuthInv => ReplayHasCause
  BY DEF AuthInv, Calm, NoneRevoked, ReplayHasCause, TakenForReplay
<1> QED BY <1>1, AuthInvariant, PTL

\* After a sign-out that was answered (Logout, clearRefreshCookie) the browser
\* has no cookie and the token it held is revoked, until somebody signs in.
THEOREM SignedOutForGood == Spec => []SignOutSticks
<1>1. AuthInv => SignOutSticks
  BY DEF AuthInv, Calm, OutForGood, SignOutSticks
<1> QED BY <1>1, AuthInvariant, PTL

\* A page on its loading screen, or with a request that waits, has a refresh on
\* its way (`inflight` of api.ts), however loads, losses and calls interleave.
THEOREM NoPageForgotten == Spec => []NobodyForgotten
<1>1. AuthInv => NobodyForgotten
  BY DEF AuthInv, PagesInv, NobodyForgotten
<1> QED BY <1>1, AuthInvariant, PTL

-----------------------------------------------------------------------------
(* Forms: the requests of the forms and the card of a note.                  *)

\* A request has the fields the steps below read.
RequestFields == {"form", "edit", "body", "shown", "dirty", "state", "result", "prev"}
SendsSound ==
    /\ \E S : sends \in Seq(S)
    /\ \A i \in DOMAIN sends : RequestFields \subseteq DOMAIN sends[i]

\* What the card knows of its last save, from the request to its answer.
SaveFollowed(c, s, r) ==
    /\ s.edit = TRUE /\ s.state \in {"sent", "stored", "done"}
    /\ s.state = "sent" => SaveJournalNote(s.body).notes = c.asked
    /\ s.state = "stored" => r.notes = c.asked \/ c.touched
    /\ s.state = "done" => r.notes = c.asked \/ c.alert # "" \/ c.touched

CardSound ==
    /\ DOMAIN card = DOMAIN NewCard /\ card.touched \in BOOLEAN
    /\ card.asking => kind = "note"
    /\ card.mine # 0 => /\ kind = "note" /\ card.mine \in DOMAIN sends
                        /\ SaveFollowed(card, sends[card.mine], row)

\* The inductive invariant of Forms: the requests have their fields, and the card
\* of a note knows what became of the save it follows.
FormsInv ==
    /\ edits \in Nat
    /\ {"open", "asking"} \subseteq DOMAIN dialog
    /\ SendsSound
    /\ CardSound

\* A request joins the others.
LEMMA RequestJoins ==
    ASSUME SendsSound, NEW e, RequestFields \subseteq DOMAIN e, sends' = Append(sends, e)
    PROVE  /\ SendsSound'
           /\ Len(sends) + 1 \in DOMAIN sends' /\ sends'[Len(sends) + 1] = e
           /\ DOMAIN sends \subseteq DOMAIN sends'
           /\ \A i \in DOMAIN sends : sends'[i] = sends[i]
<1>1. PICK S : sends \in Seq(S)
  BY DEF SendsSound
<1> DEFINE T == S \cup {e}
<1>2. sends \in Seq(T) /\ e \in T
  BY <1>1
<1> HIDE DEF T
<1>3. /\ sends' \in Seq(T) /\ Len(sends') = Len(sends) + 1 /\ sends'[Len(sends) + 1] = e
      /\ \A i \in 1 .. Len(sends) : sends'[i] = sends[i]
  BY <1>2
<1>4. Len(sends) \in Nat /\ DOMAIN sends = 1 .. Len(sends) /\ DOMAIN sends' = 1 .. Len(sends) + 1
  BY <1>2, <1>3
<1>5. \A i \in DOMAIN sends' : RequestFields \subseteq DOMAIN sends'[i]
  <2> SUFFICES ASSUME NEW i \in DOMAIN sends' PROVE RequestFields \subseteq DOMAIN sends'[i]
    OBVIOUS
  <2>1. CASE i \in 1 .. Len(sends)
    BY <2>1, <1>3, <1>4 DEF SendsSound
  <2>2. CASE i = Len(sends) + 1
    BY <2>2, <1>3
  <2> QED BY <2>1, <2>2, <1>4
<1>6. SendsSound'
  BY <1>3, <1>5 DEF SendsSound
<1>7. DOMAIN sends \subseteq DOMAIN sends' /\ Len(sends) + 1 \in DOMAIN sends'
  BY <1>4
<1> QED BY <1>3, <1>4, <1>6, <1>7

\* A request moves on.
LEMMA RequestMoves ==
    ASSUME SendsSound, NEW i \in DOMAIN sends, NEW e, RequestFields \subseteq DOMAIN e,
           sends' = [sends EXCEPT ![i] = e]
    PROVE  /\ SendsSound'
           /\ DOMAIN sends' = DOMAIN sends /\ sends'[i] = e
           /\ \A j \in DOMAIN sends \ {i} : sends'[j] = sends[j]
<1>1. PICK S : sends \in Seq(S)
  BY DEF SendsSound
<1> DEFINE T == S \cup {e}
<1>2. sends \in Seq(T) /\ e \in T
  BY <1>1
<1> HIDE DEF T
<1>3. sends' \in Seq(T) /\ DOMAIN sends' = DOMAIN sends /\ sends'[i] = e
      /\ \A j \in DOMAIN sends \ {i} : sends'[j] = sends[j]
  BY <1>2
<1>4. \A j \in DOMAIN sends' : RequestFields \subseteq DOMAIN sends'[j]
  BY <1>3 DEF SendsSound
<1>5. SendsSound'
  BY <1>3, <1>4 DEF SendsSound
<1> QED BY <1>3, <1>5

\* What leaves the requests, the row and the card as they are: everything the
\* user does in a form before it is saved.
Beside ==
    /\ UNCHANGED <<kind, row, sends, card>>
    /\ edits' \in Nat /\ {"open", "asking"} \subseteq DOMAIN dialog'

\* What leaves them as they are keeps the invariant.
LEMMA BesideStep == ASSUME FormsInv, Beside PROVE FormsInv'
BY DEF FormsInv, Beside, SendsSound, CardSound, SaveFollowed, RequestFields, NewCard, SaveJournalNote

\* Typing, choosing and asking.
InForm ==
    \/ \E edit \in BOOLEAN : OpenForm(edit)
    \/ TypePrices \/ TypeProfit \/ ChooseTime \/ TypeSymbol \/ ChooseDirection \/ Mark
    \/ UseSuggestion \/ InsertTemplate \/ TypeAccount \/ ChoosePhase
    \/ RequestClose \/ KeepEditing \/ Discard
InNote ==
    \/ OpenNote \/ Write \/ Erase \/ AskLink \/ PromptForImage \/ EscapeTip
    \/ EnterLink \/ EnterImage \/ InsertInNote
    \/ Refetch

\* Nothing the user does in a form of a trade or an account touches them.
LEMMA InFormIsBeside == ASSUME FormsInv, InForm PROVE Beside
<1>1. edits \in Nat /\ edits + 1 \in Nat /\ {"open", "asking"} \subseteq DOMAIN dialog
  BY DEF FormsInv
<1>2. ASSUME NEW edit \in BOOLEAN, OpenForm(edit) PROVE Beside
  BY <1>1, <1>2 DEF OpenForm, Beside
<1>3. ASSUME NEW f, NEW v, Put(f, v) PROVE Beside
  BY <1>1, <1>3 DEF Put, Beside
<1>4. ASSUME TypePrices PROVE Beside
  BY <1>1, <1>4 DEF TypePrices, Beside
<1>5. ASSUME TypeProfit \/ ChooseTime \/ TypeSymbol \/ ChooseDirection \/ Mark \/ UseSuggestion \/ InsertTemplate
      PROVE  Beside
  BY <1>3, <1>5 DEF TypeProfit, ChooseTime, TypeSymbol, ChooseDirection, Mark, UseSuggestion, InsertTemplate
<1>6. ASSUME TypeAccount PROVE Beside
  BY <1>3, <1>6 DEF TypeAccount
<1>7. ASSUME ChoosePhase PROVE Beside
  BY <1>1, <1>7 DEF ChoosePhase, Beside
<1>8. ASSUME RequestClose PROVE Beside
  BY <1>1, <1>8 DEF RequestClose, Close, Beside
<1>9. ASSUME KeepEditing \/ Discard PROVE Beside
  BY <1>1, <1>9 DEF KeepEditing, Discard, Close, Beside
<1> QED BY <1>2, <1>4, <1>5, <1>6, <1>7, <1>8, <1>9 DEF InForm

\* Nor does writing a note, or the row being read again.
LEMMA InNoteIsBeside == ASSUME FormsInv, InNote PROVE Beside
<1>1. edits \in Nat /\ edits + 1 \in Nat /\ {"open", "asking"} \subseteq DOMAIN dialog
  BY DEF FormsInv
<1>2. ASSUME OpenNote PROVE Beside
  BY <1>1, <1>2 DEF OpenNote, Beside
<1>3. ASSUME NEW doc, Edited(doc) PROVE Beside
  BY <1>1, <1>3 DEF Edited, Beside
<1>4. ASSUME NEW tip, Ask(tip) PROVE Beside
  BY <1>1, <1>4 DEF Ask, Beside
<1>5. ASSUME Write \/ Erase \/ EnterLink PROVE Beside
  BY <1>3, <1>5 DEF Write, Erase, EnterLink
<1>6. ASSUME AskLink \/ PromptForImage \/ EscapeTip PROVE Beside
  BY <1>4, <1>6 DEF AskLink, PromptForImage, EscapeTip
<1>7. ASSUME EnterImage PROVE Beside
  BY <1>3, <1>4, <1>7 DEF EnterImage
<1>8. ASSUME InsertInNote \/ Refetch PROVE Beside
  BY <1>1, <1>8 DEF InsertInNote, Refetch, Beside
<1> QED BY <1>2, <1>5, <1>6, <1>7, <1>8 DEF InNote

\* A form is sent, or a choice of the menu: no card's note.
LEMMA SubmitStep ==
    ASSUME FormsInv, (\E another \in BOOLEAN : Submit(another)) \/ ChooseFromMenu
    PROVE  FormsInv'
<1>1. /\ kind # "note" /\ UNCHANGED <<kind, row, card, dialog, edits>>
      /\ \/ UNCHANGED sends
         \/ \E form, edit, body, shown, dirty, prev : Send(form, edit, body, shown, dirty, prev)
  <2>1. CASE ChooseFromMenu
    BY <2>1 DEF ChooseFromMenu
  <2>2. ASSUME NEW another \in BOOLEAN, Submit(another)
        PROVE  /\ kind # "note" /\ UNCHANGED <<kind, row, card, dialog, edits>>
               /\ \/ UNCHANGED sends
                  \/ Send(dialog.form, dialog.edit, Body(dialog.edit, Dirty, values), values, Dirty, None)
    BY <2>2 DEF Submit
  <2> QED BY <2>1, <2>2
<1>2. card.mine = 0
  BY <1>1 DEF FormsInv, CardSound
<1>3. SendsSound'
  <2>1. CASE UNCHANGED sends
    BY <2>1 DEF FormsInv, SendsSound
  <2>2. ASSUME NEW form, NEW edit, NEW body, NEW shown, NEW dirty, NEW prev,
               Send(form, edit, body, shown, dirty, prev)
        PROVE  SendsSound'
    <3> DEFINE e == [form |-> form, edit |-> edit, body |-> body, shown |-> shown, dirty |-> dirty,
                     state |-> "sent", result |-> None, prev |-> prev]
    <3>1. sends' = Append(sends, e)
      BY <2>2 DEF Send
    <3>2. RequestFields \subseteq DOMAIN e
      BY DEF RequestFields
    <3> HIDE DEF e
    <3> QED BY <3>1, <3>2, RequestJoins DEF FormsInv
  <2> QED BY <1>1, <2>1, <2>2
<1> QED BY <1>1, <1>2, <1>3 DEF FormsInv, CardSound, NewCard

\* A note is saved or deleted: the card follows the new request.
LEMMA SaveNoteStep ==
    ASSUME FormsInv, kind = "note", NEW form, NEW note, NEW shown, SaveNote(form, note, shown),
           {"open", "asking"} \subseteq DOMAIN dialog'
    PROVE  FormsInv'
<1> DEFINE body == [notes |-> note]
           e == [form |-> form, edit |-> TRUE, body |-> body, shown |-> [notes |-> shown], dirty |-> {"notes"},
                 state |-> "sent", result |-> None, prev |-> seen]
           asked == SaveJournalNote(body).notes
<1>1. /\ sends' = Append(sends, e) /\ UNCHANGED <<kind, row, edits>>
      /\ card' = [card EXCEPT !.asking = FALSE, !.mine = Len(sends) + 1, !.asked = asked, !.alert = "", !.touched = FALSE]
  BY DEF SaveNote, Send
<1>2. RequestFields \subseteq DOMAIN e /\ e.edit = TRUE /\ e.state = "sent" /\ e.body = body
  BY DEF RequestFields
<1>3. /\ DOMAIN card' = DOMAIN NewCard /\ card'.touched = FALSE
      /\ card'.mine = Len(sends) + 1 /\ card'.asked = asked
  BY <1>1 DEF FormsInv, CardSound, NewCard
<1>7. card'.asking => kind = "note"
  OBVIOUS
<1> HIDE DEF e, body
<1>4. SendsSound' /\ Len(sends) + 1 \in DOMAIN sends' /\ sends'[Len(sends) + 1] = e
  BY <1>1, <1>2, RequestJoins DEF FormsInv
<1>5. SaveFollowed(card, sends[card.mine], row)'
  BY <1>2, <1>3, <1>4 DEF SaveFollowed
<1>6. CardSound'
  BY <1>1, <1>3, <1>4, <1>5, <1>7 DEF CardSound
<1> QED BY <1>1, <1>4, <1>6 DEF FormsInv

\* Both ways to save a note: what was written, and nothing to delete it.
LEMMA NoteSaved == ASSUME FormsInv, SubmitNote \/ DeleteNote PROVE FormsInv'
<1>1. CASE SubmitNote
  BY <1>1, SaveNoteStep DEF SubmitNote, Close, FormsInv
<1>2. CASE DeleteNote
  BY <1>2, SaveNoteStep DEF DeleteNote, FormsInv, CardSound
<1> QED BY <1>1, <1>2

\* Asking whether to delete a note, and taking it back.
LEMMA AskDeleteStep == ASSUME FormsInv, AskDelete \/ CancelDelete PROVE FormsInv'
<1>1. /\ UNCHANGED <<kind, row, sends, edits, dialog>>
      /\ \E asking \in BOOLEAN : card' = [card EXCEPT !.asking = asking]
      /\ kind = "note"
  BY DEF AskDelete, CancelDelete, FormsInv, CardSound
<1>2. /\ DOMAIN card' = DOMAIN card /\ card'.mine = card.mine /\ card'.asked = card.asked
      /\ card'.alert = card.alert /\ card'.touched = card.touched
  BY <1>1 DEF FormsInv, CardSound, NewCard
<1> QED BY <1>1, <1>2 DEF FormsInv, SendsSound, CardSound, SaveFollowed, NewCard

\* The card is not on the page any more.
LEMMA CardGoneStep == ASSUME FormsInv, CardGone PROVE FormsInv'
BY DEF FormsInv, CardGone, Close, SendsSound, CardSound, NewCard

\* A request reaches the server.  It is the one the card follows, and the row
\* is what the card asked for, or it is another one, and the card was touched.
LEMMA ServeStep ==
    ASSUME FormsInv, NEW i \in DOMAIN sends, Serve(i)
    PROVE  FormsInv'
<1> DEFINE s == sends[i]
           new == Patched(IF s.edit THEN row ELSE Blank, s.body)
           state == IF Accepted(new) THEN "stored" ELSE "refused"
           result == IF Accepted(new) THEN new ELSE None
           e == [s EXCEPT !.state = state, !.result = result]
<1>1. /\ s.state = "sent"
      /\ sends' = [sends EXCEPT ![i].state = state, ![i].result = result]
      /\ row' = IF Accepted(new) /\ s.edit THEN new ELSE row
      /\ card' = [card EXCEPT !.touched = @ \/ (kind = "note" /\ i # card.mine)]
      /\ UNCHANGED <<kind, dialog, edits>>
  BY DEF Serve
<1>2. RequestFields \subseteq DOMAIN s
  BY DEF FormsInv, SendsSound
<1> HIDE DEF new, result
<1>3. sends' = [sends EXCEPT ![i] = e]
  BY <1>1
<1> HIDE DEF s, state
<1>4. RequestFields \subseteq DOMAIN e /\ e.state = state /\ e.edit = s.edit /\ e.body = s.body
  BY <1>2 DEF RequestFields
<1> HIDE DEF e
<1>5. /\ SendsSound' /\ DOMAIN sends' = DOMAIN sends /\ sends'[i] = e
      /\ \A j \in DOMAIN sends \ {i} : sends'[j] = sends[j]
  BY <1>3, <1>4, RequestMoves DEF FormsInv
<1>6. /\ DOMAIN card' = DOMAIN NewCard /\ card'.touched \in BOOLEAN /\ card'.mine = card.mine
      /\ card'.asked = card.asked /\ card'.alert = card.alert /\ card'.asking = card.asking
      /\ card'.touched = (card.touched \/ (kind = "note" /\ i # card.mine))
  BY <1>1 DEF FormsInv, CardSound, NewCard
<1>7. ASSUME card.mine # 0
      PROVE  kind = "note" /\ card.mine \in DOMAIN sends /\ SaveFollowed(card', sends'[card.mine], row')
  <2>1. kind = "note" /\ card.mine \in DOMAIN sends /\ SaveFollowed(card, sends[card.mine], row)
    BY <1>7 DEF FormsInv, CardSound
  <2>2. CASE card.mine = i
    <3>1. /\ s.edit = TRUE /\ SaveJournalNote(s.body).notes = card.asked
      BY <2>1, <2>2, <1>1 DEF SaveFollowed, s
    <3>2. new = SaveJournalNote(s.body) /\ Accepted(new)
      BY <2>1 DEF new, Patched, Accepted
    <3>3. e.edit = TRUE /\ e.state = "stored" /\ row'.notes = card.asked
      BY <3>1, <3>2, <1>1, <1>4 DEF state
    <3> QED BY <2>1, <2>2, <3>3, <1>5, <1>6 DEF SaveFollowed
  <2>3. CASE card.mine # i
    <3>1. card'.touched = TRUE /\ sends'[card.mine] = sends[card.mine]
      BY <2>1, <2>3, <1>5, <1>6
    <3> QED BY <2>1, <3>1, <1>6 DEF SaveFollowed
  <2> QED BY <2>2, <2>3
<1>8. CardSound'
  BY <1>1, <1>5, <1>6, <1>7 DEF FormsInv, CardSound, NewCard
<1> QED BY <1>1, <1>5, <1>8 DEF FormsInv

\* The answer to a request is taken in.
LEMMA FinishMoves ==
    ASSUME SendsSound, NEW i \in DOMAIN sends, Finish(i)
    PROVE  /\ SendsSound' /\ DOMAIN sends' = DOMAIN sends
           /\ sends'[i].state = "done" /\ sends'[i].edit = sends[i].edit
           /\ \A j \in DOMAIN sends \ {i} : sends'[j] = sends[j]
<1> DEFINE s == sends[i]
           e == [s EXCEPT !.body = <<>>, !.shown = <<>>, !.dirty = {}, !.state = "done", !.result = None, !.prev = None]
<1>1. sends' = [sends EXCEPT ![i] = e]
  BY DEF Finish
<1>2. RequestFields \subseteq DOMAIN s
  BY DEF SendsSound
<1> HIDE DEF s
<1>3. RequestFields \subseteq DOMAIN e /\ e.state = "done" /\ e.edit = s.edit
  BY <1>2 DEF RequestFields
<1> HIDE DEF e
<1> QED BY <1>1, <1>3, RequestMoves DEF s

\* The answer to a form of a trade or an account: no card follows it.
LEMMA AnswerStep ==
    ASSUME FormsInv, NEW i \in DOMAIN sends, Answer(i) \/ AnswerError(i)
    PROVE  FormsInv'
<1>1. kind # "note" /\ Finish(i) /\ UNCHANGED <<kind, row, card, edits>> /\ DOMAIN dialog' = DOMAIN dialog
  BY DEF Answer, AnswerError
<1>2. SendsSound'
  BY <1>1, FinishMoves DEF FormsInv
<1>3. card.mine = 0
  BY <1>1 DEF FormsInv, CardSound
<1> QED BY <1>1, <1>2, <1>3 DEF FormsInv, CardSound, NewCard

\* The answer to the save of a note: the card that follows it says a failure.
LEMMA NoteAnswered ==
    ASSUME FormsInv, NEW i \in DOMAIN sends, NoteStored(i) \/ NoteFailed(i)
    PROVE  FormsInv'
<1>1. kind = "note" /\ Finish(i) /\ UNCHANGED <<kind, row, dialog, edits>>
  BY DEF NoteStored, NoteFailed
<1>2. /\ SendsSound' /\ DOMAIN sends' = DOMAIN sends
      /\ sends'[i].state = "done" /\ sends'[i].edit = sends[i].edit
      /\ \A j \in DOMAIN sends \ {i} : sends'[j] = sends[j]
  BY <1>1, FinishMoves DEF FormsInv
<1>3. /\ DOMAIN card' = DOMAIN NewCard /\ card'.touched = card.touched /\ card'.mine = card.mine
      /\ card'.asked = card.asked /\ card'.asking = card.asking
      /\ \/ card'.alert = card.alert /\ (i # card.mine \/ sends[i].state = "stored")
         \/ card'.alert = "failed"
  <2>1. CASE NoteStored(i)
    BY <2>1 DEF NoteStored, FormsInv, CardSound
  <2>2. CASE NoteFailed(i)
    BY <2>2 DEF NoteFailed, FormsInv, CardSound, NewCard
  <2> QED BY <2>1, <2>2
<1>4. ASSUME card.mine # 0
      PROVE  card.mine \in DOMAIN sends /\ SaveFollowed(card', sends'[card.mine], row)
  <2>1. card.mine \in DOMAIN sends /\ SaveFollowed(card, sends[card.mine], row)
    BY <1>4 DEF FormsInv, CardSound
  <2>2. CASE card.mine = i
    BY <2>1, <2>2, <1>2, <1>3 DEF SaveFollowed
  <2>3. CASE card.mine # i
    <3>1. sends'[card.mine] = sends[card.mine]
      BY <2>1, <2>3, <1>2
    <3> QED BY <2>1, <3>1, <1>3 DEF SaveFollowed
  <2> QED BY <2>2, <2>3
<1>5. CardSound'
  BY <1>1, <1>2, <1>3, <1>4 DEF FormsInv, CardSound, NewCard
<1> QED BY <1>1, <1>2, <1>5 DEF FormsInv

\* Another tab writes the row: the card was touched.
LEMMA OtherTabStep == ASSUME FormsInv, OtherTab PROVE FormsInv'
<1>1. /\ UNCHANGED <<kind, sends, edits, dialog>>
      /\ card' = [card EXCEPT !.touched = kind = "note"]
  BY DEF OtherTab
<1>2. /\ DOMAIN card' = DOMAIN NewCard /\ card'.touched = (kind = "note") /\ card'.mine = card.mine
      /\ card'.asked = card.asked /\ card'.alert = card.alert /\ card'.asking = card.asking
  BY <1>1 DEF FormsInv, CardSound, NewCard
<1>3. card.mine # 0 => SaveFollowed(card', sends[card.mine], row')
  BY <1>2 DEF FormsInv, CardSound, SaveFollowed
<1> QED BY <1>1, <1>2, <1>3 DEF FormsInv, SendsSound, CardSound, NewCard

\* A page starts with no request and a card that follows none.
LEMMA FormsStart == FormsInit => FormsInv
<1> SUFFICES ASSUME FormsInit PROVE FormsInv
  OBVIOUS
<1>1. SendsSound
  BY DEF FormsInit, SendsSound
<1> QED BY <1>1 DEF FormsInit, FormsInv, CardSound, NewCard

\* Every step of the forms keeps the invariant.
LEMMA FormsStep == ASSUME FormsInv, [FormsNext]_formsVars PROVE FormsInv'
<1>1. CASE UNCHANGED formsVars
  BY <1>1, BesideStep DEF formsVars, Beside, FormsInv
<1>2. CASE InForm
  BY <1>2, InFormIsBeside, BesideStep
<1>3. CASE InNote
  BY <1>3, InNoteIsBeside, BesideStep
<1>4. CASE Save \/ SaveByKey \/ SaveAndNew \/ ChooseFromMenu
  BY <1>4, SubmitStep DEF Save, SaveByKey, SaveAndNew
<1>5. CASE SubmitNote \/ DeleteNote
  BY <1>5, NoteSaved
<1>6. CASE AskDelete \/ CancelDelete
  BY <1>6, AskDeleteStep
<1>7. CASE CardGone
  BY <1>7, CardGoneStep
<1>8. CASE OtherTab
  BY <1>8, OtherTabStep
<1>9. ASSUME NEW i \in DOMAIN sends, Serve(i) \/ Answer(i) \/ AnswerError(i) \/ NoteStored(i) \/ NoteFailed(i)
      PROVE  FormsInv'
  BY <1>9, ServeStep, AnswerStep, NoteAnswered
<1> QED BY <1>1, <1>2, <1>3, <1>4, <1>5, <1>6, <1>7, <1>8, <1>9 DEF FormsNext, InForm, InNote

\* Whatever the bounds, the texts typed and the order of the answers, a note
\* that was saved is at the server, or its card says that it is not.
THEOREM FailuresAreSaid == FormsSpec => []FailedSaveIsSaid
<1>1. FormsInv => FailedSaveIsSaid
  BY DEF FormsInv, CardSound, SaveFollowed, FailedSaveIsSaid
<1> QED BY <1>1, FormsStart, FormsStep, PTL DEF FormsSpec

\* What was typed goes, and what there is when it may.
TypedGoes ==
    /\ kind = "trade" /\ dialog.open /\ Dirty # {}
    /\ ~dialog'.open \/ (values' # values /\ edits' = edits)
MayGo == dialog.asking \/ \E i \in DOMAIN sends : sends[i].state = "stored" /\ sends'[i].state = "done"

\* The steps of the user in the form keep what was typed, change it by typing, or
\* were asked first.
LEMMA FormKeepsTyped == ASSUME FormsInv, InForm, TypedGoes PROVE dialog.asking
<1>1. edits + 1 # edits /\ {"open", "asking"} \subseteq DOMAIN dialog
  BY DEF FormsInv
<1>2. dialog.open /\ Dirty # {} /\ kind = "trade" /\ (~dialog'.open \/ (values' # values /\ edits' = edits))
  BY DEF TypedGoes
<1>3. ASSUME NEW f, NEW v, Put(f, v) PROVE FALSE
  BY <1>1, <1>2, <1>3 DEF Put
<1>4. ~TypePrices /\ ~ChoosePhase /\ \A edit \in BOOLEAN : ~OpenForm(edit)
  BY <1>1, <1>2 DEF TypePrices, ChoosePhase, OpenForm
<1>5. /\ ~TypeProfit /\ ~ChooseTime /\ ~TypeSymbol /\ ~ChooseDirection /\ ~Mark /\ ~UseSuggestion
      /\ ~InsertTemplate /\ ~TypeAccount
  BY <1>3 DEF TypeProfit, ChooseTime, TypeSymbol, ChooseDirection, Mark, UseSuggestion, InsertTemplate, TypeAccount
<1>6. ~RequestClose
  <2> SUFFICES ASSUME RequestClose PROVE FALSE
    OBVIOUS
  <2>1. dialog' = [dialog EXCEPT !.asking = TRUE] /\ UNCHANGED values
    BY <1>2 DEF RequestClose
  <2> QED BY <1>1, <1>2, <2>1
<1>7. KeepEditing \/ Discard => dialog.asking
  BY DEF KeepEditing, Discard
<1> QED BY <1>4, <1>5, <1>6, <1>7 DEF InForm

\* Whatever the bounds, what was typed into the trade form goes when the user
\* says so or with the answer to a save.
THEOREM NothingIsLostUnasked == FormsSpec => AskedBeforeLoss
<1>1. ASSUME FormsInv, FormsNext, TypedGoes PROVE MayGo
  <2>1. kind = "trade" /\ dialog.open /\ (~dialog'.open \/ values' # values)
    BY <1>1 DEF TypedGoes
  <2>2. CASE InForm
    BY <2>2, <1>1, FormKeepsTyped DEF MayGo
  <2>3. ~(Save \/ SaveByKey \/ SaveAndNew \/ ChooseFromMenu \/ Refetch \/ OtherTab)
    BY <2>1 DEF Save, SaveByKey, SaveAndNew, Submit, ChooseFromMenu, Refetch, OtherTab
  <2>4. ASSUME NEW i \in DOMAIN sends, Answer(i) PROVE MayGo
    BY <2>4, <1>1, FinishMoves DEF Answer, FormsInv, MayGo
  <2>5. ASSUME NEW i \in DOMAIN sends, Serve(i) \/ AnswerError(i) PROVE FALSE
    BY <2>1, <2>5 DEF Serve, AnswerError
  <2>6. \A i \in DOMAIN sends : ~NoteStored(i) /\ ~NoteFailed(i)
    BY <2>1 DEF NoteStored, NoteFailed
  <2>7. ~(OpenNote \/ Write \/ Erase \/ AskLink \/ PromptForImage \/ EscapeTip \/ EnterLink \/ EnterImage \/ InsertInNote)
    BY <2>1 DEF OpenNote, Write, Erase, AskLink, PromptForImage, EscapeTip, EnterLink, EnterImage, InsertInNote, EditingNote
  <2>8. ~(SubmitNote \/ AskDelete \/ CancelDelete \/ DeleteNote \/ CardGone)
    BY <2>1, <1>1 DEF SubmitNote, AskDelete, CancelDelete, DeleteNote, CardGone, FormsInv, CardSound
  <2> QED BY <1>1, <2>2, <2>3, <2>4, <2>5, <2>6, <2>7, <2>8 DEF FormsNext, InForm
<1>2. ASSUME FormsInv, [FormsNext]_formsVars PROVE [TypedGoes => MayGo]_formsVars
  BY <1>1, <1>2
<1>3. FormsSpec => [][TypedGoes => MayGo]_formsVars
  BY <1>2, FormsStart, FormsStep, PTL DEF FormsSpec
<1> QED BY <1>3 DEF AskedBeforeLoss, TypedGoes, MayGo

-----------------------------------------------------------------------------
(* Forms: a save leaves what its user left alone.                            *)

\* The boxes of a form, and the fields of the row behind it.
Boxes(k) == CASE k = "trade" -> TradeFields [] k = "account" -> AccountFields [] OTHER -> {"notes"}
Columns == {"name", "risk_per_trade", "account_type", "challenge_phase", "challenge_status", "profit_target"}

\* A row of an account has the fields of a challenge exactly when it is one.
Normal(r) ==
    IF r.account_type # "prop"
    THEN r.challenge_phase = None /\ r.challenge_status = None /\ r.profit_target = None
    ELSE r.challenge_phase # None /\ r.challenge_status # None

RowTyped(k, r) ==
    /\ k = "trade" => TradeFields \subseteq DOMAIN r
    /\ k = "account" => Columns \subseteq DOMAIN r /\ Normal(r)

\* A request under way carries what was typed, a phase with its status.
Carries(k, s) ==
    s.form # 0 /\ s.state # "done" =>
      /\ DOMAIN s.shown = Boxes(k) /\ s.dirty \subseteq Boxes(k)
      /\ k = "note" => s.dirty = {"notes"}
      /\ s.edit = TRUE /\ k # "note" => DOMAIN s.body = {Key(g) : g \in s.dirty} \cup
           (IF k = "account" /\ "challenge_phase" \in s.dirty THEN {"challenge_status"} ELSE {})

KeepInv ==
    /\ kind \in {"trade", "account", "note"}
    /\ RowTyped(kind, row) /\ DOMAIN values = Boxes(kind)
    /\ \A i \in DOMAIN sends : Carries(kind, sends[i])

\* No two boxes of a form are sent under one key.
LEMMA KeysDiffer ==
    ASSUME NEW k \in {"trade", "account"}, NEW f \in Boxes(k), NEW g \in Boxes(k), Key(f) = Key(g)
    PROVE  f = g
<1>1. CASE k = "trade"
  BY <1>1 DEF Boxes, TradeFields, Numbers, Key
<1>2. CASE k = "account"
  BY <1>2 DEF Boxes, AccountFields, Key
<1> QED BY <1>1, <1>2

\* What a form shows when it opens, or is closed, fills its boxes.
LEMMA ShownFillsBoxes ==
    ASSUME kind \in {"trade", "account", "note"}, NEW edit \in BOOLEAN, NEW r, kind # "note" \/ ~edit
    PROVE  DOMAIN Shown(edit, r) = Boxes(kind)
<1>1. CASE kind = "trade"
  BY <1>1 DEF Shown, Boxes, FromTrade, Defaults
<1>2. CASE kind = "account"
  <2>1. DOMAIN FieldsFromAccount(r) = AccountFields
    BY DEF FieldsFromAccount, AccountFields
  <2>2. DOMAIN AccountDefaults = AccountFields
    BY DEF AccountDefaults, AccountFields
  <2> QED BY <1>2, <2>1, <2>2 DEF Shown, Boxes
<1>3. CASE kind = "note"
  BY <1>3 DEF Shown, Boxes
<1> QED BY <1>1, <1>2, <1>3

\* An account stored is normal, whatever was asked for.
LEMMA StoredIsNormal ==
    ASSUME NEW r, Columns \subseteq DOMAIN r
    PROVE  LET n == NormalizeChallenge(r)
           IN  /\ DOMAIN n = DOMAIN r /\ Normal(n) /\ n.account_type = r.account_type
               /\ \A k \in DOMAIN r \ {"challenge_phase", "challenge_status", "profit_target"} : n[k] = r[k]
               /\ r.account_type = "prop" =>
                    /\ r.challenge_phase # None => n.challenge_phase = r.challenge_phase
                    /\ r.challenge_status # None => n.challenge_status = r.challenge_status
                    /\ n.profit_target = r.profit_target
<1> DEFINE n == NormalizeChallenge(r)
<1>1. None # "phase_1" /\ None # "in_progress"
  <2>1. Phases[1] = "phase_1" /\ 1 \in 1 .. 3
    BY DEF Phases
  <2> QED BY <2>1, NullIsNoWord DEF Statuses
<1>2. CASE r.account_type # "prop"
  <2>1. n = [r EXCEPT !.challenge_phase = None, !.challenge_status = None, !.profit_target = None]
    BY <1>2 DEF NormalizeChallenge
  <2> HIDE DEF n
  <2>2. /\ DOMAIN n = DOMAIN r /\ n.account_type = r.account_type
        /\ n.challenge_phase = None /\ n.challenge_status = None /\ n.profit_target = None
        /\ \A k \in DOMAIN r \ {"challenge_phase", "challenge_status", "profit_target"} : n[k] = r[k]
    BY <2>1 DEF Columns
  <2> QED BY <1>2, <2>2 DEF Normal, n
<1>3. CASE r.account_type = "prop"
  <2> DEFINE phase == IF r.challenge_phase = None THEN "phase_1" ELSE r.challenge_phase
             status == IF r.challenge_status = None THEN "in_progress" ELSE r.challenge_status
  <2>1. n = [r EXCEPT !.challenge_phase = phase, !.challenge_status = status]
    BY <1>3 DEF NormalizeChallenge
  <2> HIDE DEF n, phase, status
  <2>2. /\ DOMAIN n = DOMAIN r /\ n.account_type = r.account_type /\ n.profit_target = r.profit_target
        /\ n.challenge_phase = phase /\ n.challenge_status = status
        /\ \A k \in DOMAIN r \ {"challenge_phase", "challenge_status", "profit_target"} : n[k] = r[k]
    BY <2>1 DEF Columns
  <2>3. /\ phase # None /\ status # None
        /\ r.challenge_phase # None => phase = r.challenge_phase
        /\ r.challenge_status # None => status = r.challenge_status
    BY <1>1 DEF phase, status
  <2> QED BY <1>3, <2>2, <2>3 DEF Normal, n
<1> QED BY <1>2, <1>3

\* Whatever is patched, the row keeps its fields.
LEMMA PatchedIsTyped ==
    ASSUME NEW r, NEW body, Columns \subseteq DOMAIN r
    PROVE  Columns \subseteq DOMAIN PatchAccount(r, body) /\ Normal(PatchAccount(r, body))
<1> DEFINE moved == "challenge_phase" \in DOMAIN body /\ r.challenge_phase # body.challenge_phase
           fresh == IF moved /\ "challenge_status" \notin DOMAIN body THEN [challenge_status |-> "in_progress"] ELSE NoFields
           m == Over(Over(body, fresh), r)
<1>1. PatchAccount(r, body) = NormalizeChallenge(m)
  BY DEF PatchAccount
<1>2. Columns \subseteq DOMAIN m
  BY DEF Over
<1> HIDE DEF m
<1> QED BY <1>1, <1>2, StoredIsNormal

\* A box left alone has no key in the body.
LEMMA UntoldIsUnsent ==
    ASSUME NEW k \in {"trade", "account"}, NEW s, Carries(k, s), s.form # 0, s.state # "done", s.edit = TRUE,
           NEW f \in Boxes(k), ~Told(s, f)
    PROVE  Key(f) \notin DOMAIN s.body
<1>1. /\ s.dirty \subseteq Boxes(k)
      /\ DOMAIN s.body = {Key(g) : g \in s.dirty} \cup
           (IF k = "account" /\ "challenge_phase" \in s.dirty THEN {"challenge_status"} ELSE {})
  BY DEF Carries
<1>2. f \notin s.dirty /\ (f = "challenge_status" => "challenge_phase" \notin s.dirty)
  BY DEF Told
<1>3. Key(f) \notin {Key(g) : g \in s.dirty}
  BY <1>1, <1>2, KeysDiffer
<1>4. Key(f) = "challenge_status" => f = "challenge_status"
  BY DEF Key
<1> QED BY <1>1, <1>2, <1>3, <1>4

\* A phase that is sent has its status with it.
LEMMA PhaseHasStatus ==
    ASSUME NEW s, Carries("account", s), s.form # 0, s.state # "done", s.edit = TRUE,
           "challenge_phase" \in DOMAIN s.body
    PROVE  "challenge_status" \in DOMAIN s.body
<1>1. DOMAIN s.body = {Key(g) : g \in s.dirty} \cup
           (IF "challenge_phase" \in s.dirty THEN {"challenge_status"} ELSE {})
  BY DEF Carries
<1>2. \A g : Key(g) = "challenge_phase" => g = "challenge_phase"
  BY DEF Key
<1> QED BY <1>1, <1>2

\* The server leaves what the body does not name, the type of the account allowing.
LEMMA ServerKeepsRest ==
    ASSUME kind \in {"trade", "account", "note"}, RowTyped(kind, row),
           NEW s, Carries(kind, s), s.form # 0, s.state # "done", s.edit = TRUE,
           NEW f \in DOMAIN s.shown, ~Told(s, f)
    PROVE  Kept(f, row, Patched(row, s.body))
<1>1. f \in Boxes(kind)
  BY DEF Carries
<1>2. CASE kind = "trade"
  <2>1. Key(f) \notin DOMAIN s.body
    BY <1>1, <1>2, UntoldIsUnsent
  <2>2. Key(f) \in DOMAIN row
    BY <1>1, <1>2 DEF RowTyped, Boxes, TradeFields, Numbers, Key
  <2>3. Patched(row, s.body) = Over(s.body, row)
    BY <1>2 DEF Patched
  <2> QED BY <2>1, <2>2, <2>3 DEF Over, Kept
<1>3. CASE kind = "account"
  <2>1. Key(f) \notin DOMAIN s.body
    BY <1>1, <1>3, UntoldIsUnsent
  <2>2. Key(f) \in Columns /\ Columns \subseteq DOMAIN row /\ Normal(row)
    BY <1>1, <1>3 DEF RowTyped, Boxes, AccountFields, Columns, Key
  <2> DEFINE m == Over(Over(s.body, NoFields), row)
             n == NormalizeChallenge(m)
  <2>3. Patched(row, s.body) = n
    <3>1. "challenge_phase" \in DOMAIN s.body => "challenge_status" \in DOMAIN s.body
      BY <1>3, PhaseHasStatus
    <3> QED BY <1>3, <3>1 DEF Patched, PatchAccount
  <2>4. Columns \subseteq DOMAIN m /\ m[Key(f)] = row[Key(f)]
    BY <2>1, <2>2 DEF Over, NoFields
  <2> HIDE DEF m
  <2>5. /\ Normal(n) /\ n.account_type = m.account_type
        /\ \A k \in DOMAIN m \ {"challenge_phase", "challenge_status", "profit_target"} : n[k] = m[k]
        /\ m.account_type = "prop" =>
             /\ m.challenge_phase # None => n.challenge_phase = m.challenge_phase
             /\ m.challenge_status # None => n.challenge_status = m.challenge_status
             /\ n.profit_target = m.profit_target
    BY <2>4, StoredIsNormal
  <2> HIDE DEF n
  <2>6. CASE f \notin ChallengeBoxes
    <3>1. Key(f) \notin {"challenge_phase", "challenge_status", "profit_target"}
      BY <1>1, <1>3, <2>6 DEF Boxes, AccountFields, ChallengeBoxes, Key
    <3> QED BY <2>2, <2>3, <2>4, <2>5, <3>1 DEF Kept
  <2>7. CASE f \in ChallengeBoxes /\ row.account_type = n.account_type
    <3>1. Key(f) \in {"challenge_phase", "challenge_status", "profit_target"}
      BY <2>7 DEF ChallengeBoxes, Key
    <3>2. CASE row.account_type # "prop"
      <4>1. row[Key(f)] = None /\ n[Key(f)] = None
        BY <2>2, <2>5, <2>7, <3>1, <3>2 DEF Normal
      <4> QED BY <2>3, <4>1 DEF Kept
    <3>3. CASE row.account_type = "prop"
      <4>1. Key(f) = "challenge_phase" => row[Key(f)] # None
        BY <2>2, <3>3 DEF Normal
      <4>2. Key(f) = "challenge_status" => row[Key(f)] # None
        BY <2>2, <3>3 DEF Normal
      <4>3. n[Key(f)] = m[Key(f)]
        BY <2>4, <2>5, <2>7, <3>1, <3>3, <4>1, <4>2
      <4> QED BY <2>3, <2>4, <4>3 DEF Kept
    <3> QED BY <3>2, <3>3
  <2>8. CASE f \in ChallengeBoxes /\ row.account_type # n.account_type
    BY <2>3, <2>8 DEF Kept
  <2> QED BY <2>6, <2>7, <2>8
<1>4. CASE kind = "note"
  BY <1>1, <1>4 DEF Carries, Boxes, Told
<1> QED BY <1>2, <1>3, <1>4

\* What leaves the row and the requests is a matter of the boxes.
LEMMA BoxesStep ==
    ASSUME KeepInv, UNCHANGED <<kind, row, sends>>, DOMAIN values' = Boxes(kind)
    PROVE  KeepInv'
BY DEF KeepInv

\* Typing, opening and closing leave a form its boxes.
LEMMA InFormKeepsBoxes ==
    ASSUME KeepInv, InForm
    PROVE  UNCHANGED <<kind, row, sends>> /\ DOMAIN values' = Boxes(kind)
<1> USE DEF KeepInv
<1>1. ASSUME NEW edit \in BOOLEAN, OpenForm(edit)
      PROVE  UNCHANGED <<kind, row, sends>> /\ DOMAIN values' = Boxes(kind)
  BY <1>1, ShownFillsBoxes DEF OpenForm
<1>2. ASSUME NEW f, NEW v, Put(f, v)
      PROVE  UNCHANGED <<kind, row, sends>> /\ DOMAIN values' = Boxes(kind)
  BY <1>2 DEF Put
<1>3. CASE TypePrices \/ ChoosePhase
  BY <1>3 DEF TypePrices, ChoosePhase
<1>4. CASE TypeProfit \/ ChooseTime \/ TypeSymbol \/ ChooseDirection \/ Mark \/ UseSuggestion \/ InsertTemplate
  BY <1>2, <1>4 DEF TypeProfit, ChooseTime, TypeSymbol, ChooseDirection, Mark, UseSuggestion, InsertTemplate
<1>5. CASE TypeAccount
  BY <1>2, <1>5 DEF TypeAccount
<1>6. DOMAIN Shown(FALSE, row) = Boxes(kind)
  BY ShownFillsBoxes
<1>7. CASE RequestClose \/ KeepEditing \/ Discard
  BY <1>6, <1>7 DEF RequestClose, KeepEditing, Discard, Close
<1> QED BY <1>1, <1>3, <1>4, <1>5, <1>7 DEF InForm

\* So does writing a note.
LEMMA InNoteKeepsBoxes ==
    ASSUME KeepInv, InNote
    PROVE  UNCHANGED <<kind, row, sends>> /\ DOMAIN values' = Boxes(kind)
<1> USE DEF KeepInv
<1>1. ASSUME kind = "note", NEW note, values' = [notes |-> note] PROVE DOMAIN values' = Boxes(kind)
  BY <1>1 DEF Boxes
<1>2. ASSUME kind = "note", NEW doc, Edited(doc)
      PROVE  UNCHANGED <<kind, row, sends>> /\ DOMAIN values' = Boxes(kind)
  BY <1>1, <1>2 DEF Edited
<1>3. ASSUME NEW tip, Ask(tip) PROVE UNCHANGED <<kind, row, sends>> /\ DOMAIN values' = Boxes(kind)
  BY <1>3 DEF Ask
<1>4. CASE OpenNote \/ InsertInNote
  BY <1>1, <1>4 DEF OpenNote, InsertInNote, BuildEditor, EditingNote
<1>5. CASE Write \/ Erase \/ EnterLink
  BY <1>2, <1>5 DEF Write, Erase, EnterLink, EditingNote
<1>6. CASE AskLink \/ PromptForImage \/ EscapeTip
  BY <1>3, <1>6 DEF AskLink, PromptForImage, EscapeTip
<1>7. CASE EnterImage
  BY <1>2, <1>3, <1>7 DEF EnterImage, EditingNote
<1>8. CASE Refetch
  BY <1>8 DEF Refetch
<1> QED BY <1>4, <1>5, <1>6, <1>7, <1>8 DEF InNote

\* A new request carries what the form showed.
LEMMA NewRequestCarries ==
    ASSUME KeepInv, SendsSound, NEW e, RequestFields \subseteq DOMAIN e, sends' = Append(sends, e),
           Carries(kind, e), UNCHANGED <<kind, row>>, DOMAIN values' = Boxes(kind)
    PROVE  KeepInv' /\ \A i \in DOMAIN sends : sends'[i] = sends[i]
<1>1. /\ \A i \in DOMAIN sends : sends'[i] = sends[i]
      /\ sends'[Len(sends) + 1] = e
  BY RequestJoins
<1>2. DOMAIN sends' = DOMAIN sends \cup {Len(sends) + 1}
  <2>1. PICK S : sends \in Seq(S)
    BY DEF SendsSound
  <2>2. Len(sends) \in Nat /\ DOMAIN sends = 1 .. Len(sends) /\ DOMAIN sends' = 1 .. Len(sends) + 1
    BY <2>1
  <2> QED BY <2>2
<1>3. \A i \in DOMAIN sends' : Carries(kind, sends'[i])
  BY <1>1, <1>2 DEF KeepInv
<1> QED BY <1>1, <1>3 DEF KeepInv

\* What a body names.
LEMMA BodyNames ==
    ASSUME kind \in {"trade", "account"}, NEW edit, edit = TRUE, NEW dirty \in SUBSET Boxes(kind), NEW v
    PROVE  DOMAIN Body(edit, dirty, v) = {Key(g) : g \in dirty} \cup
             (IF kind = "account" /\ "challenge_phase" \in dirty THEN {"challenge_status"} ELSE {})
<1>1. DOMAIN PatchFromDirty(dirty, v) = {Key(g) : g \in dirty}
  BY DEF PatchFromDirty
<1>2. CASE kind = "trade"
  BY <1>1, <1>2 DEF Body
<1>3. CASE kind = "account"
  <2>1. Body(edit, dirty, v) = Over(PatchFromDirty(dirty, v),
            IF "challenge_phase" \in dirty THEN [challenge_status |-> v.challenge_status] ELSE NoFields)
    BY <1>3 DEF Body, AccountBody
  <2>2. DOMAIN (IF "challenge_phase" \in dirty THEN [challenge_status |-> v.challenge_status] ELSE NoFields)
          = IF "challenge_phase" \in dirty THEN {"challenge_status"} ELSE {}
    BY DEF NoFields
  <2> QED BY <1>1, <1>3, <2>1, <2>2 DEF Over
<1> QED BY <1>2, <1>3

\* A form that is saved sends what its user changed.
LEMMA SubmitCarries ==
    ASSUME KeepInv, FormsInv, (\E another \in BOOLEAN : Submit(another)) \/ ChooseFromMenu
    PROVE  KeepInv' /\ \A i \in DOMAIN sends : sends'[i] = sends[i]
<1>1. CASE ChooseFromMenu
  <2>1. PICK body : Send(0, TRUE, body, <<>>, {}, None)
    BY <1>1 DEF ChooseFromMenu
  <2> DEFINE e == [form |-> 0, edit |-> TRUE, body |-> body, shown |-> <<>>, dirty |-> {},
                   state |-> "sent", result |-> None, prev |-> None]
  <2>2. sends' = Append(sends, e)
    BY <2>1 DEF Send
  <2>3. RequestFields \subseteq DOMAIN e /\ Carries(kind, e)
    BY DEF RequestFields, Carries
  <2> HIDE DEF e
  <2>4. UNCHANGED <<kind, row>> /\ DOMAIN values' = Boxes(kind)
    BY <1>1 DEF ChooseFromMenu, KeepInv
  <2> QED BY <2>2, <2>3, <2>4, NewRequestCarries DEF FormsInv
<1>2. ASSUME NEW another \in BOOLEAN, Submit(another)
      PROVE  KeepInv' /\ \A i \in DOMAIN sends : sends'[i] = sends[i]
  <2>1. UNCHANGED <<kind, row, values>> /\ kind # "note"
    BY <1>2 DEF Submit
  <2>2. CASE UNCHANGED sends
    BY <2>1, <2>2 DEF KeepInv
  <2>3. CASE Send(dialog.form, dialog.edit, Body(dialog.edit, Dirty, values), values, Dirty, None)
    <3> DEFINE e == [form |-> dialog.form, edit |-> dialog.edit, body |-> Body(dialog.edit, Dirty, values),
                     shown |-> values, dirty |-> Dirty, state |-> "sent", result |-> None, prev |-> None]
    <3>1. sends' = Append(sends, e)
      BY <2>3 DEF Send
    <3>2. RequestFields \subseteq DOMAIN e
      BY DEF RequestFields
    <3>3. e.shown = values /\ e.dirty = Dirty /\ e.edit = dialog.edit /\ e.body = Body(dialog.edit, Dirty, values)
      OBVIOUS
    <3> HIDE DEF e
    <3>4. Dirty \in SUBSET Boxes(kind) /\ DOMAIN values = Boxes(kind) /\ kind \in {"trade", "account"}
      BY <2>1 DEF Dirty, KeepInv
    <3>5. ASSUME dialog.edit = TRUE
          PROVE  DOMAIN Body(dialog.edit, Dirty, values) = {Key(g) : g \in Dirty} \cup
                   (IF kind = "account" /\ "challenge_phase" \in Dirty THEN {"challenge_status"} ELSE {})
      BY <3>4, <3>5, BodyNames
    <3>6. Carries(kind, e)
      BY <2>1, <3>3, <3>4, <3>5 DEF Carries
    <3> QED BY <2>1, <3>1, <3>2, <3>4, <3>6, NewRequestCarries DEF FormsInv
  <2> QED BY <1>2, <2>2, <2>3 DEF Submit
<1> QED BY <1>1, <1>2

\* So does the note of a card.
LEMMA NoteCarries ==
    ASSUME KeepInv, FormsInv, SubmitNote \/ DeleteNote
    PROVE  KeepInv' /\ \A i \in DOMAIN sends : sends'[i] = sends[i]
<1>1. kind = "note" /\ DOMAIN values' = Boxes(kind)
  <2>1. DOMAIN Shown(FALSE, row) = Boxes(kind)
    BY ShownFillsBoxes DEF KeepInv
  <2>2. CASE SubmitNote
    BY <2>1, <2>2 DEF SubmitNote, Close
  <2>3. CASE DeleteNote
    BY <2>3 DEF DeleteNote, FormsInv, CardSound, KeepInv
  <2> QED BY <2>2, <2>3
<1>2. PICK form, note, shown : SaveNote(form, note, shown)
  BY DEF SubmitNote, DeleteNote
<1> DEFINE e == [form |-> form, edit |-> TRUE, body |-> [notes |-> note], shown |-> [notes |-> shown],
                 dirty |-> {"notes"}, state |-> "sent", result |-> None, prev |-> seen]
<1>3. sends' = Append(sends, e) /\ UNCHANGED <<kind, row>>
  BY <1>2 DEF SaveNote, Send
<1>4. RequestFields \subseteq DOMAIN e
  BY DEF RequestFields
<1>5. DOMAIN e.shown = {"notes"} /\ e.dirty = {"notes"}
  OBVIOUS
<1> HIDE DEF e
<1>6. Carries(kind, e)
  BY <1>1, <1>5 DEF Carries, Boxes
<1> QED BY <1>1, <1>3, <1>4, <1>6, NewRequestCarries DEF FormsInv

\* A request that moves carries on, if it is done or what it is about is the same.
LEMMA MovedCarries ==
    ASSUME KeepInv, SendsSound, NEW i \in DOMAIN sends, DOMAIN sends' = DOMAIN sends,
           \A j \in DOMAIN sends \ {i} : sends'[j] = sends[j],
           Carries(kind, sends'[i]), kind' = kind, RowTyped(kind, row'), DOMAIN values' = Boxes(kind)
    PROVE  KeepInv'
<1>1. \A j \in DOMAIN sends' : Carries(kind, sends'[j])
  BY DEF KeepInv
<1> QED BY <1>1 DEF KeepInv

\* What the server stores of a save has the fields of a row.
LEMMA StoredIsTyped ==
    ASSUME kind \in {"trade", "account", "note"}, RowTyped(kind, row), NEW body
    PROVE  RowTyped(kind, Patched(row, body))
<1>1. CASE kind = "trade"
  <2>1. Patched(row, body) = Over(body, row)
    BY <1>1 DEF Patched
  <2> QED BY <1>1, <2>1 DEF RowTyped, Over
<1>2. CASE kind = "account"
  <2>1. Patched(row, body) = PatchAccount(row, body)
    BY <1>2 DEF Patched
  <2> QED BY <1>2, <2>1, PatchedIsTyped DEF RowTyped
<1>3. CASE kind = "note"
  BY <1>3 DEF RowTyped
<1> QED BY <1>1, <1>2, <1>3

\* A request reaches the server: what it is about is the same, and what it
\* leaves alone is kept.
LEMMA ServeKeeps ==
    ASSUME KeepInv, FormsInv, NEW i \in DOMAIN sends, Serve(i)
    PROVE  /\ KeepInv'
           /\ \A j \in DOMAIN sends \ {i} : sends'[j] = sends[j]
           /\ sends'[i].state = "stored" /\ sends[i].edit = TRUE =>
                sends'[i].result = Patched(row, sends[i].body)
<1> DEFINE s == sends[i]
           new == Patched(IF s.edit THEN row ELSE Blank, s.body)
           state == IF Accepted(new) THEN "stored" ELSE "refused"
           result == IF Accepted(new) THEN new ELSE None
           e == [s EXCEPT !.state = state, !.result = result]
<1>1. /\ s.state = "sent"
      /\ sends' = [sends EXCEPT ![i].state = state, ![i].result = result]
      /\ row' = IF Accepted(new) /\ s.edit THEN new ELSE row
      /\ UNCHANGED <<kind, values>>
  BY DEF Serve
<1>2. RequestFields \subseteq DOMAIN s
  BY DEF FormsInv, SendsSound
<1>3. state = "stored" /\ s.edit = TRUE => result = Patched(row, s.body)
  OBVIOUS
<1>4. RowTyped(kind, row')
  <2>1. CASE Accepted(new) /\ s.edit
    <3>1. row' = Patched(row, s.body)
      BY <1>1, <2>1
    <3> QED BY <3>1, StoredIsTyped DEF KeepInv
  <2>2. CASE ~(Accepted(new) /\ s.edit)
    <3>1. row' = row
      BY <1>1, <2>2
    <3> QED BY <3>1 DEF KeepInv
  <2> QED BY <2>1, <2>2
<1> HIDE DEF new, result, state
<1>5. sends' = [sends EXCEPT ![i] = e]
  BY <1>1
<1> HIDE DEF s
<1>6. /\ RequestFields \subseteq DOMAIN e /\ e.state = state /\ e.result = result
      /\ e.edit = s.edit /\ e.body = s.body /\ e.form = s.form /\ e.shown = s.shown /\ e.dirty = s.dirty
  BY <1>2 DEF RequestFields
<1>7. Carries(kind, s)
  BY DEF KeepInv, s
<1> HIDE DEF e
<1>8. Carries(kind, e)
  BY <1>1, <1>6, <1>7 DEF Carries
<1>9. /\ DOMAIN sends' = DOMAIN sends /\ sends'[i] = e
      /\ \A j \in DOMAIN sends \ {i} : sends'[j] = sends[j]
  BY <1>5, <1>6, RequestMoves DEF FormsInv
<1>10. KeepInv'
  BY <1>1, <1>4, <1>8, <1>9, MovedCarries DEF FormsInv, KeepInv
<1> QED BY <1>3, <1>6, <1>9, <1>10 DEF s

\* An answer leaves the row alone, and the form its boxes.
LEMMA AnswerKeeps ==
    ASSUME KeepInv, FormsInv, NEW i \in DOMAIN sends, Answer(i) \/ AnswerError(i) \/ NoteStored(i) \/ NoteFailed(i)
    PROVE  KeepInv' /\ sends'[i].state = "done" /\ \A j \in DOMAIN sends \ {i} : sends'[j] = sends[j]
<1>1. Finish(i) /\ UNCHANGED <<kind, row>>
  BY DEF Answer, AnswerError, NoteStored, NoteFailed
<1>2. /\ DOMAIN sends' = DOMAIN sends /\ sends'[i].state = "done"
      /\ \A j \in DOMAIN sends \ {i} : sends'[j] = sends[j]
  BY <1>1, FinishMoves DEF FormsInv
<1>3. Carries(kind, sends'[i])
  BY <1>2 DEF Carries
<1>4. DOMAIN values' = Boxes(kind)
  <2>1. CASE AnswerError(i) \/ NoteStored(i) \/ NoteFailed(i)
    BY <2>1 DEF AnswerError, NoteStored, NoteFailed, KeepInv
  <2>2. CASE Answer(i)
    <3>1. sends[i].form # 0 /\ sends[i].state = "stored"
      BY <2>2 DEF Answer
    <3>2. DOMAIN sends[i].shown = Boxes(kind)
      BY <3>1 DEF KeepInv, Carries
    <3>3. DOMAIN ForTheNextTrade(sends[i].shown) = Boxes(kind)
      BY <3>2 DEF ForTheNextTrade
    <3>4. DOMAIN Shown(FALSE, row) = Boxes(kind)
      BY ShownFillsBoxes DEF KeepInv
    <3>5. values' \in {ForTheNextTrade(sends[i].shown), values, Shown(FALSE, row)}
      BY <2>2 DEF Answer
    <3> QED BY <3>3, <3>4, <3>5 DEF KeepInv
  <2> QED BY <2>1, <2>2
<1>5. RowTyped(kind, row')
  BY <1>1 DEF KeepInv
<1> QED BY <1>1, <1>2, <1>3, <1>4, <1>5, MovedCarries DEF FormsInv

\* Another tab leaves a row its fields.
LEMMA OtherTabKeeps ==
    ASSUME KeepInv, OtherTab
    PROVE  KeepInv' /\ UNCHANGED sends
<1>1. UNCHANGED <<kind, values, sends>>
  BY DEF OtherTab
<1>2. RowTyped(kind, row')
  <2>1. CASE kind # "account"
    <3>1. row' = [row EXCEPT !.notes = <<"other">>]
      BY <2>1 DEF OtherTab
    <3>2. DOMAIN row' = DOMAIN row
      BY <3>1
    <3> QED BY <2>1, <3>2 DEF KeepInv, RowTyped
  <2>2. CASE kind = "account" /\ row' = [row EXCEPT !.name = "other"]
    <3>1. Columns \subseteq DOMAIN row /\ Normal(row)
      BY <2>2 DEF KeepInv, RowTyped
    <3>2. DOMAIN row' = DOMAIN row /\ \A k \in DOMAIN row \ {"name"} : row'[k] = row[k]
      BY <2>2
    <3>3. Normal(row')
      BY <3>1, <3>2 DEF Normal, Columns
    <3> QED BY <2>2, <3>1, <3>2, <3>3 DEF RowTyped
  <2>3. ASSUME kind = "account", NEW body, row' = PatchAccount(row, body)
        PROVE  RowTyped(kind, row')
    BY <2>3, PatchedIsTyped DEF KeepInv, RowTyped
  <2> QED BY <2>1, <2>2, <2>3 DEF OtherTab
<1>3. \A i \in DOMAIN sends' : Carries(kind, sends'[i])
  BY <1>1 DEF KeepInv
<1> QED BY <1>1, <1>2, <1>3 DEF KeepInv

\* Nothing else of a card is about the row.
LEMMA CardKeeps ==
    ASSUME KeepInv, FormsInv, AskDelete \/ CancelDelete \/ CardGone
    PROVE  KeepInv' /\ UNCHANGED sends
<1>1. UNCHANGED <<kind, row, sends>>
  BY DEF AskDelete, CancelDelete, CardGone
<1>2. DOMAIN Shown(FALSE, row) = Boxes(kind)
  BY ShownFillsBoxes DEF KeepInv
<1>3. DOMAIN values' = Boxes(kind)
  BY <1>2 DEF AskDelete, CancelDelete, CardGone, Close, KeepInv
<1> QED BY <1>1, <1>3, BoxesStep

\* It is so at the start: the account is one of a challenge in its first phase.
LEMMA KeepStart == FormsInit => KeepInv
<1> SUFFICES ASSUME FormsInit PROVE KeepInv
  OBVIOUS
<1>1. kind \in {"trade", "account", "note"} /\ sends = <<>> /\ DOMAIN values = Boxes(kind)
  BY ShownFillsBoxes DEF FormsInit
<1>2. RowTyped(kind, row)
  <2>1. CASE kind = "trade"
    <3>1. DOMAIN row = TradeFields
      BY <2>1 DEF FormsInit, Rows, Defaults
    <3> QED BY <2>1, <3>1 DEF RowTyped
  <2>2. CASE kind = "account"
    <3>1. Phases[1] = "phase_1" /\ 1 \in 1 .. 3
      BY DEF Phases
    <3>2. None # "phase_1" /\ None # "passed"
      BY <3>1, NullIsNoWord DEF Statuses
    <3>3. row = [NewAccount EXCEPT !.name = "a", !.risk_per_trade = FractionFromPercent(One), !.account_type = "prop",
                           !.challenge_phase = "phase_1", !.challenge_status = "passed"]
      BY <2>2 DEF FormsInit, Rows
    <3>4. /\ DOMAIN row = Columns /\ row.account_type = "prop"
          /\ row.challenge_phase = "phase_1" /\ row.challenge_status = "passed"
      BY <3>3 DEF NewAccount, Columns
    <3> QED BY <2>2, <3>2, <3>4 DEF RowTyped, Normal
  <2>3. CASE kind = "note"
    BY <2>3 DEF RowTyped
  <2> QED BY <1>1, <2>1, <2>2, <2>3
<1>3. DOMAIN sends = {}
  BY <1>1
<1> QED BY <1>1, <1>2, <1>3 DEF KeepInv

\* A step serves a request, or stores none.
ServesOne == \E i \in DOMAIN sends : Serve(i)
LEMMA KeepStep ==
    ASSUME KeepInv, FormsInv, [FormsNext]_formsVars
    PROVE  KeepInv' /\ (ServesOne \/ \A i \in DOMAIN sends : ~StoredNow(i))
<1>1. ASSUME \A i \in DOMAIN sends : sends'[i] = sends[i] PROVE \A i \in DOMAIN sends : ~StoredNow(i)
  BY <1>1 DEF StoredNow
<1>2. CASE UNCHANGED formsVars
  <2>1. UNCHANGED <<kind, row, sends, values>>
    BY <1>2 DEF formsVars
  <2>2. DOMAIN values' = Boxes(kind)
    BY <2>1 DEF KeepInv
  <2> QED BY <1>1, <2>1, <2>2, BoxesStep
<1>3. CASE InForm
  BY <1>1, <1>3, InFormKeepsBoxes, BoxesStep
<1>4. CASE InNote
  BY <1>1, <1>4, InNoteKeepsBoxes, BoxesStep
<1>5. CASE Save \/ SaveByKey \/ SaveAndNew \/ ChooseFromMenu
  BY <1>1, <1>5, SubmitCarries DEF Save, SaveByKey, SaveAndNew
<1>6. CASE SubmitNote \/ DeleteNote
  BY <1>1, <1>6, NoteCarries
<1>7. ASSUME NEW i \in DOMAIN sends, Serve(i) PROVE KeepInv' /\ ServesOne
  BY <1>7, ServeKeeps DEF ServesOne
<1>8. ASSUME NEW i \in DOMAIN sends, Answer(i) \/ AnswerError(i) \/ NoteStored(i) \/ NoteFailed(i)
      PROVE  KeepInv' /\ \A j \in DOMAIN sends : ~StoredNow(j)
  <2>1. KeepInv' /\ sends'[i].state = "done" /\ \A j \in DOMAIN sends \ {i} : sends'[j] = sends[j]
    BY <1>8, AnswerKeeps
  <2> QED BY <2>1 DEF StoredNow
<1>9. CASE AskDelete \/ CancelDelete \/ CardGone
  BY <1>1, <1>9, CardKeeps
<1>10. CASE OtherTab
  BY <1>1, <1>10, OtherTabKeeps
<1> QED BY <1>2, <1>3, <1>4, <1>5, <1>6, <1>7, <1>8, <1>9, <1>10 DEF FormsNext, InForm, InNote

\* What a save leaves alone stays as the row at the server has it at that
\* moment, whatever another tab wrote since the form was opened: the half of
\* SavesExactlyTheChange about the boxes its user did not change.
OthersKept(i) ==
    StoredNow(i) /\ sends[i].form # 0 =>
      \A f \in DOMAIN sends[i].shown : Told(sends[i], f) \/ Kept(f, row, sends'[i].result)
RestIsKept == [][\A i \in DOMAIN sends : OthersKept(i)]_formsVars

\* It holds whatever the boxes show: a save that is stored was served in that
\* step, and the body names no column of a box left alone.
THEOREM OthersAreKept == FormsSpec => RestIsKept
<1>1. ASSUME KeepInv, FormsInv, FormsNext PROVE \A i \in DOMAIN sends : OthersKept(i)
  <2>1. CASE \A i \in DOMAIN sends : ~StoredNow(i)
    BY <2>1 DEF OthersKept
  <2>2. ASSUME NEW n \in DOMAIN sends, Serve(n) PROVE \A i \in DOMAIN sends : OthersKept(i)
    <3>1. /\ \A j \in DOMAIN sends \ {n} : sends'[j] = sends[j]
          /\ sends'[n].state = "stored" /\ sends[n].edit = TRUE => sends'[n].result = Patched(row, sends[n].body)
      BY <1>1, <2>2, ServeKeeps
    <3>2. \A j \in DOMAIN sends \ {n} : OthersKept(j)
      BY <3>1 DEF OthersKept, StoredNow
    <3>3. ASSUME StoredNow(n), sends[n].form # 0, NEW f \in DOMAIN sends[n].shown, ~Told(sends[n], f)
          PROVE  Kept(f, row, sends'[n].result)
      <4>1. sends[n].edit = TRUE
        BY <3>3 DEF Told
      <4>2. /\ sends[n].state = "sent" /\ sends'[n].state = "stored"
        BY <3>3 DEF StoredNow
      <4>3. /\ kind \in {"trade", "account", "note"} /\ RowTyped(kind, row) /\ Carries(kind, sends[n])
        BY <1>1 DEF KeepInv
      <4>4. Kept(f, row, Patched(row, sends[n].body))
        BY <3>3, <4>1, <4>2, <4>3, ServerKeepsRest
      <4> QED BY <3>1, <4>1, <4>2, <4>4
    <3>4. OthersKept(n)
      BY <3>3 DEF OthersKept
    <3> QED BY <3>2, <3>4
  <2>3. [FormsNext]_formsVars
    BY <1>1
  <2> QED BY <1>1, <2>1, <2>2, <2>3, KeepStep DEF ServesOne
<1>2. ASSUME KeepInv, FormsInv, [FormsNext]_formsVars
      PROVE  KeepInv' /\ FormsInv' /\ [\A i \in DOMAIN sends : OthersKept(i)]_formsVars
  <2>1. KeepInv' /\ FormsInv'
    BY <1>2, KeepStep, FormsStep
  <2> QED BY <1>1, <1>2, <2>1
<1>3. FormsInit => KeepInv /\ FormsInv
  BY KeepStart, FormsStart
<1>4. FormsSpec => [][\A i \in DOMAIN sends : OthersKept(i)]_formsVars
  BY <1>2, <1>3, PTL DEF FormsSpec
<1> QED BY <1>4 DEF RestIsKept
=============================================================================
