------------------------------ MODULE Sessions ------------------------------
(***************************************************************************)
(* Web sessions: internal/service/session (Issue, Refresh, Revoke,         *)
(* RevokeForUser), the sessions table, and the cookies of the browsers     *)
(* that internal/rest/auth.go sets and clears.                             *)
(*                                                                         *)
(* Refresh is three statements, each its own transaction: read the row by  *)
(* the token's hash, revoke it, insert the next one. Tabs of a browser     *)
(* share its cookies but not their requests: a request carries the cookies *)
(* of the moment it was sent, and answers come back in any order.          *)
(***************************************************************************)
EXTENDS Naturals

CONSTANTS
    User,
    Browser,
    Thread,      \* goroutines that can be serving a request at one time
    Token,       \* refresh tokens there can be; one is also its row's id
    NoToken,     \* no cookie, or no parent
    AccessLen,   \* JWTWebAccessDuration, in ticks
    RefreshLen,  \* SessionRefreshDuration, in ticks
    Faults,      \* what may go wrong: a subset of {"db", "answer"}
    MaxClock     \* bound: last tick of the clock

ASSUME NoTokenAssumption == NoToken \notin Token
ASSUME LengthsAssumption == AccessLen \in Nat /\ RefreshLen \in Nat
ASSUME SessionBoundsAssumption == Faults \subseteq {"db", "answer"} /\ MaxClock \in Nat

VARIABLES
    sessions,  \* the sessions table: a row for each token handed out
    thr,       \* thr[t]: where goroutine t is, with its locals
    jar,       \* jar[b]: the refresh_token and access_token cookies of browser b
    now,       \* the clock; 0 is "never", stored as NULL
    \* For the properties only:
    signedIn,  \* signedIn[b]: users who ever signed in at browser b
    killed     \* tokens whose logout, or revocation by their user, is done

vars == <<sessions, thr, jar, now, signedIn, killed>>

Never == 0
Idle  == [pc |-> "idle"]

\* Row of token k; from, the token it replaced, is not a column.
Session == [user : User, expires : Nat, revoked : Nat, from : Token \cup {NoToken}]
NoRow   == [user |-> NoToken]

\* An access token is a signed user and expiry; expiry Never is no cookie.
Access   == [user : User, expires : Nat]
NoAccess == [expires |-> Never]
Cookies  == [refresh : Token, access : Access]
            \cup {[refresh |-> NoToken, access |-> NoAccess]}
Cleared  == [refresh |-> NoToken, access |-> NoAccess]

Local ==
    {Idle}
    \cup [pc : {"lookup"}, browser : Browser, token : Token]
    \cup [pc : {"revoke"}, browser : Browser, token : Token, user : User]
    \cup [pc : {"issue"}, browser : Browser, user : User,
          from : Token \cup {NoToken}, access : Nat]
    \cup [pc : {"logout"}, browser : Browser, token : Token \cup {NoToken}]
    \cup [pc : {"kill"}, user : User, token : Token]
    \cup [pc : {"respond"}, browser : Browser, cookies : Cookies]

TypeOK ==
    /\ sessions \in [Token -> Session \cup {NoRow}]
    /\ thr \in [Thread -> Local]
    /\ jar \in [Browser -> Cookies]
    /\ now \in Nat \ {0}
    /\ signedIn \in [Browser -> SUBSET User]
    /\ killed \subseteq Token

Init ==
    /\ sessions = [k \in Token |-> NoRow]
    /\ thr = [t \in Thread |-> Idle]
    /\ jar = [b \in Browser |-> Cleared]
    /\ now = 1
    /\ signedIn = [b \in Browser |-> {}]
    /\ killed = {}

-----------------------------------------------------------------------------
(* Statements on the sessions table.                                       *)

Exists(k) == sessions[k] # NoRow

\* Refresh's test of a row it read: usable up to and including expires_at.
Live(k) == sessions[k].revoked = Never /\ now <= sessions[k].expires

RevokeRow(k) == sessions' = [sessions EXCEPT ![k].revoked = now]

Start(t, local) == thr[t] = Idle /\ thr' = [thr EXCEPT ![t] = local]
Goto(t, local)  == thr' = [thr EXCEPT ![t] = local]
Return(t)       == thr' = [thr EXCEPT ![t] = Idle]

Reply(b, cookies) == [pc |-> "respond", browser |-> b, cookies |-> cookies]

\* Issue, first half: the access token is made before the row is stored.
Generate(b, u, from) ==
    [pc |-> "issue", browser |-> b, user |-> u, from |-> from,
     access |-> now + AccessLen]

-----------------------------------------------------------------------------
(* Signing in, and Issue.                                                  *)

SignIn(t, b, u) ==
    /\ Start(t, Generate(b, u, NoToken))
    /\ signedIn' = [signedIn EXCEPT ![b] = @ \cup {u}]
    /\ UNCHANGED <<sessions, jar, now, killed>>

\* Issue, second half: a fresh random token, its row, and both cookies.
Issue(t) ==
    /\ thr[t].pc = "issue"
    /\ \E k \in Token :
        /\ ~Exists(k)
        /\ sessions' = [sessions EXCEPT ![k] =
               [user |-> thr[t].user, expires |-> now + RefreshLen, revoked |-> Never,
                from |-> thr[t].from]]
        /\ Goto(t, Reply(thr[t].browser,
               [refresh |-> k, access |-> [user |-> thr[t].user,
                                           expires |-> thr[t].access]]))
    /\ UNCHANGED <<jar, now, signedIn, killed>>

-----------------------------------------------------------------------------
(* Refresh.                                                                *)

Refresh(t, b) ==
    /\ jar[b].refresh # NoToken
    /\ Start(t, [pc |-> "lookup", browser |-> b, token |-> jar[b].refresh])
    /\ UNCHANGED <<sessions, jar, now, signedIn, killed>>

\* Slip: the revocation is not looked at.
LookUpExpiryOnly(t) ==
    /\ thr[t].pc = "lookup"
    /\ now <= sessions[thr[t].token].expires
    /\ Goto(t, [pc |-> "revoke", browser |-> thr[t].browser, token |-> thr[t].token,
                user |-> sessions[thr[t].token].user])
    /\ UNCHANGED <<sessions, jar, now, signedIn, killed>>

LookUp(t) ==
    /\ thr[t].pc = "lookup"
    /\ Live(thr[t].token)
    /\ Goto(t, [pc |-> "revoke", browser |-> thr[t].browser, token |-> thr[t].token,
                user |-> sessions[thr[t].token].user])
    /\ UNCHANGED <<sessions, jar, now, signedIn, killed>>

\* Slip: the cookies of a refused refresh are kept.
RefuseKeepsCookies(t) ==
    /\ thr[t].pc = "lookup"
    /\ ~Live(thr[t].token)
    /\ Return(t)
    /\ UNCHANGED <<sessions, jar, now, signedIn, killed>>

\* Slip: only the refresh cookie is cleared.
RefuseClearsOne(t) ==
    /\ thr[t].pc = "lookup"
    /\ ~Live(thr[t].token)
    /\ Goto(t, Reply(thr[t].browser,
               [jar[thr[t].browser] EXCEPT !.refresh = NoToken]))
    /\ UNCHANGED <<sessions, jar, now, signedIn, killed>>

\* ErrInvalidRefreshToken: the answer clears the cookies.
Refuse(t) ==
    /\ thr[t].pc = "lookup"
    /\ ~Live(thr[t].token)
    /\ Goto(t, Reply(thr[t].browser, Cleared))
    /\ UNCHANGED <<sessions, jar, now, signedIn, killed>>

\* Slip: the next session is stored without revoking this one.
RevokeOldForgotten(t) ==
    /\ thr[t].pc = "revoke"
    /\ Goto(t, Generate(thr[t].browser, thr[t].user, thr[t].token))
    /\ UNCHANGED <<sessions, jar, now, signedIn, killed>>

RevokeOld(t) ==
    /\ thr[t].pc = "revoke"
    /\ RevokeRow(thr[t].token)
    /\ Goto(t, Generate(thr[t].browser, thr[t].user, thr[t].token))
    /\ UNCHANGED <<jar, now, signedIn, killed>>

-----------------------------------------------------------------------------
(* Logging out, and revoking a session from the list of active ones.       *)

Logout(t, b) ==
    /\ Start(t, [pc |-> "logout", browser |-> b, token |-> jar[b].refresh])
    /\ UNCHANGED <<sessions, jar, now, signedIn, killed>>

\* The error of Revoke is dropped: the cookies are cleared in any case.
Revoke(t) ==
    /\ thr[t].pc = "logout"
    /\ Goto(t, Reply(thr[t].browser, Cleared))
    /\ \/ /\ thr[t].token \in Token
          /\ RevokeRow(thr[t].token)
          /\ killed' = killed \cup {thr[t].token}
       \/ /\ thr[t].token = NoToken \/ "db" \in Faults
          /\ UNCHANGED <<sessions, killed>>
    /\ UNCHANGED <<jar, now, signedIn>>

\* withAuth, then revokeSession with an id the user saw listed some time.
RevokeSession(t, b, k) ==
    /\ now < jar[b].access.expires
    /\ Exists(k)
    /\ Start(t, [pc |-> "kill", user |-> jar[b].access.user, token |-> k])
    /\ UNCHANGED <<sessions, jar, now, signedIn, killed>>

\* Slip: the row is not checked to be the user's own.
RevokeAnyone(t) ==
    /\ thr[t].pc = "kill"
    /\ LET k == thr[t].token
       IN  IF sessions[k].revoked = Never
           THEN RevokeRow(k) /\ killed' = killed \cup {k}
           ELSE UNCHANGED <<sessions, killed>>
    /\ Return(t)
    /\ UNCHANGED <<jar, now, signedIn>>

\* One statement: the row must be the user's own and not yet revoked.
RevokeForUser(t) ==
    /\ thr[t].pc = "kill"
    /\ LET k == thr[t].token
       IN  IF sessions[k].user = thr[t].user /\ sessions[k].revoked = Never
           THEN RevokeRow(k) /\ killed' = killed \cup {k}
           ELSE UNCHANGED <<sessions, killed>>
    /\ Return(t)
    /\ UNCHANGED <<jar, now, signedIn>>

-----------------------------------------------------------------------------
(* Answers, failures and the clock.                                        *)

\* Slip: the refresh cookie is set and the access cookie left as it was.
RespondRefreshOnly(t) ==
    /\ thr[t].pc = "respond"
    /\ jar' = [jar EXCEPT ![thr[t].browser] =
                  IF thr[t].cookies = Cleared \/ @ = Cleared THEN thr[t].cookies
                  ELSE [@ EXCEPT !.refresh = thr[t].cookies.refresh]]
    /\ Return(t)
    /\ UNCHANGED <<sessions, now, signedIn, killed>>

\* setCookies and clearCookies write both cookies in one answer.
Respond(t) ==
    /\ thr[t].pc = "respond"
    /\ jar' = [jar EXCEPT ![thr[t].browser] = thr[t].cookies]
    /\ Return(t)
    /\ UNCHANGED <<sessions, now, signedIn, killed>>

\* A statement fails and the handler answers 500; or the answer is lost;
\* or the server restarts. The cookies stay as they are.
Fail(t) ==
    /\ \/ "db" \in Faults /\ thr[t].pc \in {"lookup", "revoke", "issue", "kill"}
       \/ "answer" \in Faults /\ thr[t].pc # "idle"
    /\ Return(t)
    /\ UNCHANGED <<sessions, jar, now, signedIn, killed>>

Tick ==
    /\ now < MaxClock
    /\ now' = now + 1
    /\ UNCHANGED <<sessions, thr, jar, signedIn, killed>>

-----------------------------------------------------------------------------

\* The next step of a goroutine that is serving a request.
Step(t) ==
    \/ Issue(t)
    \/ LookUp(t) \/ Refuse(t) \/ RevokeOld(t)
    \/ Revoke(t) \/ RevokeForUser(t)
    \/ Respond(t)
    \/ Fail(t)

Request(t, b) ==
    \/ \E u \in User : SignIn(t, b, u)
    \/ Refresh(t, b)
    \/ Logout(t, b)
    \/ \E k \in Token : RevokeSession(t, b, k)

Next ==
    \/ \E t \in Thread : Step(t) \/ \E b \in Browser : Request(t, b)
    \/ Tick

Spec == Init /\ [][Next]_vars

\* The server runs every goroutine on; browsers and the clock owe nothing.
FairSpec == Spec /\ \A t \in Thread : WF_vars(Step(t))

-----------------------------------------------------------------------------
(* Safety.                                                                 *)

Children(k) == {c \in Token : Exists(c) /\ sessions[c].from = k}

\* Rotation never leaves the old cookie usable beside the new one, wherever
\* Refresh fails or the server restarts between its statements, and the new
\* session belongs to the user of the old.
OldTokenRevoked ==
    \A k \in Token : \A c \in Children(k) :
        /\ Exists(k)
        /\ sessions[k].revoked # Never
        /\ sessions[c].user = sessions[k].user

\* The two cookies of a browser name the same user, one who signed in there,
\* in whatever order the answers to sign-ins, refreshes and logouts of
\* several users arrive (setCookies, clearCookies).
CookiesAgree ==
    \A b \in Browser : jar[b] # Cleared =>
        /\ Exists(jar[b].refresh)
        /\ sessions[jar[b].refresh].user = jar[b].access.user
        /\ jar[b].access.user \in signedIn[b]

\* Revoked or expired, and in no Refresh that read it before.
Finished(k) ==
    /\ Exists(k) /\ ~Live(k)
    /\ \A t \in Thread :
          /\ thr[t].pc = "revoke" => thr[t].token # k
          /\ thr[t].pc = "issue"  => thr[t].from # k

\* Once a session is over and no Refresh that saw it alive is still running,
\* nothing ever comes of its token again, whoever presents it.
FinishedForGood ==
    [][\A k \in Token : Finished(k) => Finished(k)' /\ Children(k)' = Children(k)]_vars

\* A usable session is revoked only on behalf of its own user: by a request
\* that carries its token, or from that user's list (RevokeForUser).
EndedByOwner ==
    [][\A k \in Token :
          Exists(k) /\ sessions[k].revoked = Never /\ sessions'[k].revoked # Never
              => \E t \in Thread :
                    /\ thr[t].pc \in {"revoke", "logout", "kill"} /\ thr[t].token = k
                    /\ thr[t].pc = "kill" => thr[t].user = sessions[k].user]_vars

-----------------------------------------------------------------------------
(* What a comment in the code claims, and the code does not do.            *)

\* "this actually invalidates the session - the refresh token stops working
\* immediately" (Revoke): no session comes of a token after its logout.
LogoutIsFinal == [][\A k \in killed : Children(k)' \subseteq Children(k)]_vars

-----------------------------------------------------------------------------
(* Liveness.                                                               *)

\* A browser that presents a token already revoked or expired loses it, and
\* so is asked to sign in instead of presenting it for ever.
DeadTokenDropped ==
    \A b \in Browser, k \in Token :
        (\E t \in Thread : /\ thr[t].pc = "lookup" /\ thr[t].token = k
                           /\ thr[t].browser = b /\ ~Live(k))
            ~> jar[b].refresh # k

=============================================================================
