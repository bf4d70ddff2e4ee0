--------------------------- MODULE SessionsProofs ---------------------------
(***************************************************************************)
(* Proofs about Sessions, for any users, browsers, goroutines and tokens,  *)
(* every pair of lifetimes, and every choice of faults.                    *)
(***************************************************************************)
EXTENDS Sessions, TLAPS

-----------------------------------------------------------------------------
(* Rows, cookies, and what a goroutine's locals hold.                      *)

LEMMA NoRowIsNoSession == NoRow \notin Session
BY DEF NoRow, Session

LEMMA RowTyped ==
    ASSUME TypeOK, NEW k \in Token, Exists(k)
    PROVE  /\ sessions[k] \in Session
           /\ sessions[k].user \in User /\ sessions[k].expires \in Nat
           /\ sessions[k].revoked \in Nat
           /\ sessions[k].from \in Token \cup {NoToken}
BY DEF TypeOK, Exists, Session

LEMMA CookiesTyped ==
    ASSUME NEW c \in Cookies, c # Cleared
    PROVE  /\ c = [refresh |-> c.refresh, access |-> c.access]
           /\ c.refresh \in Token /\ c.access \in Access
           /\ c.access.user \in User /\ c.access.expires \in Nat
BY DEF Cookies, Cleared, Access

LEMMA LocalFields ==
    ASSUME NEW l \in Local
    PROVE  /\ l.pc \in {"idle", "lookup", "revoke", "issue", "logout", "kill", "respond"}
           /\ l.pc = "lookup" => l.browser \in Browser /\ l.token \in Token
           /\ l.pc = "revoke" => l.browser \in Browser /\ l.token \in Token /\ l.user \in User
           /\ l.pc = "issue"  => /\ l.browser \in Browser /\ l.user \in User
                                 /\ l.from \in Token \cup {NoToken} /\ l.access \in Nat
           /\ l.pc = "logout" => l.browser \in Browser /\ l.token \in Token \cup {NoToken}
           /\ l.pc = "kill"   => l.user \in User /\ l.token \in Token
           /\ l.pc = "respond" => l.browser \in Browser /\ l.cookies \in Cookies
<1>1. CASE l = Idle
  BY <1>1 DEF Idle
<1>2. CASE l \in [pc : {"lookup"}, browser : Browser, token : Token]
  BY <1>2
<1>3. CASE l \in [pc : {"revoke"}, browser : Browser, token : Token, user : User]
  BY <1>3
<1>4. CASE l \in [pc : {"issue"}, browser : Browser, user : User,
                  from : Token \cup {NoToken}, access : Nat]
  BY <1>4
<1>5. CASE l \in [pc : {"logout"}, browser : Browser, token : Token \cup {NoToken}]
  BY <1>5
<1>6. CASE l \in [pc : {"kill"}, user : User, token : Token]
  BY <1>6
<1>7. CASE l \in [pc : {"respond"}, browser : Browser, cookies : Cookies]
  BY <1>7
<1>8. QED
  BY <1>1, <1>2, <1>3, <1>4, <1>5, <1>6, <1>7 DEF Local

LEMMA IdleLocal == Idle \in Local
BY DEF Local

LEMMA ClearedTyped == Cleared \in Cookies /\ Cleared.refresh = NoToken
BY DEF Cleared, Cookies

LEMMA GenerateTyped ==
    ASSUME now \in Nat, NEW b \in Browser, NEW u \in User,
           NEW from \in Token \cup {NoToken}
    PROVE  Generate(b, u, from) \in Local
BY LengthsAssumption DEF Generate, Local

LEMMA ReplyTyped ==
    ASSUME NEW b \in Browser, NEW c \in Cookies
    PROVE  Reply(b, c) \in Local
BY DEF Reply, Local

LEMMA RevokeTyped ==
    ASSUME TypeOK, NEW k \in Token, Exists(k), RevokeRow(k)
    PROVE  /\ sessions' \in [Token -> Session \cup {NoRow}]
           /\ sessions'[k] = [user |-> sessions[k].user, expires |-> sessions[k].expires,
                              revoked |-> now, from |-> sessions[k].from]
           /\ \A j \in Token \ {k} : sessions'[j] = sessions[j]
<1>1. now \in Nat /\ sessions \in [Token -> Session \cup {NoRow}]
  BY DEF TypeOK
<1>2. sessions[k] \in Session
  BY RowTyped
<1>3. [sessions[k] EXCEPT !.revoked = now]
        = [user |-> sessions[k].user, expires |-> sessions[k].expires,
           revoked |-> now, from |-> sessions[k].from]
  BY <1>2 DEF Session
<1>4. sessions'[k] = [sessions[k] EXCEPT !.revoked = now]
      /\ \A j \in Token \ {k} : sessions'[j] = sessions[j]
  BY <1>1 DEF RevokeRow
<1>5. [sessions[k] EXCEPT !.revoked = now] \in Session
  BY <1>1, <1>2 DEF Session
<1>6. QED
  BY <1>1, <1>3, <1>4, <1>5 DEF RevokeRow

-----------------------------------------------------------------------------
(* The invariant. A row's user, parent and expiry never change, a         *)
(* revoked row stays revoked, and what goroutines and cookies say of a row *)
(* is therefore still true when it is used.                                *)

\* What Issue is told of the token it replaces.
Replaces(from, u) ==
    from # NoToken => /\ Exists(from) /\ sessions[from].revoked # Never
                      /\ sessions[from].user = u

RowInv(k) ==
    Exists(k) => /\ Replaces(sessions[k].from, sessions[k].user)

\* Token k is one that user u, who signed in at b, was given.
GivenTo(k, b, u) == Exists(k) /\ sessions[k].user = u /\ u \in signedIn[b]

Given(b, c) == c # Cleared => GivenTo(c.refresh, b, c.access.user)

LocalInv(l) ==
    /\ l.pc = "lookup" => GivenTo(l.token, l.browser, sessions[l.token].user)
    /\ l.pc = "revoke" => GivenTo(l.token, l.browser, l.user)
    /\ l.pc = "issue"  => /\ l.user \in signedIn[l.browser]
                          /\ Replaces(l.from, l.user)
    /\ l.pc = "logout" /\ l.token # NoToken => Exists(l.token)
    /\ l.pc = "kill"   => Exists(l.token)
    /\ l.pc = "respond" => Given(l.browser, l.cookies)

Inv ==
    /\ TypeOK
    /\ \A k \in Token : RowInv(k)
    /\ \A b \in Browser : Given(b, jar[b])
    /\ \A t \in Thread : LocalInv(thr[t])

\* What no step takes back.
Later ==
    /\ \A k \in Token : Exists(k) =>
          /\ Exists(k)'
          /\ sessions'[k].user = sessions[k].user
          /\ sessions'[k].from = sessions[k].from
          /\ sessions'[k].expires = sessions[k].expires
          /\ sessions[k].revoked # Never => sessions'[k].revoked # Never
    /\ \A b \in Browser : signedIn[b] \subseteq signedIn'[b]
    /\ now \in Nat /\ now' \in Nat /\ now <= now'

LEMMA InvInit == Init => Inv
<1> SUFFICES ASSUME Init PROVE Inv
  OBVIOUS
<1>1. TypeOK
  BY ClearedTyped, IdleLocal DEF Init, TypeOK
<1>2. ASSUME NEW k \in Token PROVE RowInv(k)
  BY DEF Init, RowInv, Exists
<1>3. ASSUME NEW b \in Browser PROVE Given(b, jar[b])
  BY DEF Init, Given
<1>4. ASSUME NEW t \in Thread PROVE LocalInv(thr[t])
  BY DEF Init, LocalInv, Idle
<1>5. QED
  BY <1>1, <1>2, <1>3, <1>4 DEF Inv

LEMMA GivenKept ==
    ASSUME Later, NEW b \in Browser, NEW k \in Token, NEW u, GivenTo(k, b, u)
    PROVE  GivenTo(k, b, u)'
BY DEF Later, GivenTo

LEMMA CookiesKept ==
    ASSUME Later, NEW b \in Browser, NEW c \in Cookies, Given(b, c)
    PROVE  Given(b, c)'
BY CookiesTyped, GivenKept DEF Given

LEMMA ReplacesKept ==
    ASSUME Later, NEW from \in Token \cup {NoToken}, NEW u, Replaces(from, u)
    PROVE  Replaces(from, u)'
BY DEF Later, Replaces

LEMMA LocalKept ==
    ASSUME Later, NEW l \in Local, LocalInv(l)
    PROVE  LocalInv(l)'
<1>1. l.pc = "lookup" => Exists(l.token)'
                         /\ sessions'[l.token].user \in signedIn'[l.browser]
  BY LocalFields DEF LocalInv, Later, GivenTo
<1>2. l.pc = "revoke" => GivenTo(l.token, l.browser, l.user)'
  BY LocalFields, GivenKept DEF LocalInv
<1>3. l.pc = "issue" => /\ l.user \in signedIn'[l.browser]
                        /\ Replaces(l.from, l.user)'
  BY LocalFields, ReplacesKept, LengthsAssumption DEF LocalInv, Later
<1>4. /\ l.pc = "logout" /\ l.token # NoToken => Exists(l.token)'
      /\ l.pc = "kill" => Exists(l.token)'
  BY LocalFields DEF LocalInv, Later
<1>5. l.pc = "respond" => Given(l.browser, l.cookies)'
  BY LocalFields, CookiesKept DEF LocalInv
<1>6. QED
  BY <1>1, <1>2, <1>3, <1>4, <1>5 DEF LocalInv, GivenTo

\* A row a step leaves as it was stays sound.
LEMMA RowKept ==
    ASSUME TypeOK, Later, NEW k \in Token, RowInv(k), sessions'[k] = sessions[k]
    PROVE  RowInv(k)'
<1>1. ASSUME Exists(k) PROVE RowInv(k)'
  <2>1. Replaces(sessions[k].from, sessions[k].user)'
    <3>1. Replaces(sessions[k].from, sessions[k].user) => 
            /\ \A f, u : f = sessions[k].from /\ u = sessions[k].user =>
                 Replaces(f, u)'
      BY <1>1, RowTyped, ReplacesKept
    <3>2. QED
      BY <1>1, <3>1, RowTyped, LengthsAssumption DEF RowInv, Later
  <2>2. QED
    BY <2>1 DEF RowInv, Replaces
<1>2. ASSUME ~Exists(k) PROVE RowInv(k)'
  BY <1>2 DEF RowInv, Exists
<1>3. QED
  BY <1>1, <1>2

\* Assembling Inv' from what one goroutine's step wrote.
LEMMA InvFrom ==
    ASSUME Inv, TypeOK', Later, \A k \in Token : RowInv(k)',
           \A b \in Browser : Given(b, jar[b])',
           NEW t \in Thread, NEW l, thr' = [thr EXCEPT ![t] = l], LocalInv(l)'
    PROVE  Inv'
<1>1. ASSUME NEW s \in Thread PROVE LocalInv(thr[s])'
  <2>1. CASE s = t
    <3>1. thr'[s] = l
      BY <2>1 DEF Inv, TypeOK
    <3>2. QED
      BY <3>1 DEF LocalInv
  <2>2. CASE s # t
    <3>1. thr'[s] = thr[s] /\ thr[s] \in Local /\ LocalInv(thr[s])
      BY <2>2 DEF Inv, TypeOK
    <3>2. PICK m : m = thr[s]
      OBVIOUS
    <3>3. LocalInv(m)'
      BY <3>1, <3>2, LocalKept
    <3>4. QED
      BY <3>1, <3>2, <3>3 DEF LocalInv
  <2>3. QED
    BY <2>1, <2>2
<1>2. QED
  BY <1>1 DEF Inv

\* Nothing but a goroutine's locals, and the history, has changed.
LEMMA QuietLater ==
    ASSUME TypeOK, sessions' = sessions, now' = now,
           \A b \in Browser : signedIn[b] \subseteq signedIn'[b]
    PROVE  Later
BY DEF TypeOK, Later, Exists

LEMMA RowsKept ==
    ASSUME Inv, Later, sessions' = sessions
    PROVE  \A k \in Token : RowInv(k)'
BY RowKept DEF Inv

LEMMA JarKept ==
    ASSUME Inv, Later, jar' = jar
    PROVE  \A b \in Browser : Given(b, jar[b])'
<1> TAKE b \in Browser
<1>1. PICK c : c = jar[b]
  OBVIOUS
<1>2. c \in Cookies /\ Given(b, c) /\ jar'[b] = c
  BY <1>1 DEF Inv, TypeOK
<1>3. Given(b, c)'
  BY <1>2, CookiesKept
<1>4. QED
  BY <1>2, <1>3 DEF Given

\* A revocation, whoever asked for it.
LEMMA RevokeInv ==
    ASSUME Inv, NEW k \in Token, Exists(k), RevokeRow(k), now' = now,
           signedIn' = signedIn
    PROVE  /\ sessions' \in [Token -> Session \cup {NoRow}]
           /\ Later
           /\ \A j \in Token : RowInv(j)'
           /\ sessions'[k].revoked # Never
<1>0. TypeOK /\ RowInv(k) /\ now \in Nat \ {0}
  BY DEF Inv, TypeOK
<1>1. /\ sessions' \in [Token -> Session \cup {NoRow}]
      /\ sessions'[k] = [user |-> sessions[k].user, expires |-> sessions[k].expires,
                         revoked |-> now, from |-> sessions[k].from]
      /\ \A j \in Token \ {k} : sessions'[j] = sessions[j]
  BY <1>0, RevokeTyped
<1>2. sessions'[k] \in Session
  BY <1>0, <1>1, RowTyped DEF Session
<1>3. Exists(k)'
  BY <1>2, NoRowIsNoSession DEF Exists
<1>4. Later
  BY <1>0, <1>1, <1>3 DEF Later, Exists, Never
<1>5. RowInv(k)'
  <2>1. PICK f, u : f = sessions[k].from /\ u = sessions[k].user
    OBVIOUS
  <2>2. f \in Token \cup {NoToken} /\ Replaces(f, u)
    BY <1>0, <2>1, RowTyped DEF RowInv
  <2>3. Replaces(f, u)'
    BY <1>4, <2>2, ReplacesKept
  <2>4. QED
    BY <1>0, <1>1, <2>1, <2>3 DEF RowInv, Replaces
<1>6. ASSUME NEW j \in Token, j # k PROVE RowInv(j)'
  BY <1>0, <1>1, <1>4, <1>6, RowKept DEF Inv
<1>7. QED
  BY <1>0, <1>1, <1>4, <1>5, <1>6 DEF Never

-----------------------------------------------------------------------------
(* Every step preserves the invariant.                                     *)

LEMMA RequestInv ==
    ASSUME Inv, NEW t \in Thread, NEW b \in Browser, Request(t, b)
    PROVE  Inv'
<1>0. /\ TypeOK /\ now \in Nat \ {0} /\ jar[b] \in Cookies /\ Given(b, jar[b])
      /\ thr \in [Thread -> Local]
  BY DEF Inv, TypeOK
<1>1. ASSUME NEW l \in Local, LocalInv(l)', thr' = [thr EXCEPT ![t] = l],
             sessions' = sessions, jar' = jar, now' = now, killed' = killed,
             signedIn' \in [Browser -> SUBSET User],
             \A c \in Browser : signedIn[c] \subseteq signedIn'[c]
      PROVE  Inv'
  <2>1. TypeOK'
    BY <1>0, <1>1 DEF TypeOK
  <2>2. Later
    BY <1>0, <1>1, QuietLater
  <2>3. QED
    BY <1>1, <2>1, <2>2, RowsKept, JarKept, InvFrom
<1>2. ASSUME NEW u \in User, SignIn(t, b, u) PROVE Inv'
  <2>1. PICK l : l = Generate(b, u, NoToken)
    OBVIOUS
  <2>2. l \in Local
    BY <1>0, <2>1, GenerateTyped
  <2>3. /\ thr' = [thr EXCEPT ![t] = l] /\ sessions' = sessions /\ jar' = jar
        /\ now' = now /\ killed' = killed
        /\ signedIn' = [signedIn EXCEPT ![b] = @ \cup {u}]
    BY <1>2, <2>1 DEF SignIn, Start
  <2>4. /\ signedIn' \in [Browser -> SUBSET User] /\ u \in signedIn'[b]
        /\ \A c \in Browser : signedIn[c] \subseteq signedIn'[c]
    BY <1>0, <2>3 DEF TypeOK
  <2>5. LocalInv(l)'
    BY <1>0, <2>1, <2>3, <2>4, LengthsAssumption DEF LocalInv, Generate, Replaces
  <2>6. QED
    BY <1>1, <2>2, <2>3, <2>4, <2>5
<1>3. CASE Refresh(t, b)
  <2>1. PICK l : l = [pc |-> "lookup", browser |-> b, token |-> jar[b].refresh]
    OBVIOUS
  <2>2. jar[b] # Cleared /\ jar[b].refresh \in Token
    BY <1>0, <1>3, CookiesTyped, ClearedTyped DEF Refresh
  <2>3. l \in Local
    BY <2>1, <2>2 DEF Local
  <2>4. GivenTo(jar[b].refresh, b, jar[b].access.user)
    BY <1>0, <2>2 DEF Given
  <2>5. /\ thr' = [thr EXCEPT ![t] = l] /\ sessions' = sessions /\ jar' = jar
        /\ now' = now /\ killed' = killed /\ signedIn' = signedIn
    BY <1>3, <2>1 DEF Refresh, Start
  <2>6. LocalInv(l)'
    BY <2>1, <2>4, <2>5 DEF LocalInv, GivenTo, Exists
  <2>7. QED
    BY <1>0, <1>1, <2>3, <2>5, <2>6 DEF TypeOK
<1>4. CASE Logout(t, b)
  <2>1. PICK l : l = [pc |-> "logout", browser |-> b, token |-> jar[b].refresh]
    OBVIOUS
  <2>2. /\ jar[b].refresh \in Token \cup {NoToken}
        /\ jar[b].refresh # NoToken => Exists(jar[b].refresh)
    BY <1>0, CookiesTyped, ClearedTyped DEF Given, GivenTo
  <2>3. l \in Local
    BY <2>1, <2>2 DEF Local
  <2>4. /\ thr' = [thr EXCEPT ![t] = l] /\ sessions' = sessions /\ jar' = jar
        /\ now' = now /\ killed' = killed /\ signedIn' = signedIn
    BY <1>4, <2>1 DEF Logout, Start
  <2>5. LocalInv(l)'
    BY <2>1, <2>2, <2>4 DEF LocalInv, Exists
  <2>6. QED
    BY <1>0, <1>1, <2>3, <2>4, <2>5 DEF TypeOK
<1>5. ASSUME NEW k \in Token, RevokeSession(t, b, k) PROVE Inv'
  <2>1. PICK l : l = [pc |-> "kill", user |-> jar[b].access.user, token |-> k]
    OBVIOUS
  <2>2. jar[b] # Cleared
    BY <1>0, <1>5 DEF RevokeSession, Cleared, NoAccess, Never
  <2>3. l \in Local
    BY <1>0, <2>1, <2>2, CookiesTyped DEF Local
  <2>4. /\ thr' = [thr EXCEPT ![t] = l] /\ sessions' = sessions /\ jar' = jar
        /\ now' = now /\ killed' = killed /\ signedIn' = signedIn /\ Exists(k)
    BY <1>5, <2>1 DEF RevokeSession, Start
  <2>5. LocalInv(l)'
    BY <2>1, <2>4 DEF LocalInv, Exists
  <2>6. QED
    BY <1>0, <1>1, <2>3, <2>4, <2>5 DEF TypeOK
<1>6. QED
  BY <1>2, <1>3, <1>4, <1>5 DEF Request

\* A fresh row.
LEMMA IssueInv ==
    ASSUME Inv, NEW t \in Thread, Issue(t)
    PROVE  Inv'
<1>0. /\ TypeOK /\ now \in Nat \ {0} /\ thr[t] \in Local /\ LocalInv(thr[t])
      /\ thr[t].pc = "issue"
  BY DEF Inv, TypeOK, Issue
<1>a. PICK u, b, from, access :
        u = thr[t].user /\ b = thr[t].browser /\ from = thr[t].from /\ access = thr[t].access
  OBVIOUS
<1>1. /\ u \in User /\ b \in Browser /\ from \in Token \cup {NoToken} /\ access \in Nat
      /\ u \in signedIn[b] /\ Replaces(from, u)
  BY <1>0, <1>a, LocalFields DEF LocalInv
<1>2. PICK k \in Token :
        /\ ~Exists(k)
        /\ sessions' = [sessions EXCEPT ![k] =
               [user |-> u, expires |-> now + RefreshLen, revoked |-> Never,
                from |-> from]]
        /\ thr' = [thr EXCEPT ![t] = Reply(b, [refresh |-> k,
                       access |-> [user |-> u, expires |-> access]])]
  BY <1>a DEF Issue, Goto
<1>3. jar' = jar /\ now' = now /\ signedIn' = signedIn /\ killed' = killed
  BY DEF Issue
<1>4. PICK row : row = [user |-> u, expires |-> now + RefreshLen, revoked |-> Never,
                        from |-> from]
  OBVIOUS
<1>5. PICK c : c = [refresh |-> k, access |-> [user |-> u, expires |-> access]]
  OBVIOUS
<1>6. row \in Session /\ row # NoRow
  BY <1>0, <1>1, <1>4, LengthsAssumption, NoRowIsNoSession DEF Session, Never
<1>7. sessions'[k] = row /\ \A j \in Token \ {k} : sessions'[j] = sessions[j]
  BY <1>0, <1>2, <1>4 DEF TypeOK
<1>8. c \in Cookies
  BY <1>1, <1>5 DEF Cookies, Access
<1>9. Reply(b, c) \in Local
  BY <1>1, <1>8, ReplyTyped
<1>10. TypeOK'
  BY <1>0, <1>2, <1>3, <1>4, <1>5, <1>6, <1>9 DEF TypeOK
<1>11. Later
  BY <1>0, <1>2, <1>3, <1>7 DEF Later, Exists
<1>12. GivenTo(k, b, u)'
  BY <1>1, <1>3, <1>4, <1>6, <1>7 DEF GivenTo, Exists
<1>13. ASSUME NEW l, l = Reply(b, c) PROVE LocalInv(l)'
  <2>1. Given(b, c)'
    BY <1>5, <1>12 DEF Given
  <2>2. l.pc = "respond" /\ l.browser = b /\ l.cookies = c
    BY <1>13 DEF Reply
  <2>3. QED
    BY <2>1, <2>2 DEF LocalInv
<1>14. RowInv(k)'
  <2>1. PICK f, w : f = from /\ w = u
    OBVIOUS
  <2>2. Replaces(f, w)'
    BY <1>1, <1>11, <2>1, ReplacesKept
  <2>3. QED
    BY <1>1, <1>3, <1>4, <1>7, <2>1, <2>2 DEF RowInv, Replaces, Never
<1>15. ASSUME NEW j \in Token, j # k PROVE RowInv(j)'
  BY <1>0, <1>7, <1>11, <1>15, RowKept DEF Inv
<1>16. \A x \in Browser : Given(x, jar[x])'
  BY <1>3, <1>11, JarKept
<1>17. PICK l : l = Reply(b, c)
  OBVIOUS
<1>18. QED
  BY <1>2, <1>5, <1>10, <1>11, <1>13, <1>14, <1>15, <1>16, <1>17, InvFrom

LEMMA StepInv ==
    ASSUME Inv, NEW t \in Thread, Step(t)
    PROVE  Inv'
<1>0. /\ TypeOK /\ now \in Nat \ {0} /\ thr \in [Thread -> Local]
      /\ thr[t] \in Local /\ LocalInv(thr[t])
  BY DEF Inv, TypeOK
\* A step that changes the goroutine only.
<1>quiet. ASSUME NEW l \in Local, LocalInv(l)', thr' = [thr EXCEPT ![t] = l],
                 UNCHANGED <<sessions, jar, now, signedIn, killed>>
          PROVE  Inv'
  <2>1. TypeOK'
    BY <1>0, <1>quiet DEF TypeOK
  <2>2. Later
    BY <1>0, <1>quiet, QuietLater
  <2>3. QED
    BY <1>quiet, <2>1, <2>2, RowsKept, JarKept, InvFrom
\* A step that revokes a row.
<1>revoke. ASSUME NEW l \in Local, NEW k \in Token, Exists(k), RevokeRow(k),
                  Later => LocalInv(l)', thr' = [thr EXCEPT ![t] = l],
                  UNCHANGED <<jar, now, signedIn>>, killed' \subseteq Token
           PROVE  Inv'
  <2>1. /\ sessions' \in [Token -> Session \cup {NoRow}] /\ Later
        /\ \A j \in Token : RowInv(j)'
    BY <1>revoke, RevokeInv
  <2>2. TypeOK'
    BY <1>0, <1>revoke, <2>1 DEF TypeOK
  <2>3. QED
    BY <1>revoke, <2>1, <2>2, JarKept, InvFrom
<1>idle. Idle \in Local /\ LocalInv(Idle)'
  BY IdleLocal DEF LocalInv, Idle
<1>clear. ASSUME NEW b \in Browser, NEW l, l = Reply(b, Cleared)
          PROVE  l \in Local /\ LocalInv(l)'
  BY <1>clear, ReplyTyped, ClearedTyped DEF LocalInv, Reply, Given
<1>1. CASE Issue(t)
  BY <1>1, IssueInv
<1>2. CASE LookUp(t)
  <2>1. PICK b, k, u : b = thr[t].browser /\ k = thr[t].token /\ u = sessions[k].user
    OBVIOUS
  <2>2. k \in Token /\ b \in Browser /\ GivenTo(k, b, u)
    BY <1>0, <1>2, <2>1, LocalFields DEF LookUp, LocalInv
  <2>3. u \in User
    BY <1>0, <2>1, <2>2, RowTyped DEF GivenTo
  <2>4. PICK l : l = [pc |-> "revoke", browser |-> b, token |-> k, user |-> u]
    OBVIOUS
  <2>5. l \in Local
    BY <2>2, <2>3, <2>4 DEF Local
  <2>6. thr' = [thr EXCEPT ![t] = l] /\ UNCHANGED <<sessions, jar, now, signedIn, killed>>
    BY <1>2, <2>1, <2>4 DEF LookUp, Goto
  <2>7. LocalInv(l)'
    BY <2>2, <2>4, <2>6 DEF LocalInv, GivenTo, Exists
  <2>8. QED
    BY <2>5, <2>6, <2>7, <1>quiet
<1>3. CASE Refuse(t)
  <2>1. PICK b, l : b = thr[t].browser /\ l = Reply(b, Cleared)
    OBVIOUS
  <2>2. b \in Browser
    BY <1>0, <1>3, <2>1, LocalFields DEF Refuse
  <2>3. thr' = [thr EXCEPT ![t] = l] /\ UNCHANGED <<sessions, jar, now, signedIn, killed>>
    BY <1>3, <2>1 DEF Refuse, Goto
  <2>4. QED
    BY <2>1, <2>2, <2>3, <1>clear, <1>quiet
<1>4. CASE RevokeOld(t)
  <2>1. PICK b, k, u : b = thr[t].browser /\ k = thr[t].token /\ u = thr[t].user
    OBVIOUS
  <2>2. k \in Token /\ b \in Browser /\ u \in User /\ GivenTo(k, b, u)
    BY <1>0, <1>4, <2>1, LocalFields DEF RevokeOld, LocalInv
  <2>3. PICK l : l = Generate(b, u, k)
    OBVIOUS
  <2>4. l \in Local
    BY <1>0, <2>2, <2>3, GenerateTyped
  <2>5. /\ thr' = [thr EXCEPT ![t] = l] /\ UNCHANGED <<jar, now, signedIn, killed>>
        /\ RevokeRow(k) /\ Exists(k)
    BY <1>4, <2>1, <2>2, <2>3 DEF RevokeOld, Goto, GivenTo
  <2>6. GivenTo(k, b, u)' /\ sessions'[k].revoked # Never
    BY <2>2, <2>5, RevokeInv, GivenKept
  <2>7. l.pc = "issue" /\ l.browser = b /\ l.user = u /\ l.from = k
    BY <2>3 DEF Generate
  <2>8. LocalInv(l)'
    BY <1>0, <2>5, <2>6, <2>7, LengthsAssumption DEF LocalInv, Replaces, GivenTo
  <2>9. QED
    BY <1>0, <2>2, <2>4, <2>5, <2>8, <1>revoke DEF TypeOK
<1>5. CASE Revoke(t)
  <2>1. PICK b, l : b = thr[t].browser /\ l = Reply(b, Cleared)
    OBVIOUS
  <2>2. b \in Browser
    BY <1>0, <1>5, <2>1, LocalFields DEF Revoke
  <2>3. l \in Local /\ LocalInv(l)'
    BY <2>1, <2>2, <1>clear
  <2>4. thr' = [thr EXCEPT ![t] = l] /\ UNCHANGED <<jar, now, signedIn>>
    BY <1>5, <2>1 DEF Revoke, Goto
  <2>5. CASE UNCHANGED <<sessions, killed>>
    BY <2>3, <2>4, <2>5, <1>quiet
  <2>6. CASE ~UNCHANGED <<sessions, killed>>
    <3>1. /\ thr[t].token \in Token /\ Exists(thr[t].token) /\ RevokeRow(thr[t].token)
          /\ killed' = killed \cup {thr[t].token}
      BY <1>0, <1>5, <2>6, NoTokenAssumption DEF Revoke, LocalInv
    <3>2. QED
      BY <1>0, <2>3, <2>4, <3>1, <1>revoke DEF TypeOK
  <2>7. QED
    BY <2>5, <2>6
<1>6. CASE RevokeForUser(t)
  <2>1. thr[t].token \in Token /\ Exists(thr[t].token)
    BY <1>0, <1>6, LocalFields DEF RevokeForUser, LocalInv
  <2>2. thr' = [thr EXCEPT ![t] = Idle] /\ UNCHANGED <<jar, now, signedIn>>
    BY <1>6 DEF RevokeForUser, Return
  <2>3. \/ RevokeRow(thr[t].token) /\ killed' = killed \cup {thr[t].token}
        \/ UNCHANGED <<sessions, killed>>
    BY <1>6 DEF RevokeForUser
  <2>4. QED
    BY <1>0, <2>1, <2>2, <2>3, <1>idle, <1>quiet, <1>revoke DEF TypeOK
<1>7. CASE Respond(t)
  <2>1. PICK b, c : b = thr[t].browser /\ c = thr[t].cookies
    OBVIOUS
  <2>2. b \in Browser /\ c \in Cookies /\ Given(b, c)
    BY <1>0, <1>7, <2>1, LocalFields DEF Respond, LocalInv
  <2>3. /\ jar' = [jar EXCEPT ![b] = c] /\ thr' = [thr EXCEPT ![t] = Idle]
        /\ UNCHANGED <<sessions, now, signedIn, killed>>
    BY <1>7, <2>1 DEF Respond, Return
  <2>4. TypeOK'
    BY <1>0, <2>2, <2>3, <1>idle DEF TypeOK
  <2>5. Later
    BY <1>0, <2>3, QuietLater
  <2>6. ASSUME NEW a \in Browser PROVE Given(a, jar[a])'
    <3>1. PICK d : d = jar'[a]
      OBVIOUS
    <3>2. d \in Cookies /\ Given(a, d)
      BY <1>0, <2>2, <2>3, <3>1 DEF Inv, TypeOK
    <3>3. Given(a, d)'
      BY <2>5, <3>2, CookiesKept
    <3>4. QED
      BY <3>1, <3>3 DEF Given
  <2>7. QED
    BY <2>3, <2>4, <2>5, <2>6, <1>idle, RowsKept, InvFrom
<1>8. CASE Fail(t)
  BY <1>8, <1>idle, <1>quiet DEF Fail, Return
<1>9. QED
  BY <1>1, <1>2, <1>3, <1>4, <1>5, <1>6, <1>7, <1>8 DEF Step

\* The clock moves and nothing else.
LEMMA TickInv ==
    ASSUME Inv, Tick
    PROVE  Inv'
<1>1. /\ TypeOK /\ now \in Nat \ {0} /\ now' = now + 1
      /\ UNCHANGED <<sessions, thr, jar, signedIn, killed>>
  BY DEF Inv, TypeOK, Tick
<1>2. TypeOK'
  BY <1>1 DEF TypeOK
<1>3. Later
  BY <1>1 DEF Later, Exists
<1>4. ASSUME NEW s \in Thread PROVE LocalInv(thr[s])'
  <2>1. PICK m : m = thr[s]
    OBVIOUS
  <2>2. m \in Local /\ LocalInv(m) /\ thr'[s] = m
    BY <1>1, <2>1 DEF Inv, TypeOK
  <2>3. LocalInv(m)'
    BY <1>3, <2>2, LocalKept
  <2>4. QED
    BY <2>2, <2>3 DEF LocalInv
<1>5. QED
  BY <1>1, <1>2, <1>3, <1>4, RowsKept, JarKept DEF Inv

LEMMA UnchangedInv ==
    ASSUME Inv, UNCHANGED vars
    PROVE  Inv'
BY DEF Inv, vars, TypeOK, RowInv, Given, GivenTo, LocalInv, Replaces, Exists

LEMMA InvNext == Inv /\ [Next]_vars => Inv'
BY StepInv, RequestInv, TickInv, UnchangedInv DEF Next

LEMMA Safe == Spec => []Inv
BY InvInit, InvNext, PTL DEF Spec

-----------------------------------------------------------------------------
(* The properties of states.                                               *)

LEMMA InvParts == Inv => TypeOK /\ OldTokenRevoked /\ CookiesAgree
<1> SUFFICES ASSUME Inv PROVE TypeOK /\ OldTokenRevoked /\ CookiesAgree
  OBVIOUS
<1>1. OldTokenRevoked
  BY NoTokenAssumption DEF Inv, RowInv, Replaces, OldTokenRevoked, Children
<1>2. CookiesAgree
  BY DEF Inv, Given, GivenTo, CookiesAgree
<1>3. QED
  BY <1>1, <1>2 DEF Inv

\* The table, the cookies and the locals of every goroutine stay well formed:
\* no statement writes to a row that is not there, and no row is half written.
THEOREM SessionsTypeCorrect == Spec => []TypeOK
BY Safe, InvParts, PTL

\* Refresh: the session a token was exchanged for is never stored while the
\* token is usable, whatever fails between the statements.
THEOREM RotationRevokes == Spec => []OldTokenRevoked
BY Safe, InvParts, PTL

\* setCookies and clearCookies: the cookies of a browser are of one user, who
\* signed in there, however the answers are reordered.
THEOREM CookiesAlwaysAgree == Spec => []CookiesAgree
BY Safe, InvParts, PTL

-----------------------------------------------------------------------------
(* The properties of steps.                                                *)

\* What a goroutine's step does to the table.
LEMMA StepRows ==
    ASSUME Inv, NEW t \in Thread, Step(t)
    PROVE  \/ sessions' = sessions
           \/ \E k \in Token :
                 /\ Exists(k) /\ RevokeRow(k)
                 /\ thr[t].pc \in {"revoke", "logout", "kill"} /\ thr[t].token = k
                 /\ thr[t].pc = "kill" => thr[t].user = sessions[k].user
           \/ \E k \in Token, u \in User :
                 /\ ~Exists(k) /\ thr[t].pc = "issue"
                 /\ sessions' = [sessions EXCEPT ![k] =
                        [user |-> u, expires |-> now + RefreshLen, revoked |-> Never,
                         from |-> thr[t].from]]
<1>0. thr[t] \in Local /\ LocalInv(thr[t])
  BY DEF Inv, TypeOK
<1>1. CASE Issue(t)
  <2>1. PICK u : u = thr[t].user
    OBVIOUS
  <2>2. u \in User /\ thr[t].pc = "issue"
    BY <1>0, <1>1, <2>1, LocalFields DEF Issue
  <2>3. PICK k \in Token :
          /\ ~Exists(k)
          /\ sessions' = [sessions EXCEPT ![k] =
                 [user |-> u, expires |-> now + RefreshLen, revoked |-> Never,
                  from |-> thr[t].from]]
    BY <1>1, <2>1 DEF Issue
  <2>4. QED
    BY <2>2, <2>3
<1>2. CASE RevokeOld(t)
  BY <1>0, <1>2, LocalFields DEF RevokeOld, LocalInv, GivenTo
<1>3. CASE Revoke(t)
  BY <1>0, <1>3, NoTokenAssumption DEF Revoke, LocalInv
<1>4. CASE RevokeForUser(t)
  BY <1>0, <1>4, LocalFields DEF RevokeForUser, LocalInv
<1>5. CASE LookUp(t) \/ Refuse(t) \/ Respond(t) \/ Fail(t)
  BY <1>5 DEF LookUp, Refuse, Respond, Fail
<1>6. QED
  BY <1>1, <1>2, <1>3, <1>4, <1>5 DEF Step

\* What a fresh row leaves of the others.
LEMMA IssueLater ==
    ASSUME Inv, NEW t \in Thread, Issue(t)
    PROVE  Later
BY DEF Inv, TypeOK, Issue, Later, Exists

LEMMA StepLater ==
    ASSUME Inv, NEW t \in Thread, Step(t)
    PROVE  Later
<1>0. TypeOK /\ thr[t] \in Local /\ LocalInv(thr[t])
  BY DEF Inv, TypeOK
<1>1. now' = now /\ signedIn' = signedIn
  BY DEF Step, Issue, LookUp, Refuse, RevokeOld, Revoke, RevokeForUser, Respond, Fail
<1>2. CASE Issue(t)
  BY <1>2, IssueLater
<1>3. CASE ~Issue(t)
  <2>1. ASSUME NEW k \in Token, Exists(k), RevokeRow(k) PROVE Later
    BY <1>1, <2>1, RevokeInv
  <2>2. sessions' = sessions => Later
    BY <1>0, <1>1, QuietLater
  <2>3. thr[t].pc # "issue" \/ sessions' = sessions
    BY <1>3 DEF Step, LookUp, Refuse, RevokeOld, Revoke, RevokeForUser, Respond, Fail
  <2>4. QED
    BY <2>1, <2>2, <2>3, StepRows
<1>4. QED
  BY <1>2, <1>3

LEMMA NextLater == Inv /\ [Next]_vars => Later
<1> SUFFICES ASSUME Inv, [Next]_vars PROVE Later
  OBVIOUS
<1>0. TypeOK /\ now \in Nat
  BY DEF Inv, TypeOK
<1>1. ASSUME NEW t \in Thread, Step(t) PROVE Later
  BY <1>1, StepLater
<1>2. ASSUME NEW t \in Thread, NEW b \in Browser, Request(t, b) PROVE Later
  <2>1. sessions' = sessions /\ now' = now
    BY <1>2 DEF Request, SignIn, Refresh, Logout, RevokeSession
  <2>2. \A c \in Browser : signedIn[c] \subseteq signedIn'[c]
    BY <1>0, <1>2 DEF TypeOK, Request, SignIn, Refresh, Logout, RevokeSession
  <2>3. QED
    BY <1>0, <2>1, <2>2, QuietLater
<1>3. CASE Tick
  BY <1>0, <1>3 DEF Tick, Later, Exists
<1>4. CASE UNCHANGED vars
  BY <1>0, <1>4 DEF vars, Later, Exists
<1>5. QED
  BY <1>1, <1>2, <1>3, <1>4 DEF Next

\* The goroutines that may still exchange token k.
Holds(l, k) == (l.pc = "revoke" /\ l.token = k) \/ (l.pc = "issue" /\ l.from = k)

\* No goroutine comes to hold a token that was not usable.
LEMMA NoneComesToHold ==
    ASSUME Inv, [Next]_vars, NEW k \in Token, ~Live(k), NEW s \in Thread,
           ~Holds(thr[s], k)
    PROVE  ~Holds(thr'[s], k)
<1>0. thr \in [Thread -> Local] /\ k # NoToken
  BY NoTokenAssumption DEF Inv, TypeOK
<1>1. CASE thr'[s] = thr[s]
  BY <1>1
<1>2. ASSUME NEW t \in Thread, Step(t) PROVE ~Holds(thr'[s], k)
  <2>1. CASE s # t
    BY <1>0, <1>2, <2>1 DEF Step, Issue, LookUp, Refuse, RevokeOld, Revoke,
       RevokeForUser, Respond, Fail, Goto, Return
  <2>2. CASE s = t
    <3>1. CASE Issue(t) \/ Refuse(t) \/ Revoke(t)
      BY <1>0, <2>2, <3>1 DEF Issue, Refuse, Revoke, Goto, Reply, Holds
    <3>2. CASE RevokeForUser(t) \/ Respond(t) \/ Fail(t)
      BY <1>0, <2>2, <3>2 DEF RevokeForUser, Respond, Fail, Return, Idle, Holds
    <3>3. CASE LookUp(t)
      BY <1>0, <2>2, <3>3 DEF LookUp, Goto, Holds
    <3>4. CASE RevokeOld(t)
      BY <1>0, <2>2, <3>4 DEF RevokeOld, Goto, Generate, Holds
    <3>5. QED
      BY <1>2, <3>1, <3>2, <3>3, <3>4 DEF Step
  <2>3. QED
    BY <2>1, <2>2
<1>3. ASSUME NEW t \in Thread, NEW b \in Browser, Request(t, b)
      PROVE ~Holds(thr'[s], k)
  BY <1>0, <1>1, <1>3 DEF Request, SignIn, Refresh, Logout, RevokeSession, Start,
     Generate, Holds
<1>4. CASE Tick \/ UNCHANGED vars
  BY <1>4 DEF Tick, vars
<1>5. QED
  BY <1>2, <1>3, <1>4 DEF Next

\* Only a goroutine that holds a token stores a session in exchange for it.
LEMMA ChildrenNeedHolder ==
    ASSUME Inv, [Next]_vars, NEW k \in Token, Exists(k),
           \A t \in Thread : ~Holds(thr[t], k)
    PROVE  Children(k)' = Children(k)
<1>0. TypeOK /\ Later
  BY NextLater DEF Inv
<1>1. CASE sessions' = sessions
  BY <1>1 DEF Children, Exists
<1>2. ASSUME NEW j \in Token, Exists(j), RevokeRow(j)
      PROVE Children(k)' = Children(k)
  <2>1. \A c \in Token : sessions'[c] # sessions[c] => c = j
    BY <1>0, <1>2, RevokeTyped
  <2>2. \A c \in Token : Exists(c)' <=> Exists(c)
    BY <1>0, <1>2, <2>1 DEF Later, Exists
  <2>3. QED
    BY <1>0, <2>2 DEF Children, Later
<1>3. ASSUME NEW t \in Thread, NEW j \in Token, NEW u \in User,
             ~Exists(j), thr[t].pc = "issue",
             sessions' = [sessions EXCEPT ![j] =
                 [user |-> u, expires |-> now + RefreshLen, revoked |-> Never,
                  from |-> thr[t].from]]
      PROVE Children(k)' = Children(k)
  <2>1. thr[t].from # k
    BY <1>3 DEF Holds
  <2>2. sessions'[j].from # k /\ \A c \in Token \ {j} : sessions'[c] = sessions[c]
    BY <1>0, <1>3, <2>1 DEF TypeOK
  <2>3. QED
    BY <1>3, <2>2 DEF Children, Exists
<1>4. ASSUME NEW t \in Thread, Step(t) PROVE Children(k)' = Children(k)
  BY <1>1, <1>2, <1>3, <1>4, StepRows
<1>5. ASSUME NEW t \in Thread, NEW b \in Browser, Request(t, b) PROVE sessions' = sessions
  BY <1>5 DEF Request, SignIn, Refresh, Logout, RevokeSession
<1>6. QED
  BY <1>1, <1>4, <1>5 DEF Next, Tick, vars

\* A row that is not usable stays so.
LEMMA DeadStaysDead ==
    ASSUME Inv, Later, NEW k \in Token, Exists(k), ~Live(k)
    PROVE  Exists(k)' /\ ~Live(k)'
<1>1. sessions[k].expires \in Nat
  BY RowTyped DEF Inv
<1>2. QED
  BY <1>1 DEF Later, Live, Never

\* Refresh: a token that is over, and held by no Refresh that read it before,
\* is never exchanged again.
THEOREM OverIsOver == Spec => FinishedForGood
<1>1. ASSUME Inv, [Next]_vars, NEW k \in Token, Finished(k)
      PROVE  Finished(k)' /\ Children(k)' = Children(k)
  <2>1. /\ Exists(k) /\ ~Live(k)
        /\ \A t \in Thread : ~Holds(thr[t], k)
    BY <1>1 DEF Finished, Holds
  <2>2. Exists(k)' /\ ~Live(k)'
    BY <1>1, <2>1, NextLater, DeadStaysDead
  <2>3. \A t \in Thread : ~Holds(thr'[t], k)
    BY <1>1, <2>1, NoneComesToHold
  <2>4. Finished(k)'
    BY <2>2, <2>3 DEF Finished, Holds
  <2>5. Children(k)' = Children(k)
    BY <1>1, <2>1, ChildrenNeedHolder
  <2>6. QED
    BY <2>4, <2>5
<1>2. Inv /\ [Next]_vars =>
        [\A k \in Token : Finished(k) => Finished(k)' /\ Children(k)' = Children(k)]_vars
  BY <1>1
<1>3. QED
  BY <1>2, Safe, PTL DEF Spec, FinishedForGood

\* RevokeForUser, Revoke and Refresh: nobody ends a session of somebody else.
THEOREM OnlyOwnersEnd == Spec => EndedByOwner
<1>1. ASSUME Inv, [Next]_vars, NEW k \in Token, Exists(k),
             sessions[k].revoked = Never, sessions'[k].revoked # Never
      PROVE  \E t \in Thread :
                /\ thr[t].pc \in {"revoke", "logout", "kill"} /\ thr[t].token = k
                /\ thr[t].pc = "kill" => thr[t].user = sessions[k].user
  <2>1. PICK t \in Thread : Step(t)
    BY <1>1 DEF Next, Request, SignIn, Refresh, Logout, RevokeSession, Tick, vars
  <2>2. ASSUME NEW j \in Token, Exists(j), RevokeRow(j) PROVE j = k
    BY <1>1, <2>2, RevokeTyped DEF Inv
  <2>3. ASSUME NEW j \in Token, ~Exists(j), NEW u,
               sessions' = [sessions EXCEPT ![j] =
                   [user |-> u, expires |-> now + RefreshLen, revoked |-> Never,
                    from |-> thr[t].from]]
        PROVE FALSE
    BY <1>1, <2>3 DEF Inv, TypeOK
  <2>4. QED
    BY <1>1, <2>1, <2>2, <2>3, StepRows
<1>2. Inv /\ [Next]_vars =>
        [\A k \in Token :
          Exists(k) /\ sessions[k].revoked = Never /\ sessions'[k].revoked # Never
              => \E t \in Thread :
                    /\ thr[t].pc \in {"revoke", "logout", "kill"} /\ thr[t].token = k
                    /\ thr[t].pc = "kill" => thr[t].user = sessions[k].user]_vars
  BY <1>1
<1>3. QED
  BY <1>2, Safe, PTL DEF Spec, EndedByOwner

=============================================================================
