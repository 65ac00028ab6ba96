--------------------------- MODULE BrowserSession ---------------------------
(***************************************************************************)
(* Browser sessions: the table of opaque sessions (services/sessions.py),  *)
(* the middleware and the handlers that resolve them (api/app.py), and the *)
(* tabs of one browser, which share its cookie and keep each its own CSRF  *)
(* token and its own idea of whether the session has expired               *)
(* (workbench/src/api.ts, shell.tsx).  A session is named by the number of *)
(* its row; its opaque value and its CSRF token are the same name.         *)
(***************************************************************************)
EXTENDS Naturals, FiniteSets

CONSTANTS
  Tabs,
  Slots,       \* bound: requests a tab has under way
  Tokens,      \* bearer credentials a user may type
  Kinds,       \* requests that are tried, besides the login
  MaxSessions, \* bound: rows of the table
  Empty

VARIABLES
  sessions,  \* rows: the token of a session and whether it is still good
  revoked,   \* revoked tokens
  cookie,    \* the cookie of the browser
  csrf, expired, data,  \* of a tab: its token, whether it shows the login form,
                        \* the last answer of GET /session
  requests,  \* requests under way
  carried    \* the last request that was carried out, with what the tab knew

bvars == <<sessions, revoked, cookie, csrf, expired, data, requests, carried>>

Rows == 1..MaxSessions
Keys == Tabs \X Slots
Session == [token : Tokens, good : BOOLEAN]
Answer == [code : {200, 401, 403}, what : Rows \cup {Empty}]
Request ==
  [kind : {"login", "poll", "read", "write", "session", "logout"}, token : Tokens \cup {Empty},
   cookie : Rows \cup {Empty}, csrf : Rows \cup {Empty}, answer : Answer \cup {Empty},
   at : {"sent", "passed", "passed-login", "resolved", "answered"}]

ASSUME BrowserAssumption ==
  /\ MaxSessions \in Nat /\ Kinds \subseteq {"poll", "read", "write", "session", "logout"}
  /\ Empty \notin Session \cup Answer \cup Request

Good(s) == s # Empty /\ sessions[s] # Empty /\ sessions[s].good /\ sessions[s].token \notin revoked

BInit ==
  /\ sessions = [s \in Rows |-> Empty] /\ revoked = {} /\ cookie = Empty
  /\ csrf = [t \in Tabs |-> Empty] /\ expired = [t \in Tabs |-> FALSE] /\ data = [t \in Tabs |-> Empty]
  /\ requests = [k \in Keys |-> Empty] /\ carried = Empty

Put(k, r) == requests' = [requests EXCEPT ![k] = r]

\* api(): a tab that shows the login form asks for the session only; "poll"
\* is a query that listens to the abort signal, "read" one that does not.
Send(k, kind) ==
  /\ requests[k] = Empty
  /\ kind # "session" => ~expired[k[1]] /\ data[k[1]] # Empty
  /\ Put(k, [kind |-> kind, cookie |-> cookie, csrf |-> csrf[k[1]], token |-> Empty, at |-> "sent", answer |-> Empty])
  /\ UNCHANGED <<sessions, revoked, cookie, csrf, expired, data, carried>>

\* The form is disabled while it waits.
SendLogin(k, token) ==
  /\ requests[k] = Empty /\ expired[k[1]]
  /\ \A j \in Slots : requests[<<k[1], j>>] # Empty => requests[<<k[1], j>>].kind # "login"
  /\ Put(k, [kind |-> "login", cookie |-> cookie, csrf |-> Empty, token |-> token, at |-> "sent", answer |-> Empty])
  /\ UNCHANGED <<sessions, revoked, cookie, csrf, expired, data, carried>>

Reply(k, code, what) == Put(k, [requests[k] EXCEPT !.at = "answered", !.answer = [code |-> code, what |-> what]])

\* Fault: the middleware takes any token of the tab.
MiddlewareNoCsrf(k) ==
  /\ requests[k] # Empty /\ requests[k].at = "sent" /\ requests[k].kind # "login"
  /\ IF requests[k].cookie # Empty /\ ~Good(requests[k].cookie) THEN Reply(k, 401, Empty)
     ELSE Put(k, [requests[k] EXCEPT !.at = "passed"])
  /\ UNCHANGED <<sessions, revoked, cookie, csrf, expired, data, carried>>

\* boundary_headers: a cookie must resolve, and a POST must bring its token.
Middleware(k) ==
  /\ requests[k] # Empty /\ requests[k].at = "sent" /\ requests[k].kind # "login"
  /\ LET r == requests[k]
     IN IF r.cookie # Empty /\ ~Good(r.cookie) THEN Reply(k, 401, Empty)
        ELSE IF r.cookie # Empty /\ r.kind \in {"write", "logout"} /\ r.csrf # r.cookie THEN Reply(k, 403, Empty)
        ELSE Put(k, [r EXCEPT !.at = "passed"])
  /\ UNCHANGED <<sessions, revoked, cookie, csrf, expired, data, carried>>

\* A handler resolves the session again; logout then revokes it.
Handle(k) ==
  /\ requests[k] # Empty /\ requests[k].at = "passed"
  /\ LET s == requests[k].cookie
     IN IF ~Good(s) THEN Reply(k, 401, Empty) /\ UNCHANGED <<sessions, carried>>
        ELSE /\ Reply(k, 200, s)
             /\ carried' = [kind |-> requests[k].kind, session |-> s, csrf |-> requests[k].csrf, good |-> Good(s)]
             /\ sessions' = IF requests[k].kind = "logout" THEN [sessions EXCEPT ![s].good = FALSE] ELSE sessions
  /\ UNCHANGED <<revoked, cookie, csrf, expired, data>>

\* login: the credential is verified and the session of the cookie revoked ...
Enter(k) ==
  /\ requests[k] # Empty /\ requests[k].kind = "login" /\ requests[k].at = "sent"
  /\ LET r == requests[k]
     IN IF r.token \in revoked THEN Reply(k, 401, Empty) /\ sessions' = sessions
        ELSE /\ Put(k, [r EXCEPT !.at = "passed-login"])
             /\ sessions' = IF r.cookie # Empty THEN [sessions EXCEPT ![r.cookie].good = FALSE] ELSE sessions
  /\ UNCHANGED <<revoked, cookie, csrf, expired, data, carried>>

\* ... the credential is resolved once more ...
Resolve(k) ==
  /\ requests[k] # Empty /\ requests[k].at = "passed-login"
  /\ IF requests[k].token \in revoked THEN Reply(k, 401, Empty) ELSE Put(k, [requests[k] EXCEPT !.at = "resolved"])
  /\ UNCHANGED <<sessions, revoked, cookie, csrf, expired, data, carried>>

\* ... and a new row is written.
Create(k) ==
  /\ requests[k] # Empty /\ requests[k].at = "resolved"
  /\ \E s \in Rows :
       /\ sessions[s] = Empty /\ \A r \in 1..(s - 1) : sessions[r] # Empty
       /\ sessions' = [sessions EXCEPT ![s] = [token |-> requests[k].token, good |-> TRUE]]
       /\ Reply(k, 200, s)
  /\ UNCHANGED <<revoked, cookie, csrf, expired, data, carried>>

\* The page is loaded anew: nothing of it is left and nothing is awaited.
Reload(t) ==
  /\ csrf' = [csrf EXCEPT ![t] = Empty] /\ expired' = [expired EXCEPT ![t] = FALSE] /\ data' = [data EXCEPT ![t] = Empty]
  /\ requests' = [k \in Keys |-> IF k[1] = t THEN Empty ELSE requests[k]]

\* The answer arrives: Login, api() and the effect on new session data.
Receive(k) ==
  /\ requests[k] # Empty /\ requests[k].at = "answered"
  /\ LET t == k[1]  r == requests[k]  ok == r.answer.code = 200
     IN \/ /\ r.kind = "logout" /\ Reload(t)
           /\ cookie' = IF ok THEN Empty ELSE cookie
        \/ /\ r.kind = "login" /\ ok
           /\ cookie' = r.answer.what
           /\ csrf' = [csrf EXCEPT ![t] = r.answer.what] /\ expired' = [expired EXCEPT ![t] = FALSE]
           /\ requests' = [j \in Keys |->
                IF j = k \/ (j[1] = t /\ requests[j] # Empty /\ requests[j].kind \in {"poll", "session"}) THEN Empty ELSE requests[j]]
           /\ data' = data
        \/ /\ r.kind = "session" /\ ok /\ Put(k, Empty)
           /\ data' = [data EXCEPT ![t] = r.answer.what]
           /\ csrf' = IF data[t] # r.answer.what THEN [csrf EXCEPT ![t] = r.answer.what] ELSE csrf
           /\ UNCHANGED <<cookie, expired>>
        \/ /\ r.kind \notin {"login", "logout"} /\ r.answer.code = 401 /\ Put(k, Empty)
           /\ csrf' = [csrf EXCEPT ![t] = Empty] /\ expired' = [expired EXCEPT ![t] = TRUE]
           /\ UNCHANGED <<cookie, data>>
        \/ /\ r.kind \in {"poll", "read", "write"} /\ r.answer.code # 401 /\ Put(k, Empty)
           /\ UNCHANGED <<cookie, csrf, expired, data>>
        \/ r.kind = "login" /\ ~ok /\ Put(k, Empty) /\ UNCHANGED <<cookie, csrf, expired, data>>
  /\ UNCHANGED <<sessions, revoked, carried>>

\* Half an hour has passed.
Expire(s) ==
  /\ sessions[s] # Empty /\ sessions[s].good
  /\ sessions' = [sessions EXCEPT ![s].good = FALSE]
  /\ UNCHANGED <<revoked, cookie, csrf, expired, data, requests, carried>>

Revoke(token) ==
  /\ token \notin revoked /\ revoked' = revoked \cup {token}
  /\ UNCHANGED <<sessions, cookie, csrf, expired, data, requests, carried>>

BNext ==
  \/ \E k \in Keys :
       \/ \E kind \in Kinds : Send(k, kind)
       \/ \E token \in Tokens : SendLogin(k, token)
       \/ Middleware(k) \/ Handle(k) \/ Enter(k) \/ Resolve(k) \/ Create(k) \/ Receive(k)
  \/ \E s \in Rows : Expire(s)
  \/ \E token \in Tokens : Revoke(token)

BSpec == BInit /\ [][BNext]_bvars

-----------------------------------------------------------------------------

\* Types of the variables; a tab's CSRF token and the cookie name rows that exist.
BTypeOK ==
  /\ \A s \in DOMAIN sessions : sessions[s] \in Session \cup {Empty}
  /\ revoked \subseteq Tokens /\ \A t \in DOMAIN expired : expired[t] \in BOOLEAN
  /\ \A s \in {cookie} \cup {csrf[t] : t \in DOMAIN csrf} \cup {data[t] : t \in DOMAIN data} :
       s # Empty => s \in DOMAIN sessions /\ sessions[s] # Empty
  /\ \A k \in DOMAIN requests :
       requests[k] # Empty => requests[k].at \in {"sent", "passed", "passed-login", "resolved", "answered"}

\* A write is carried out under the session whose token its tab was given,
\* never under one that another tab's login put into the shared cookie
\* meanwhile (app.py:103-110).
CarriedOutForTheTab ==
  carried # Empty /\ carried.kind \in {"write", "logout"} => carried.csrf = carried.session

\* Nothing is carried out under a session that was logged out or has expired,
\* or whose credential was revoked, while the request was under way, though
\* the middleware had let it pass (app.py:105, facade.py:95).
GoodWhenCarriedOut == carried # Empty => carried.good

\* In a browser with one tab a login that is over has left no good session
\* behind but the one in the cookie (app.py:176-180); it may where a logout of
\* the same tab was still under way, which such a browser's Kinds leave out.
LoginLeavesNone ==
  (\A j, k \in DOMAIN requests : j[1] = k[1] /\ (requests[k] # Empty => requests[k].kind # "login"))
    => \A s \in DOMAIN sessions : Good(s) => s = cookie

\* What a tab writes is carried out under the session the tab knows, and that
\* session is good then; a login leaves no other (api/app.py, workbench/src).
WritesAreOfTheTab == BTypeOK /\ CarriedOutForTheTab /\ GoodWhenCarriedOut /\ LoginLeavesNone

\* The login form is shown because the session is over
\* (workbench/src/shell.tsx:31, api.ts:12).
\* The code does not keep it: TLC refutes it (README.md, "Statements TLC refutes").
ShownIsOver == \A t \in Tabs : expired[t] => ~Good(cookie)
=============================================================================
