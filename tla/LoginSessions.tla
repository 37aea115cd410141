----------------------------- MODULE LoginSessions -----------------------------
(***************************************************************************)
(* The login session (backend/apps/accounts/credentials.py, views.py) and  *)
(* the browser that keeps it (frontend/src/lib/api.ts, store/auth.ts).     *)
(*                                                                         *)
(* A session is a chain of refresh tokens: one older than an hour is       *)
(* exchanged for its successor, and for 120 seconds the old one still      *)
(* yields that successor.  The tabs of a browser share the cookie and the  *)
(* hint in localStorage; with Web Locks they talk to the server in turn.   *)
(* A tab gives a request up after its timeout (or closes): the server may  *)
(* still serve it, and its answer reaches nobody.                          *)
(***************************************************************************)
EXTENDS Naturals, FiniteSets, FiniteSetsExt

CONSTANTS
  Tabs,         \* tabs of the browser
  LockModes,    \* whether the browser has Web Locks: a subset of BOOLEAN
  MaxSessions,  \* bound: logins sent (one of them without Web Locks)
  MaxTokens     \* bound: tokens made, of all sessions

ASSUME SessionsAssumption ==
  /\ LockModes \subseteq BOOLEAN /\ LockModes # {}
  /\ MaxSessions \in Nat \ {0} /\ MaxTokens \in Nat \ {0}

Sessions == 1..MaxSessions
Tokens == Sessions \X (1..MaxTokens)
NoToken == <<0, 0>>
Cookies == Tokens \cup {NoToken}
Gone == "gone"             \* the place of the request nobody waits for
Places == Tabs \cup {Gone}

ASSUME GoneAssumption == Gone \notin Tabs

VARIABLES
  locks,     \* the browser has Web Locks
  minted,    \* tokens made of each session
  valid,     \* tokens whose OutstandingToken row is committed
  black,     \* BlacklistedToken
  successor, \* cache accounts:refresh-successor:<jti>
  aged,      \* tokens older than REFRESH_ROTATE_AFTER
  refused,   \* sessions of a changed password or a disabled account
  cookie,    \* asyl_refresh of the browser
  hint,      \* asyl_session in localStorage: a session, or 0
  news,      \* storage events of the hint still to come: <<tab, what happened to it>>
  access,    \* the session of the access token in the tab's memory, or 0
  flight,    \* the authentication request of each place
  ended,     \* sessions whose logout or refusal is committed
  excused    \* sessions that something lost on the way may have cost

server == <<minted, valid, black, successor, aged, refused>>
browser == <<cookie, hint, news, access>>
history == <<ended, excused>>
vars == <<locks, server, browser, flight, history>>

Stages == {"idle", "sent", "locked", "answered"}
Events == {"removed", "replaced"}      \* sessionHintChange
Answers == {"none", "granted", "refused", "bye"}
Flights ==
  [op : {"none", "refresh", "logout", "login"}, stage : Stages, token : Cookies,
   next : Cookies, answer : Answers, sid : Sessions \cup {0}, stale : BOOLEAN, late : BOOLEAN]

Idle == [op |-> "none", stage |-> "idle", token |-> NoToken, next |-> NoToken,
         answer |-> "none", sid |-> 0, stale |-> FALSE, late |-> FALSE]

\* The variables stay within the values the code gives them.
TypeOK ==
  /\ locks \in LockModes
  /\ minted \in [Sessions -> 0..MaxTokens]
  /\ valid \subseteq Tokens /\ black \subseteq Tokens /\ aged \subseteq Tokens
  /\ successor \in [Tokens -> Cookies]
  /\ refused \subseteq Sessions /\ ended \subseteq Sessions /\ excused \subseteq Sessions
  /\ cookie \in Cookies /\ hint \in Sessions \cup {0}
  /\ news \subseteq Tabs \X Events
  /\ access \in [Tabs -> Sessions \cup {0}]
  /\ flight \in [Places -> Flights]

Init ==
  /\ locks \in LockModes
  /\ minted = [s \in Sessions |-> 0]
  /\ valid = {} /\ black = {} /\ aged = {} /\ refused = {}
  /\ successor = [t \in Tokens |-> NoToken]
  /\ cookie = NoToken /\ hint = 0
  /\ news = {} /\ access = [t \in Tabs |-> 0]
  /\ flight = [p \in Places |-> Idle]
  /\ ended = {} /\ excused = {}

Live == valid \ black

-----------------------------------------------------------------------------
(* The browser sends. *)

Arrived(p, op) == flight[p].op = op /\ flight[p].stage = "sent"
Made == MapThenSumSet(LAMBDA s : minted[s], Sessions)
Started == {s \in Sessions : minted[s] > 0}

\* Mutant: the lock is not taken.
MaySendAnyway(t) == flight[t].stage = "idle"

\* withAuthLock: with Web Locks one authentication request at a time.
MaySend(t) ==
  /\ flight[t].stage = "idle"
  /\ locks => \A u \in Tabs : flight[u].stage = "idle"

Send(t, op) ==
  flight' = [flight EXCEPT ![t] =
    [Idle EXCEPT !.op = op, !.stage = "sent", !.token = cookie,
                 !.sid = IF op = "refresh" THEN hint ELSE 0,
                 !.late = op = "refresh" /\ cookie[1] \in ended]]

\* accessFor, retryWithFreshAccess: a tab with a session to continue.
SendRefresh(t) ==
  /\ MaySend(t) /\ hint # 0 /\ access[t] \in {0, hint}
  /\ Send(t, "refresh")
  /\ UNCHANGED <<locks, server, browser, history>>

\* signOut starts with revokeServerSession.
SendLogout(t) ==
  /\ MaySend(t) /\ access[t] # 0
  /\ Send(t, "logout")
  /\ UNCHANGED <<locks, server, browser, history>>

\* login: beginSession drops the access of the tab before it asks.
SendLogin(t) ==
  /\ MaySend(t)
  /\ Cardinality(Started) + Cardinality({p \in Places : Arrived(p, "login")})
       < IF locks THEN MaxSessions ELSE 1
  /\ Send(t, "login")
  /\ access' = [access EXCEPT ![t] = 0]
  /\ UNCHANGED <<locks, server, cookie, hint, news, history>>

\* The access token lapses with the memory of the tab (a reload).
Reload(t) ==
  /\ flight[t].stage = "idle" /\ access[t] # 0
  /\ access' = [access EXCEPT ![t] = 0]
  /\ UNCHANGED <<locks, server, cookie, hint, news, flight, history>>

-----------------------------------------------------------------------------
(* The server.  A request that presents a token holds its row until it     *)
(* commits, so two requests with one token take turns (_lock_outstanding). *)

\* Mutant: nobody waits for the row.
RowIgnored(p) == TRUE

RowFree(p) == \A q \in Places \ {p} :
  flight[q].stage = "locked" => flight[q].token # flight[p].token

Answer(p, answer, next) ==
  flight' = [flight EXCEPT ![p].stage = "answered", ![p].answer = answer, ![p].next = next]

\* start_session: a new session with its first token.
ServeLogin(p) ==
  /\ Arrived(p, "login")
  /\ Made < MaxTokens
  /\ \E s \in Sessions :
       /\ minted[s] = 0 /\ \A r \in Sessions : r < s => minted[r] > 0
       /\ minted' = [minted EXCEPT ![s] = 1]
       /\ valid' = valid \cup {<<s, 1>>}
       /\ Answer(p, "granted", <<s, 1>>)
  /\ UNCHANGED <<locks, black, successor, aged, refused, browser, history>>

\* The token a refresh works with: the successor in the cache, or its own.
Candidate(tok) == IF successor[tok] # NoToken THEN successor[tok] ELSE tok

\* SessionRefreshToken(...) reads the blacklist, _check_session_user the account.
Acceptable(tok) == tok \notin black /\ tok[1] \notin refused

\* No cookie, a blacklisted token, a changed password: 401.
RefuseRefresh(p) ==
  /\ Arrived(p, "refresh")
  /\ \/ flight[p].token = NoToken
     \/ /\ flight[p].token # NoToken /\ RowFree(p)
        /\ ~Acceptable(Candidate(flight[p].token))
  /\ Answer(p, "refused", NoToken)
  /\ UNCHANGED <<locks, server, browser, history>>

\* A fresh token, or a successor still in the cache, is handed out as it is.
Keep(p) ==
  LET tok == flight[p].token IN
  /\ Arrived(p, "refresh") /\ tok # NoToken /\ RowFree(p)
  /\ Acceptable(Candidate(tok))
  /\ successor[tok] # NoToken \/ tok \notin aged
  /\ Answer(p, "granted", Candidate(tok))
  /\ valid' = valid \cup {Candidate(tok)}   \* _lock_outstanding: get_or_create
  /\ UNCHANGED <<locks, minted, black, successor, aged, refused, browser, history>>

\* _rotate: the successor is in the cache before the transaction commits.
Rotate(p) ==
  LET tok == flight[p].token  next == <<tok[1], minted[tok[1]] + 1>> IN
  /\ Arrived(p, "refresh") /\ tok # NoToken /\ RowFree(p)
  /\ Acceptable(tok) /\ successor[tok] = NoToken /\ tok \in aged
  /\ Made < MaxTokens
  /\ minted' = [minted EXCEPT ![tok[1]] = @ + 1]
  /\ successor' = [successor EXCEPT ![tok] = next]
  /\ flight' = [flight EXCEPT ![p].stage = "locked", ![p].next = next]
  /\ UNCHANGED <<locks, valid, black, aged, refused, browser, history>>

\* Mutant: the new token gets no OutstandingToken row.
CommitWithoutRow(p) ==
  /\ flight[p].op = "refresh" /\ flight[p].stage = "locked"
  /\ black' = black \cup {flight[p].token}
  /\ Answer(p, "granted", flight[p].next)
  /\ UNCHANGED <<locks, minted, valid, successor, aged, refused, browser, history>>

\* The rotation commits: the old token is blacklisted, the new one is known.
CommitRotation(p) ==
  /\ flight[p].op = "refresh" /\ flight[p].stage = "locked"
  /\ black' = black \cup {flight[p].token}
  /\ valid' = valid \cup {flight[p].next}
  /\ Answer(p, "granted", flight[p].next)
  /\ UNCHANGED <<locks, minted, successor, aged, refused, browser, history>>

\* end_session: the token and its successor of the moment; the cache entry
\* goes before the commit.
BeginLogout(p) ==
  LET tok == flight[p].token IN
  /\ Arrived(p, "logout") /\ tok # NoToken /\ RowFree(p)
  /\ successor' = [successor EXCEPT ![tok] = NoToken]
  /\ flight' = [flight EXCEPT ![p].stage = "locked", ![p].next = successor[tok]]
  /\ UNCHANGED <<locks, minted, valid, black, aged, refused, browser, history>>

\* Mutant: only the token of the request.
RevokedAlone(p) == {flight[p].token}

Revoked(p) == {flight[p].token, flight[p].next} \ {NoToken}

CommitLogout(p) ==
  /\ flight[p].op = "logout" /\ flight[p].stage = "locked"
  /\ black' = black \cup Revoked(p)
  /\ valid' = valid \cup Revoked(p)
  /\ ended' = ended \cup {flight[p].token[1]}
  /\ Answer(p, "bye", NoToken)
  /\ UNCHANGED <<locks, minted, successor, aged, refused, browser, excused>>

\* A logout without a cookie has nothing to revoke.
EmptyLogout(p) ==
  /\ Arrived(p, "logout") /\ flight[p].token = NoToken
  /\ Answer(p, "bye", NoToken)
  /\ UNCHANGED <<locks, server, browser, history>>

\* A new password or a disabled account refuses the sessions it had.
PasswordChanged(s) ==
  /\ minted[s] > 0 /\ s \notin refused
  /\ refused' = refused \cup {s} /\ ended' = ended \cup {s}
  /\ UNCHANGED <<locks, minted, valid, black, successor, aged, browser, flight, excused>>

-----------------------------------------------------------------------------
(* Time.  The grace of 120 seconds outlasts the requests that were on the  *)
(* way when it began (15 s in the tab, 60 s in nginx and gunicorn), and an *)
(* hour outlasts the grace.                                                *)

GraceEnds(tok) ==
  /\ successor[tok] # NoToken
  /\ \A p \in Places : flight[p].token[1] # tok[1]
  /\ successor' = [successor EXCEPT ![tok] = NoToken]
  /\ UNCHANGED <<locks, minted, valid, black, aged, refused, browser, flight, history>>

HourPasses(tok) ==
  /\ tok \in valid \ aged /\ \A u \in Tokens : successor[u] # tok
  /\ \A p \in Places : flight[p].token \in {tok, NoToken} \/ flight[p].token[1] # tok[1]
  /\ aged' = aged \cup {tok}
  /\ UNCHANGED <<locks, minted, valid, black, successor, refused, browser, flight, history>>

-----------------------------------------------------------------------------
(* The browser hears. *)

Answered(t, op) == flight[t].op = op /\ flight[t].stage = "answered"
Landed(t) == flight' = [flight EXCEPT ![t] = Idle]

\* session_response and the views: the Set-Cookie of the answer.
CookieOf(f) ==
  CASE f.answer = "granted" -> f.next
    [] OTHER -> NoToken

\* forgetSessionHint: only while it is about this session.
Forget(s) == hint' = IF hint = s THEN 0 ELSE hint

\* A change of the hint is announced to the other tabs (storage events).
Announced(t) ==
  IF hint' = hint THEN {}
  ELSE (Tabs \ {t}) \X {IF hint' = 0 THEN "removed" ELSE "replaced"}
Tell(t) == news' = news \cup Announced(t)

\* exchangeRefresh.  A refusal, or the cookie of another login that nobody
\* announced, ends the session of the tab (endDeadSession).
Dead(f) ==
  \/ f.answer = "refused"
  \/ f.answer = "granted" /\ f.next[1] # f.sid /\ hint = f.sid

\* A stale answer is dropped; one that no longer fits the hint sends the tab to
\* the session of the browser (notifySessionChange).
HearRefresh(t) ==
  LET f == flight[t] IN
  /\ Answered(t, "refresh")
  /\ cookie' = CookieOf(f)
  /\ \/ /\ f.stale
        /\ UNCHANGED <<hint, access>>
     \/ /\ ~f.stale /\ Dead(f)
        /\ Forget(f.sid)
        /\ access' = [access EXCEPT ![t] = 0]
     \/ /\ ~f.stale /\ f.answer = "granted" /\ ~Dead(f)
        /\ access' = [access EXCEPT ![t] =
                        IF f.next[1] = f.sid /\ hint = f.sid THEN f.sid ELSE 0]
        /\ UNCHANGED hint
  /\ Landed(t)
  /\ Tell(t)
  /\ excused' = IF f.answer = "granted" /\ f.next \in Live /\ flight[Gone].stage = "idle"
                THEN excused \ {f.next[1]} ELSE excused
  /\ UNCHANGED <<locks, server, ended>>

\* startSession, unless the tab went on to another generation meanwhile.
HearLogin(t) ==
  LET f == flight[t] IN
  /\ Answered(t, "login")
  /\ cookie' = CookieOf(f)
  /\ hint' = IF f.stale THEN hint ELSE f.next[1]
  /\ access' = [access EXCEPT ![t] = IF f.stale THEN 0 ELSE f.next[1]]
  /\ Tell(t)
  /\ Landed(t)
  /\ excused' = IF f.stale THEN excused \cup ({hint} \ {0}) ELSE excused
  /\ UNCHANGED <<locks, server, ended>>

\* endSession of the tab, after the answer or without it.
LocalLogout(t) ==
  /\ Forget(access[t])
  /\ Tell(t)
  /\ access' = [access EXCEPT ![t] = 0]

HearLogout(t) ==
  /\ Answered(t, "logout")
  /\ cookie' = CookieOf(flight[t])
  /\ LocalLogout(t)
  /\ Landed(t)
  /\ UNCHANGED <<locks, server, history>>

\* The tab waits no longer: the request goes its way alone.
Abandon(t) ==
  /\ flight[t].stage # "idle" /\ flight[Gone].stage = "idle"
  /\ flight' = [flight EXCEPT ![Gone] = flight[t], ![t] = Idle]
  /\ excused' = IF flight[t].op = "refresh" THEN excused \cup ({flight[t].token[1]} \ {0})
                ELSE excused
  /\ IF flight[t].op = "logout" THEN LocalLogout(t) ELSE UNCHANGED <<hint, news, access>>
  /\ UNCHANGED <<locks, server, cookie, ended>>

Unheard ==
  /\ flight[Gone].stage = "answered"
  /\ flight' = [flight EXCEPT ![Gone] = Idle]
  /\ UNCHANGED <<locks, server, browser, history>>

\* The storage event of another tab: its logout is this tab's (endSession: it
\* forgets the hint too, if that is about its own session), its login makes
\* this tab start over.  Either begins a new generation.
StorageEvent(t) ==
  \E event \in news :
    /\ event[1] = t
    /\ IF event[2] = "removed" THEN Forget(access[t]) ELSE UNCHANGED hint
    /\ news' = (news \ {event}) \cup Announced(t)
    /\ access' = [access EXCEPT ![t] = 0]
    /\ flight' = [flight EXCEPT ![t].stale = flight[t].stage # "idle"]
    /\ UNCHANGED <<locks, server, cookie, history>>

-----------------------------------------------------------------------------
Serve(p) ==
  \/ ServeLogin(p)
  \/ RefuseRefresh(p) \/ Keep(p) \/ Rotate(p) \/ CommitRotation(p)
  \/ BeginLogout(p) \/ CommitLogout(p) \/ EmptyLogout(p)

Hear(t) == HearRefresh(t) \/ HearLogin(t) \/ HearLogout(t)

Next ==
  \/ \E t \in Tabs : SendRefresh(t) \/ SendLogout(t) \/ SendLogin(t) \/ Reload(t)
  \/ \E p \in Places : Serve(p)
  \/ \E s \in Sessions : PasswordChanged(s)
  \/ \E tok \in Tokens : GraceEnds(tok) \/ HourPasses(tok)
  \/ \E t \in Tabs : Hear(t) \/ Abandon(t) \/ StorageEvent(t)
  \/ Unheard

Spec == Init /\ [][Next]_vars

-----------------------------------------------------------------------------
(* Properties *)

\* A session has one token that works: two requests with one old token get
\* the same successor, not two (_lock_outstanding).
OneSuccessor ==
  \A s \in Sessions : Cardinality({tok \in Live : tok[1] = s}) <= 1

\* Nothing that asks after a logout, or after a new password, is let in, not
\* even with a token exchanged a moment before (end_session).
LogoutEnds ==
  \A p \in Places :
    (flight[p].op = "refresh" /\ flight[p].late) => flight[p].answer # "granted"

\* With Web Locks the cookie of a running session goes on working: it is the
\* live token, or yields it.  Only an exchange that got lost, or a login that
\* no tab announced, may cost the session.
SessionSurvives ==
  (locks /\ hint # 0 /\ hint \notin ended /\ \A t \in Tabs : flight[t].stage = "idle") =>
    \/ cookie[1] = hint /\ Candidate(cookie) \in Live
    \/ hint \in excused

\* Within the grace an exchange that got lost costs nothing at all.
GraceHolds ==
  \A tok \in Tokens :
    (successor[tok] # NoToken /\ tok[1] \notin ended) =>
      \/ successor[tok] \in Live
      \/ \E p \in Places : flight[p].stage = "locked" /\ flight[p].token = tok
      \/ \E p \in Places : flight[p].op = "logout" /\ flight[p].stage = "locked"

-----------------------------------------------------------------------------
(* What makes these inductive: which token can be in whose hands *)

\* Some request is exchanging this token; some place has it, or will.
Rotating(tok) == \E p \in Places :
  flight[p].op = "refresh" /\ flight[p].stage = "locked" /\ flight[p].token = tok
InHand(tok) ==
  \/ cookie = tok
  \/ \E p \in Places : \/ flight[p].token = tok
                       \/ flight[p].stage = "answered" /\ flight[p].next = tok

Follower(tok) == <<tok[1], tok[2] + 1>>
Latest(s) == <<s, minted[s]>>
IsLatest(tok) == tok[2] = minted[tok[1]]
IsReplaced(tok) == tok[2] + 1 = minted[tok[1]]

\* What a request says at each stage.
FlightShape(p) == LET f == flight[p] IN
  /\ f.stage = "idle" => f = Idle
  /\ f.stage # "idle" => f.op # "none"
  /\ f.stage = "sent" => f.answer = "none"
  /\ f.stage = "locked" => f.op \in {"refresh", "logout"} /\ f.answer = "none"
  /\ f.stage = "answered" =>
       /\ f.answer = "granted" <=> f.next # NoToken
       /\ f.op = "login" => f.answer = "granted"
       /\ f.op = "logout" => f.answer = "bye"
       /\ f.op = "refresh" /\ f.answer = "granted" => f.next[1] = f.token[1]

\* The tokens of a session form a chain: all but the latest are used up, the
\* one before it may still yield it, and nothing comes after it.
Chain(tok) ==
  /\ tok \in valid \cup black \cup aged => tok[2] <= minted[tok[1]]
  /\ tok \in black => tok \in valid
  /\ tok[2] + 1 < minted[tok[1]] => tok \in black
  /\ IsReplaced(tok) => tok \in black \/ Rotating(tok)
  /\ successor[tok] # NoToken =>
       /\ IsReplaced(tok) /\ successor[tok] = Follower(tok)
       /\ Follower(tok) \notin aged
       /\ Follower(tok) \in valid \/ Rotating(tok)
  /\ IsLatest(tok) /\ tok[1] \notin ended => tok \notin black

\* A request that holds the row of its token holds it alone; an exchange is of
\* the latest token, a logout took the successor out of the cache.
Exchange(p) ==
  LET tok == flight[p].token  next == flight[p].next IN
  flight[p].stage = "locked" =>
    /\ tok \in Tokens
    /\ \A q \in Places \ {p} : flight[q].stage = "locked" => flight[q].token # tok
    /\ flight[p].op = "refresh" =>
         /\ IsReplaced(tok) /\ successor[tok] = next /\ next = Follower(tok)
         /\ tok \notin black /\ next \notin valid
    /\ flight[p].op = "logout" =>
         /\ successor[tok] = NoToken
         /\ next # NoToken =>
              IsReplaced(tok) /\ next = Follower(tok) /\ next \in valid \ aged

\* Whoever has a token of a session has the latest one; or nobody has, and no
\* one can get it; or the grace, a logout or its end covers both.
OnlyLatest(s) == \A x \in Tokens : InHand(x) /\ x[1] = s => IsLatest(x)
LatestLost(s) ==
  \A x \in Tokens : x[1] = s => successor[x] = NoToken /\ ~(InHand(x) /\ IsLatest(x))
BothCovered(s) ==
  /\ \A x \in Tokens : InHand(x) /\ x[1] = s => IsLatest(x) \/ IsReplaced(x)
  /\ \/ Latest(s) \in black
     \/ \E x \in Tokens : x[1] = s /\ successor[x] # NoToken
     \/ \E p \in Places : /\ flight[p].op = "logout" /\ flight[p].stage = "locked"
                          /\ flight[p].next = Latest(s)
Family(s) == OnlyLatest(s) \/ LatestLost(s) \/ BothCovered(s)

\* A token that nothing is granted for any more.
Spent(tok) == tok[1] \in refused \/ Candidate(tok) \in black

\* Of an ended session nobody has anything else; a late request gets nowhere.
EndedIsSpent == \A tok \in Tokens : InHand(tok) /\ tok[1] \in ended => Spent(tok)
LateIsSpent(p) ==
  flight[p].op = "refresh" /\ flight[p].late =>
    /\ flight[p].token[1] \in ended
    /\ flight[p].stage # "locked" /\ flight[p].answer # "granted"

\* The token of a new session is only in the answer to its login.
FreshLogin(p) ==
  LET r == flight[p].next[1] IN
  flight[p].op = "login" /\ flight[p].stage = "answered" =>
    /\ minted[r] = 1 /\ flight[p].next = Latest(r)
    /\ cookie[1] # r
    /\ \A q \in Places : flight[q].token[1] # r
    /\ \A q \in Places \ {p} : flight[q].stage = "answered" => flight[q].next[1] # r

HandsHoldValid == \A tok \in Tokens : InHand(tok) => tok \in valid
EndedHaveStarted == refused \subseteq ended /\ \A s \in ended : minted[s] > 0

OneAtATime ==
  locks => \A t, u \in Tabs : flight[t].stage # "idle" /\ flight[u].stage # "idle" => t = u
LostExchangeExcused ==
  flight[Gone].op = "refresh" => flight[Gone].token[1] \in excused \cup {0}

\* The running session of the browser: nothing has ended or excused it.
Running == locks /\ hint # 0 /\ hint \notin ended \cup excused
InExchange(t) == flight[t].op = "refresh" /\ flight[t].stage \in {"locked", "answered"}
BrowserHasLatest ==
  Running =>
    /\ cookie[1] = hint
    /\ (\A t \in Tabs : ~InExchange(t)) => cookie = Latest(hint)
    /\ \A t \in Tabs : flight[t].op \in {"refresh", "logout"} => flight[t].token = cookie
    /\ \A t \in Tabs : flight[t].stage = "answered" =>
         /\ flight[t].op # "logout"
         /\ flight[t].op = "refresh" => flight[t].next = Latest(hint)

IInv ==
  /\ TypeOK
  /\ \A p \in Places : FlightShape(p) /\ Exchange(p) /\ LateIsSpent(p) /\ FreshLogin(p)
  /\ \A tok \in Tokens : Chain(tok)
  /\ \A s \in Sessions : Family(s)
  /\ HandsHoldValid /\ EndedHaveStarted /\ EndedIsSpent
  /\ OneAtATime /\ LostExchangeExcused /\ BrowserHasLatest
=============================================================================
