------------------------- MODULE LoginSessions_proofs --------------------------
(***************************************************************************)
(* Proofs about the login session: a session has one token that works, an  *)
(* ended one lets nobody in, and within the grace, or with Web Locks, a    *)
(* running one survives its exchanges.                                     *)
(*                                                                         *)
(* The invariant is IInv of LoginSessions.  Its heart is Family: whoever   *)
(* still has a token of a session has the latest one, or nobody can get    *)
(* the latest one any more, or the cache, a logout under way or the        *)
(* blacklist covers the last two.  Each step of the server is one lemma    *)
(* about that part (Core); the browser's part is proved after it.          *)
(***************************************************************************)
EXTENDS LoginSessions, Sums_proofs

-----------------------------------------------------------------------------
(* Tokens and sums *)

LEMMA TokenFacts ==
  /\ NoToken \notin Tokens /\ NoToken[1] = 0 /\ 0 \notin Sessions /\ Sessions \subseteq Nat
  /\ Cookies = Tokens \cup {NoToken}
  /\ \A x \in Tokens : x[1] \in Sessions /\ x[2] \in 1..MaxTokens /\ x[2] \in Nat /\ x[1] # 0
  /\ \A x, y \in Tokens : x[1] = y[1] /\ x[2] = y[2] => x = y
  /\ \A s \in Sessions, i \in 1..MaxTokens : <<s, i>> \in Tokens
BY SessionsAssumption DEF Tokens, NoToken, Sessions, Cookies

LEMMA FollowerFacts ==
  /\ \A x : Follower(x)[1] = x[1] /\ Follower(x)[2] = x[2] + 1
  /\ \A s : Latest(s)[1] = s /\ Latest(s)[2] = minted[s]
BY DEF Follower, Latest

LEMMA PlaceFacts ==
  ASSUME NEW t \in Tabs
  PROVE  t \in Places /\ Gone \in Places
BY DEF Places

LEMMA MadeBounds ==
  ASSUME TypeOK, NEW s \in Sessions
  PROVE  /\ minted[s] \in Nat /\ Made \in Nat /\ minted[s] <= Made
         /\ Made < MaxTokens => minted[s] + 1 \in 1..MaxTokens
<1>1. IsFiniteSet(Sessions)
  BY FS_Interval, SessionsAssumption DEF Sessions
<1>2. \A r \in Sessions : minted[r] \in Nat /\ minted[r] \in Int
  BY SessionsAssumption DEF TypeOK
<1>3. Made = SumOver(minted, Sessions)
  BY DEF Made, SumOver
<1>4. SumOver(minted, {s}) <= SumOver(minted, Sessions)
  <2>1. {s} \in SUBSET Sessions
    OBVIOUS
  <2> QED BY <1>1, <1>2, <2>1, SumOfSubset
<1>5. SumOver(minted, {s}) = minted[s]
  BY <1>2, SumSingle
<1>6. Made \in Nat
  BY <1>1, <1>2, <1>3, SumNat
<1> QED BY <1>2, <1>3, <1>4, <1>5, <1>6, SessionsAssumption

-----------------------------------------------------------------------------
(* Rows of flight *)

OthersKept(p) == \A q \in Places \ {p} : flight'[q] = flight[q]
SameRequest(p) ==
  /\ flight'[p].op = flight[p].op /\ flight'[p].token = flight[p].token
  /\ flight'[p].late = flight[p].late /\ flight'[p].stale = flight[p].stale

LEMMA IdleFacts ==
  /\ Idle \in Flights /\ Idle.op = "none" /\ Idle.stage = "idle" /\ Idle.answer = "none"
  /\ Idle.token = NoToken /\ Idle.next = NoToken /\ Idle.late = FALSE
  /\ Idle.stale = FALSE
BY DEF Idle, Flights, Stages, Answers, Cookies

LEMMA RowReplaced ==
  ASSUME flight \in [Places -> Flights], NEW p \in Places, NEW row \in Flights,
         flight' = [flight EXCEPT ![p] = row]
  PROVE  flight' \in [Places -> Flights] /\ flight'[p] = row /\ OthersKept(p)
BY DEF OthersKept

LEMMA RowAnswered ==
  ASSUME TypeOK, NEW p \in Places, NEW answer \in Answers, NEW next \in Cookies,
         Answer(p, answer, next)
  PROVE  /\ flight' \in [Places -> Flights] /\ OthersKept(p) /\ SameRequest(p)
         /\ flight'[p].stage = "answered" /\ flight'[p].answer = answer
         /\ flight'[p].next = next
<1> DEFINE row == [flight[p] EXCEPT !.stage = "answered", !.answer = answer, !.next = next]
<1>1. flight[p] \in Flights /\ flight \in [Places -> Flights]
  BY DEF TypeOK
<1>2. row \in Flights
  BY <1>1 DEF Flights, Stages
<1>3. /\ row.stage = "answered" /\ row.answer = answer /\ row.next = next
      /\ row.op = flight[p].op /\ row.token = flight[p].token
      /\ row.late = flight[p].late /\ row.stale = flight[p].stale
  BY <1>1 DEF Flights
<1>4. flight' = [flight EXCEPT ![p] = row]
  BY <1>1 DEF Answer
<1> HIDE DEF row
<1> QED BY <1>1, <1>2, <1>3, <1>4, RowReplaced DEF SameRequest

LEMMA RowLocked ==
  ASSUME TypeOK, NEW p \in Places, NEW next \in Cookies,
         flight' = [flight EXCEPT ![p].stage = "locked", ![p].next = next]
  PROVE  /\ flight' \in [Places -> Flights] /\ OthersKept(p) /\ SameRequest(p)
         /\ flight'[p].stage = "locked" /\ flight'[p].answer = flight[p].answer
         /\ flight'[p].next = next
<1> DEFINE row == [flight[p] EXCEPT !.stage = "locked", !.next = next]
<1>1. flight[p] \in Flights /\ flight \in [Places -> Flights]
  BY DEF TypeOK
<1>2. row \in Flights
  BY <1>1 DEF Flights, Stages
<1>3. /\ row.stage = "locked" /\ row.answer = flight[p].answer /\ row.next = next
      /\ row.op = flight[p].op /\ row.token = flight[p].token
      /\ row.late = flight[p].late /\ row.stale = flight[p].stale
  BY <1>1 DEF Flights
<1>4. flight' = [flight EXCEPT ![p] = row]
  BY <1>1
<1> HIDE DEF row
<1> QED BY <1>1, <1>2, <1>3, <1>4, RowReplaced DEF SameRequest

LEMMA RowSent ==
  ASSUME TypeOK, NEW t \in Tabs, NEW op \in {"refresh", "logout", "login"}, Send(t, op)
  PROVE  /\ flight' \in [Places -> Flights] /\ OthersKept(t)
         /\ flight'[t].op = op /\ flight'[t].stage = "sent" /\ flight'[t].token = cookie
         /\ flight'[t].next = NoToken /\ flight'[t].answer = "none"
         /\ flight'[t].late = (op = "refresh" /\ cookie[1] \in ended)
<1> DEFINE sid == IF op = "refresh" THEN hint ELSE 0
           late == op = "refresh" /\ cookie[1] \in ended
           row == [Idle EXCEPT !.op = op, !.stage = "sent", !.token = cookie,
                               !.sid = sid, !.late = late]
<1>1. flight \in [Places -> Flights] /\ cookie \in Cookies /\ sid \in Sessions \cup {0}
  BY DEF TypeOK
<1>3. flight' = [flight EXCEPT ![t] = row] /\ t \in Places
  BY PlaceFacts DEF Send
<1>4. NoToken \in Cookies /\ late \in BOOLEAN
  BY DEF Cookies
<1> HIDE DEF sid, late
<1>5. row \in Flights
  BY <1>1, <1>4, IdleFacts DEF Flights, Stages, Answers
<1>6. /\ row.op = op /\ row.stage = "sent" /\ row.token = cookie
      /\ row.next = NoToken /\ row.answer = "none" /\ row.late = late
  BY IdleFacts DEF Flights
<1> HIDE DEF row
<1> QED BY <1>1, <1>3, <1>5, <1>6, RowReplaced DEF late

LEMMA RowIdled ==
  ASSUME TypeOK, NEW p \in Places, flight' = [flight EXCEPT ![p] = Idle]
  PROVE  flight' \in [Places -> Flights] /\ OthersKept(p) /\ flight'[p] = Idle
BY RowReplaced, IdleFacts DEF TypeOK

LEMMA RowAbandoned ==
  ASSUME TypeOK, NEW t \in Tabs, Abandon(t)
  PROVE  /\ flight' \in [Places -> Flights] /\ flight'[t] = Idle /\ flight'[Gone] = flight[t]
         /\ \A q \in Places \ {t, Gone} : flight'[q] = flight[q]
         /\ t # Gone /\ flight[Gone].stage = "idle" /\ flight[t].stage # "idle"
<1>1. flight' = [flight EXCEPT ![Gone] = flight[t], ![t] = Idle]
  BY DEF Abandon
<1>2. t \in Places /\ Gone \in Places /\ t # Gone
  BY PlaceFacts, GoneAssumption
<1>3. flight[t] \in Flights /\ Idle \in Flights
  BY <1>2, IdleFacts DEF TypeOK
<1> HIDE DEF Idle
<1> QED BY <1>1, <1>2, <1>3 DEF TypeOK, Abandon

LEMMA RowStale ==
  ASSUME TypeOK, \A p \in Places : FlightShape(p), NEW t \in Tabs, StorageEvent(t)
  PROVE  /\ flight' \in [Places -> Flights] /\ OthersKept(t)
         /\ flight'[t].op = flight[t].op /\ flight'[t].token = flight[t].token
         /\ flight'[t].late = flight[t].late /\ flight'[t].stage = flight[t].stage
         /\ flight'[t].answer = flight[t].answer /\ flight'[t].next = flight[t].next
         /\ flight[t].stage = "idle" => flight'[t] = flight[t]
<1> DEFINE stale == flight[t].stage # "idle"
           row == [flight[t] EXCEPT !.stale = stale]
<1>1. t \in Places /\ flight \in [Places -> Flights] /\ flight[t] \in Flights
  BY PlaceFacts DEF TypeOK
<1>2. flight' = [flight EXCEPT ![t] = row]
  BY DEF StorageEvent
<1>3. stale \in BOOLEAN
  OBVIOUS
<1> HIDE DEF stale
<1>4. row \in Flights
  BY <1>1, <1>3 DEF Flights
<1>5. /\ row.op = flight[t].op /\ row.token = flight[t].token
      /\ row.late = flight[t].late /\ row.stage = flight[t].stage
      /\ row.answer = flight[t].answer /\ row.next = flight[t].next
  BY <1>1 DEF Flights
<1>6. ASSUME flight[t].stage = "idle" PROVE row = flight[t]
  <2>1. flight[t] = Idle /\ stale = FALSE
    BY <1>1, <1>6 DEF FlightShape, stale
  <2>2. [Idle EXCEPT !.stale = FALSE] = Idle
    BY IdleFacts DEF Flights
  <2> QED BY <2>1, <2>2
<1> HIDE DEF row
<1>7. flight' \in [Places -> Flights] /\ flight'[t] = row /\ OthersKept(t)
  BY <1>1, <1>2, <1>4, RowReplaced
<1> QED BY <1>5, <1>6, <1>7

-----------------------------------------------------------------------------
(* Types, and what a request says at each stage *)

ServerTypes ==
  /\ minted \in [Sessions -> 0..MaxTokens]
  /\ valid \subseteq Tokens /\ black \subseteq Tokens /\ aged \subseteq Tokens
  /\ successor \in [Tokens -> Cookies]
  /\ refused \subseteq Sessions /\ ended \subseteq Sessions
BrowserTypes ==
  /\ excused \subseteq Sessions
  /\ cookie \in Cookies /\ hint \in Sessions \cup {0}
  /\ news \subseteq Tabs \X Events
  /\ access \in [Tabs -> Sessions \cup {0}]

LEMMA TypeParts ==
  TypeOK <=> locks \in LockModes /\ ServerTypes /\ BrowserTypes /\ flight \in [Places -> Flights]
BY DEF TypeOK, ServerTypes, BrowserTypes

TypedFlights == flight \in [Places -> Flights] /\ \A p \in Places : FlightShape(p)

\* The flights alone: one row is written, and it says what its stage wants.
LEMMA OneRowShape ==
  ASSUME TypedFlights, NEW p \in Places, flight' \in [Places -> Flights],
         OthersKept(p), FlightShape(p)'
  PROVE  TypedFlights'
BY DEF TypedFlights, OthersKept, FlightShape

LEMMA FlightFacts ==
  ASSUME TypeOK, NEW p \in Places
  PROVE  /\ flight[p].token \in Cookies /\ flight[p].next \in Cookies
         /\ flight[p].sid \in Sessions \cup {0} /\ flight[p].stage \in Stages
         /\ flight[p].op \in {"none", "refresh", "logout", "login"}
         /\ flight[p].answer \in Answers
BY DEF TypeOK, Flights

LEMMA CandidateType ==
  ASSUME TypeOK, NEW tok \in Tokens
  PROVE  Candidate(tok) \in Tokens /\ Candidate(tok)  # NoToken
BY TokenFacts DEF Candidate, TypeOK

LEMMA CandidateSession ==
  ASSUME NEW tok \in Tokens, Chain(tok)
  PROVE  Candidate(tok)[1] = tok[1]
BY FollowerFacts DEF Candidate, Chain

LEMMA SendShape ==
  ASSUME IInv, NEW t \in Tabs, SendRefresh(t) \/ SendLogout(t) \/ SendLogin(t)
  PROVE  TypeOK' /\ TypedFlights'
<1>1. TypeOK /\ TypedFlights
  BY DEF IInv, TypedFlights, TypeOK
<1>2. PICK op \in {"refresh", "logout", "login"} : Send(t, op)
  BY DEF SendRefresh, SendLogout, SendLogin
<1>3. /\ flight' \in [Places -> Flights] /\ OthersKept(t)
      /\ flight'[t].op = op /\ flight'[t].stage = "sent" /\ flight'[t].answer = "none"
  BY <1>1, <1>2, RowSent
<1>4. FlightShape(t)'
  BY <1>3 DEF FlightShape
<1>5. access' \in [Tabs -> Sessions \cup {0}] /\ UNCHANGED <<locks, server, cookie, hint, news, history>>
  BY <1>1 DEF SendRefresh, SendLogout, SendLogin, browser, TypeOK
<1>6. TypeOK'
  BY <1>1, <1>3, <1>5 DEF TypeOK, server, history
<1> QED BY <1>1, <1>3, <1>4, <1>6, OneRowShape, PlaceFacts

LEMMA LoginShape ==
  ASSUME IInv, NEW p \in Places, ServeLogin(p)
  PROVE  TypeOK' /\ TypedFlights'
<1>1. TypeOK /\ TypedFlights
  BY DEF IInv, TypedFlights, TypeOK
<1>2. PICK s \in Sessions : /\ minted' = [minted EXCEPT ![s] = 1]
                            /\ valid' = valid \cup {<<s, 1>>}
                            /\ Answer(p, "granted", <<s, 1>>)
  BY DEF ServeLogin
<1>3. 1 \in 1..MaxTokens /\ 1 \in 0..MaxTokens /\ <<s, 1>> \in Tokens /\ <<s, 1>> \in Cookies
      /\ "granted" \in Answers /\ <<s, 1>> # NoToken
  BY TokenFacts, SessionsAssumption DEF Answers
<1>4. /\ flight' \in [Places -> Flights] /\ OthersKept(p) /\ SameRequest(p)
      /\ flight'[p].stage = "answered" /\ flight'[p].answer = "granted" /\ flight'[p].next = <<s, 1>>
  BY <1>1, <1>2, <1>3, RowAnswered
<1>5. FlightShape(p)'
  BY <1>3, <1>4 DEF FlightShape, SameRequest, ServeLogin, Arrived
<1>6. UNCHANGED <<locks, black, successor, aged, refused, browser, history>>
  BY DEF ServeLogin
<1>7. TypeOK'
  BY <1>1, <1>2, <1>3, <1>4, <1>6 DEF TypeOK, browser, history
<1> QED BY <1>1, <1>4, <1>5, <1>7, OneRowShape

\* The answers that grant nothing new.
LEMMA AnswerShape ==
  ASSUME IInv, NEW p \in Places, NEW answer \in Answers, NEW next \in Cookies,
         Answer(p, answer, next), answer = "granted" <=> next # NoToken,
         flight[p].op \in {"refresh", "logout"},
         flight[p].op = "logout" => answer = "bye",
         flight[p].op = "refresh" /\ answer = "granted" => next[1] = flight[p].token[1],
         ServerTypes', UNCHANGED <<locks, browser, excused>>
  PROVE  TypeOK' /\ TypedFlights'
<1>1. TypeOK /\ TypedFlights
  BY DEF IInv, TypedFlights, TypeOK
<1>2. /\ flight' \in [Places -> Flights] /\ OthersKept(p) /\ SameRequest(p)
      /\ flight'[p].stage = "answered" /\ flight'[p].answer = answer /\ flight'[p].next = next
  BY <1>1, RowAnswered
<1>3. FlightShape(p)'
  BY <1>2 DEF FlightShape, SameRequest
<1>4. TypeOK'
  BY <1>1, <1>2 DEF TypeOK, ServerTypes, browser
<1> QED BY <1>1, <1>2, <1>3, <1>4, OneRowShape

LEMMA LockShape ==
  ASSUME IInv, NEW p \in Places, NEW next \in Cookies,
         flight' = [flight EXCEPT ![p].stage = "locked", ![p].next = next],
         flight[p].op \in {"refresh", "logout"}, flight[p].stage = "sent",
         ServerTypes', UNCHANGED <<locks, browser, excused>>
  PROVE  TypeOK' /\ TypedFlights'
<1>1. TypeOK /\ TypedFlights
  BY DEF IInv, TypedFlights, TypeOK
<1>2. /\ flight' \in [Places -> Flights] /\ OthersKept(p) /\ SameRequest(p)
      /\ flight'[p].stage = "locked" /\ flight'[p].answer = flight[p].answer
      /\ flight'[p].next = next
  BY <1>1, RowLocked
<1>3. FlightShape(p)'
  BY <1>1, <1>2 DEF FlightShape, SameRequest, TypedFlights
<1>4. TypeOK'
  BY <1>1, <1>2 DEF TypeOK, ServerTypes, browser
<1> QED BY <1>1, <1>2, <1>3, <1>4, OneRowShape

LEMMA ServeShape ==
  ASSUME IInv, NEW p \in Places, Serve(p)
  PROVE  TypeOK' /\ TypedFlights'
<1>1. TypeOK /\ ServerTypes /\ flight[p].token \in Cookies /\ flight[p].next \in Cookies
  BY FlightFacts DEF IInv, TypeOK, ServerTypes
<1>2. {"granted", "refused", "bye"} \subseteq Answers /\ NoToken \in Cookies
  BY DEF Answers, Cookies
<1>3. CASE ServeLogin(p)
  BY <1>3, LoginShape
<1>4. CASE RefuseRefresh(p) \/ EmptyLogout(p)
  <2>1. ServerTypes'
    BY <1>1, <1>4 DEF RefuseRefresh, EmptyLogout, ServerTypes, server, history
  <2>2. /\ UNCHANGED <<locks, browser, excused>>
        /\ \/ flight[p].op = "refresh" /\ Answer(p, "refused", NoToken)
           \/ flight[p].op = "logout" /\ Answer(p, "bye", NoToken)
    BY <1>4 DEF RefuseRefresh, EmptyLogout, Arrived, history
  <2> QED BY <1>2, <2>1, <2>2, AnswerShape
<1>5. CASE Keep(p)
  <2>1. flight[p].token \in Tokens
    BY <1>1, <1>5, TokenFacts DEF Keep
  <2>2. Candidate(flight[p].token) \in Tokens /\ Candidate(flight[p].token) # NoToken
    BY <1>1, <2>1, CandidateType
  <2>3. Candidate(flight[p].token) \in Cookies
    BY <2>2, TokenFacts
  <2>4. ServerTypes'
    BY <1>1, <1>5, <2>2 DEF Keep, ServerTypes, history
  <2>5. /\ UNCHANGED <<locks, browser, excused>> /\ flight[p].op = "refresh"
        /\ Answer(p, "granted", Candidate(flight[p].token))
        /\ Candidate(flight[p].token)[1] = flight[p].token[1]
    BY <1>5, <2>1, CandidateSession DEF Keep, Arrived, history, IInv
  <2> QED BY <1>2, <2>2, <2>3, <2>4, <2>5, AnswerShape
<1>6. CASE Rotate(p)
  <2> DEFINE tok == flight[p].token
             next == <<tok[1], minted[tok[1]] + 1>>
  <2>1. tok \in Tokens /\ tok[1] \in Sessions /\ Made < MaxTokens
    BY <1>1, <1>6, TokenFacts DEF Rotate
  <2>2. minted[tok[1]] + 1 \in 1..MaxTokens
    BY <1>1, <2>1, MadeBounds
  <2>3. next \in Tokens /\ next \in Cookies
    BY <2>1, <2>2, TokenFacts
  <2>4. /\ minted' = [minted EXCEPT ![tok[1]] = minted[tok[1]] + 1]
        /\ successor' = [successor EXCEPT ![tok] = next]
        /\ flight' = [flight EXCEPT ![p].stage = "locked", ![p].next = next]
        /\ UNCHANGED <<locks, valid, black, aged, refused, browser, history>>
        /\ flight[p].op \in {"refresh", "logout"} /\ flight[p].stage = "sent"
    BY <1>6 DEF Rotate, Arrived
  <2> HIDE DEF tok, next
  <2>5. minted[tok[1]] + 1 \in 0..MaxTokens
    BY <1>1, <2>1, <2>2, MadeBounds
  <2>6. ServerTypes'
    BY <1>1, <2>1, <2>3, <2>4, <2>5 DEF ServerTypes, history
  <2>7. UNCHANGED <<locks, browser, excused>>
    BY <2>4 DEF history
  <2> QED BY <2>3, <2>4, <2>6, <2>7, LockShape
<1>7. CASE CommitRotation(p)
  <2>1. Exchange(p) /\ flight[p].stage = "locked" /\ flight[p].op = "refresh"
    BY <1>7 DEF IInv, CommitRotation
  <2>2. /\ flight[p].token \in Tokens /\ flight[p].next = successor[flight[p].token]
        /\ flight[p].next = Follower(flight[p].token)
    BY <2>1 DEF Exchange
  <2>3. flight[p].next \in Tokens /\ flight[p].next # NoToken
    <3>1. Follower(flight[p].token)[1] # 0
      BY <2>2, TokenFacts, FollowerFacts
    <3> QED BY <1>1, <2>2, <3>1, TokenFacts
  <2>4. ServerTypes'
    BY <1>1, <1>7, <2>2, <2>3 DEF CommitRotation, ServerTypes, history
  <2>5. /\ UNCHANGED <<locks, browser, excused>> /\ flight[p].op = "refresh"
        /\ Answer(p, "granted", flight[p].next) /\ flight[p].next[1] = flight[p].token[1]
    BY <1>7, <2>2, FollowerFacts DEF CommitRotation, history
  <2> QED BY <1>1, <1>2, <2>3, <2>4, <2>5, AnswerShape
<1>8. CASE BeginLogout(p)
  <2> DEFINE tok == flight[p].token
             next == successor[tok]
  <2>1. tok \in Tokens
    BY <1>1, <1>8, TokenFacts DEF BeginLogout
  <2>2. next \in Cookies
    BY <1>1, <2>1 DEF ServerTypes
  <2>3. /\ successor' = [successor EXCEPT ![tok] = NoToken]
        /\ flight' = [flight EXCEPT ![p].stage = "locked", ![p].next = next]
        /\ UNCHANGED <<locks, minted, valid, black, aged, refused, browser, history>>
        /\ flight[p].op \in {"refresh", "logout"} /\ flight[p].stage = "sent"
    BY <1>8 DEF BeginLogout, Arrived
  <2> HIDE DEF tok, next
  <2>4. ServerTypes'
    BY <1>1, <1>2, <2>1, <2>3 DEF ServerTypes, history
  <2>5. UNCHANGED <<locks, browser, excused>>
    BY <2>3 DEF history
  <2> QED BY <2>2, <2>3, <2>4, <2>5, LockShape
<1>9. CASE CommitLogout(p)
  <2>1. Exchange(p) /\ flight[p].stage = "locked" /\ flight[p].op = "logout"
    BY <1>9 DEF IInv, CommitLogout
  <2>2. flight[p].token \in Tokens /\ flight[p].token[1] \in Sessions
    BY <2>1, TokenFacts DEF Exchange
  <2>3. Revoked(p) \subseteq Tokens
    BY <1>1, <2>2, TokenFacts DEF Revoked
  <2>4. ServerTypes'
    BY <1>1, <1>9, <2>2, <2>3 DEF CommitLogout, ServerTypes
  <2>5. /\ UNCHANGED <<locks, browser, excused>> /\ flight[p].op \in {"refresh", "logout"}
        /\ Answer(p, "bye", NoToken)
    BY <1>9 DEF CommitLogout
  <2> QED BY <1>2, <2>4, <2>5, AnswerShape
<1> QED BY <1>3, <1>4, <1>5, <1>6, <1>7, <1>8, <1>9 DEF Serve

LEMMA TimeShape ==
  ASSUME IInv,
         \/ \E s \in Sessions : PasswordChanged(s)
         \/ \E tok \in Tokens : GraceEnds(tok) \/ HourPasses(tok)
         \/ \E t \in Tabs : Reload(t)
         \/ UNCHANGED vars
  PROVE  TypeOK' /\ TypedFlights'
<1>1. TypeOK /\ TypedFlights /\ NoToken \in Cookies
  BY DEF IInv, TypedFlights, TypeOK, Cookies
<1>2. UNCHANGED flight
  BY DEF PasswordChanged, GraceEnds, HourPasses, Reload, vars
<1>3. TypedFlights'
  BY <1>1, <1>2 DEF TypedFlights, FlightShape
<1>4. CASE \E s \in Sessions : PasswordChanged(s)
  BY <1>1, <1>3, <1>2, <1>4 DEF PasswordChanged, TypeOK, browser
<1>5. CASE \E tok \in Tokens : GraceEnds(tok) \/ HourPasses(tok)
  BY <1>1, <1>3, <1>2, <1>5 DEF GraceEnds, HourPasses, TypeOK, browser, history
<1>6. CASE \E t \in Tabs : Reload(t)
  BY <1>1, <1>3, <1>2, <1>6 DEF Reload, TypeOK, server, history
<1>7. CASE UNCHANGED vars
  BY <1>1, <1>3, <1>7 DEF vars, TypeOK, server, browser, history
<1> QED BY <1>3, <1>4, <1>5, <1>6, <1>7

LEMMA AnnouncedFacts ==
  ASSUME NEW t \in Tabs
  PROVE  Announced(t) \subseteq Tabs \X Events
BY DEF Announced, Events

LEMMA HearShape ==
  ASSUME IInv, NEW t \in Tabs, Hear(t) \/ Abandon(t) \/ StorageEvent(t)
  PROVE  TypeOK' /\ TypedFlights'
<1>1. TypeOK /\ TypedFlights /\ ServerTypes /\ t \in Places
  BY PlaceFacts DEF IInv, TypedFlights, TypeOK, ServerTypes
<1>2. /\ flight[t].token \in Cookies /\ flight[t].next \in Cookies
      /\ flight[t].sid \in Sessions \cup {0} /\ FlightShape(t)
  BY <1>1, FlightFacts DEF IInv
<1>3. ServerTypes' /\ UNCHANGED locks
  BY <1>1 DEF Hear, HearRefresh, HearLogin, HearLogout, Abandon, StorageEvent,
     ServerTypes, server, history
<1>4. \A x \in Cookies : x # NoToken => x[1] \in Sessions
  BY TokenFacts
<1>5. CASE Hear(t)
  <2>1. flight' = [flight EXCEPT ![t] = Idle]
    BY <1>5 DEF Hear, HearRefresh, HearLogin, HearLogout, Landed
  <2>2. flight' \in [Places -> Flights] /\ OthersKept(t) /\ flight'[t] = Idle
    BY <1>1, <2>1, RowIdled
  <2>3. FlightShape(t)'
    BY <2>2, IdleFacts DEF FlightShape
  <2>4. cookie' \in Cookies
    <3>1. cookie' = CookieOf(flight[t])
      BY <1>5 DEF Hear, HearRefresh, HearLogin, HearLogout
    <3>2. NoToken \in Cookies
      BY TokenFacts
    <3> QED BY <1>2, <3>1, <3>2 DEF CookieOf
  <2>5. news' \subseteq Tabs \X Events
    <3>1. Tell(t)
      BY <1>5 DEF Hear, HearRefresh, HearLogin, HearLogout, LocalLogout
    <3> QED BY <1>1, <3>1, AnnouncedFacts DEF Tell, TypeOK
  <2>6. /\ hint' \in Sessions \cup {0} /\ access' \in [Tabs -> Sessions \cup {0}]
        /\ excused' \subseteq Sessions
    <3>1. CASE HearRefresh(t)
      <4>1. hint' \in {hint, 0}
        BY <3>1 DEF HearRefresh, Forget
      <4>2. access' \in [Tabs -> Sessions \cup {0}]
        BY <1>1, <1>2, <3>1 DEF HearRefresh, TypeOK
      <4>3. excused' \subseteq excused
        BY <3>1 DEF HearRefresh
      <4> QED BY <1>1, <4>1, <4>2, <4>3 DEF TypeOK
    <3>2. CASE HearLogin(t)
      <4>1. flight[t].answer = "granted" /\ flight[t].next # NoToken
        BY <1>2, <3>2 DEF HearLogin, Answered, FlightShape
      <4>2. flight[t].next[1] \in Sessions
        BY <1>2, <1>4, <4>1
      <4>3. hint' \in Sessions \cup {0}
        BY <1>1, <3>2, <4>2 DEF HearLogin, TypeOK
      <4>4. access' \in [Tabs -> Sessions \cup {0}]
        BY <1>1, <3>2, <4>2 DEF HearLogin, TypeOK
      <4>5. excused' \subseteq excused \cup ({hint} \ {0})
        BY <3>2 DEF HearLogin
      <4> QED BY <1>1, <4>3, <4>4, <4>5 DEF TypeOK
    <3>3. CASE HearLogout(t)
      BY <1>1, <3>3 DEF HearLogout, LocalLogout, Forget, TypeOK, history
    <3> QED BY <1>5, <3>1, <3>2, <3>3 DEF Hear
  <2>7. TypeOK'
    BY <1>1, <1>3, <2>2, <2>4, <2>5, <2>6 DEF TypeOK, ServerTypes
  <2> QED BY <1>1, <2>2, <2>3, <2>7, OneRowShape
<1>6. CASE Abandon(t)
  <2>1. /\ flight' \in [Places -> Flights] /\ flight'[t] = Idle /\ flight'[Gone] = flight[t]
        /\ \A q \in Places \ {t, Gone} : flight'[q] = flight[q]
    BY <1>1, <1>6, RowAbandoned
  <2>2. \A q \in Places : FlightShape(q)'
    BY <1>1, <2>1, IdleFacts DEF FlightShape, TypedFlights
  <2>3. /\ hint' \in Sessions \cup {0} /\ access' \in [Tabs -> Sessions \cup {0}]
        /\ news' \subseteq Tabs \X Events /\ UNCHANGED cookie
    <3>1. CASE LocalLogout(t)
      BY <1>1, <1>6, <3>1, AnnouncedFacts DEF Abandon, LocalLogout, Forget, Tell, TypeOK
    <3>2. CASE UNCHANGED <<hint, news, access>>
      BY <1>1, <1>6, <3>2 DEF Abandon, TypeOK
    <3> QED BY <1>6, <3>1, <3>2 DEF Abandon
  <2>4. excused' \subseteq Sessions
    <3>1. flight[t].token[1] \in Sessions \cup {0}
      BY <1>2, TokenFacts
    <3>2. excused' \subseteq excused \cup ({flight[t].token[1]} \ {0})
      BY <1>6 DEF Abandon
    <3> QED BY <1>1, <3>1, <3>2 DEF TypeOK
  <2>5. TypeOK'
    BY <1>1, <1>3, <2>1, <2>3, <2>4 DEF TypeOK, ServerTypes
  <2> QED BY <2>1, <2>2, <2>5 DEF TypedFlights
<1>7. CASE StorageEvent(t)
  <2>1. /\ flight' \in [Places -> Flights] /\ OthersKept(t)
        /\ flight'[t].op = flight[t].op /\ flight'[t].token = flight[t].token
        /\ flight'[t].late = flight[t].late /\ flight'[t].stage = flight[t].stage
        /\ flight'[t].answer = flight[t].answer /\ flight'[t].next = flight[t].next
        /\ flight[t].stage = "idle" => flight'[t] = flight[t]
    BY <1>1, <1>7, RowStale DEF TypedFlights
  <2>2. FlightShape(t)'
    BY <1>2, <2>1 DEF FlightShape
  <2>3. /\ news' \subseteq news \cup Announced(t) /\ hint' \in {hint, 0}
        /\ access' = [access EXCEPT ![t] = 0] /\ UNCHANGED <<cookie, excused>>
    BY <1>7 DEF StorageEvent, Forget, history
  <2>4. /\ news' \subseteq Tabs \X Events /\ hint' \in Sessions \cup {0}
        /\ access' \in [Tabs -> Sessions \cup {0}]
    BY <1>1, <2>3, AnnouncedFacts DEF TypeOK
  <2>5. TypeOK'
    BY <1>1, <1>3, <2>1, <2>3, <2>4 DEF TypeOK, ServerTypes
  <2> QED BY <1>1, <2>1, <2>2, <2>5, OneRowShape
<1> QED BY <1>5, <1>6, <1>7

LEMMA UnheardShape ==
  ASSUME IInv, Unheard
  PROVE  TypeOK' /\ TypedFlights'
<1>1. TypeOK /\ TypedFlights /\ Gone \in Places
  BY DEF IInv, TypedFlights, TypeOK, Places
<1>2. flight' \in [Places -> Flights] /\ OthersKept(Gone) /\ flight'[Gone] = Idle
  BY <1>1, RowIdled DEF Unheard
<1>3. FlightShape(Gone)'
  BY <1>2, IdleFacts DEF FlightShape
<1>4. TypeOK'
  BY <1>1, <1>2 DEF Unheard, TypeOK, server, browser, history
<1> QED BY <1>1, <1>2, <1>3, <1>4, OneRowShape

LEMMA NextShape ==
  ASSUME IInv, [Next]_vars
  PROVE  TypeOK' /\ TypedFlights'
BY SendShape, ServeShape, TimeShape, HearShape, UnheardShape DEF Next

-----------------------------------------------------------------------------
(* The chain of a session and the hands its tokens are in: what each step   *)
(* of the server does to them                                               *)

Core ==
  /\ \A p \in Places : Exchange(p)
  /\ \A tok \in Tokens : Chain(tok)
  /\ \A s \in Sessions : Family(s)
  /\ HandsHoldValid /\ EndedHaveStarted /\ EndedIsSpent

LEMMA CoreOf ==
  ASSUME IInv
  PROVE  Core /\ TypeOK /\ \A p \in Places : FlightShape(p)
BY DEF IInv, Core

\* Tokens in sets and functions of the state.
LEMMA StateFacts ==
  ASSUME TypeOK
  PROVE  /\ \A x \in Tokens : minted[x[1]] \in Nat /\ successor[x] \in Cookies
         /\ \A s \in Sessions : minted[s] \in Nat
         /\ valid \subseteq Tokens /\ black \subseteq Tokens
<1>1. \A s \in Sessions : minted[s] \in Nat
  BY SessionsAssumption DEF TypeOK
<1>2. \A x \in Tokens : x[1] \in Sessions
  BY TokenFacts
<1> QED BY <1>1, <1>2 DEF TypeOK

LEMMA FollowerIs ==
  ASSUME NEW x \in Tokens, NEW y \in Tokens
  PROVE  /\ Follower(x) # NoToken /\ Follower(x) # x
         /\ Follower(x) = Follower(y) => x = y
         /\ Follower(x) \in Tokens => Follower(x)[1] = x[1] /\ Follower(x)[2] = x[2] + 1
<1>1. x[2] \in Nat /\ y[2] \in Nat /\ x[1] # 0 /\ NoToken[1] = 0
  BY TokenFacts
<1> QED BY <1>1, TokenFacts, FollowerFacts

LEMMA LatestIs ==
  ASSUME NEW x \in Tokens
  PROVE  IsLatest(x) <=> x = Latest(x[1])
BY TokenFacts, FollowerFacts DEF IsLatest, Latest, Tokens

\* A used-up token and the one it yields.
LEMMA FollowerOfReplaced ==
  ASSUME TypeOK, NEW x \in Tokens, IsReplaced(x)
  PROVE  Follower(x) \in Tokens /\ IsLatest(Follower(x)) /\ ~IsLatest(x)
         /\ Follower(x) = Latest(x[1]) /\ Follower(x)[1] = x[1]
<1>1. x[1] \in Sessions /\ x[2] \in Nat /\ minted[x[1]] \in 0..MaxTokens /\ MaxTokens \in Nat
  BY TokenFacts, SessionsAssumption DEF TypeOK
<1>2. x[2] + 1 \in 1..MaxTokens
  BY <1>1 DEF IsReplaced
<1>3. Follower(x) \in Tokens
  BY <1>1, <1>2, TokenFacts DEF Follower
<1> QED BY <1>1, <1>3, FollowerFacts, LatestIs DEF IsReplaced, IsLatest

LEMMA RotatingFacts ==
  ASSUME IInv, NEW x \in Tokens, Rotating(x)
  PROVE  IsReplaced(x) /\ successor[x] = Follower(x) /\ successor[x] # NoToken
         /\ x \notin black /\ Follower(x) \notin valid
BY CoreOf, FollowerIs DEF Core, Rotating, Exchange

LEMMA InHandFacts ==
  ASSUME IInv, NEW x \in Tokens, InHand(x)
  PROVE  x \in valid /\ x[2] <= minted[x[1]]
         /\ (IsLatest(x) \/ IsReplaced(x) \/ x \in black)
<1>1. x \in valid /\ Chain(x)
  BY CoreOf DEF Core, HandsHoldValid
<1>2. x[2] \in Nat /\ minted[x[1]] \in Nat
  BY CoreOf, StateFacts, TokenFacts
<1> QED BY <1>1, <1>2 DEF Chain, IsLatest, IsReplaced

\* Rows that are locked stay locked, perhaps at another place.
LocksKept ==
  /\ \A p \in Places : flight[p].stage = "locked" =>
       \E q \in Places : /\ flight'[q].stage = "locked" /\ flight'[q].op = flight[p].op
                         /\ flight'[q].token = flight[p].token
                         /\ flight'[q].next = flight[p].next
  /\ \A q \in Places : flight'[q].stage = "locked" =>
       \E p \in Places : /\ flight[p].stage = "locked" /\ flight'[q].op = flight[p].op
                         /\ flight'[q].token = flight[p].token
                         /\ flight'[q].next = flight[p].next
  /\ \A p, q \in Places :
       flight'[p].stage = "locked" /\ flight'[q].stage = "locked" /\ p # q
         => flight'[p].token # flight'[q].token

SameServer == UNCHANGED <<minted, valid, black, successor, aged, refused, ended>>

LEMMA QuietChain ==
  ASSUME IInv, SameServer, LocksKept
  PROVE  /\ \A p \in Places : Exchange(p)'
         /\ \A tok \in Tokens : Chain(tok)'
         /\ EndedHaveStarted'
         /\ \A tok \in Tokens : Rotating(tok) => Rotating(tok)'
<1>1. \A tok \in Tokens : Rotating(tok) => Rotating(tok)'
  BY DEF Rotating, LocksKept
<1>2. \A tok \in Tokens : Chain(tok)'
  <2>1. \A tok \in Tokens : Chain(tok)
    BY CoreOf DEF Core
  <2> QED BY <1>1, <2>1 DEF SameServer, Chain, IsLatest, IsReplaced
<1>3. ASSUME NEW p \in Places PROVE Exchange(p)'
  <2>1. CASE flight'[p].stage = "locked"
    <3>1. PICK q \in Places : /\ flight[q].stage = "locked" /\ flight'[p].op = flight[q].op
                              /\ flight'[p].token = flight[q].token
                              /\ flight'[p].next = flight[q].next
      BY <2>1 DEF LocksKept
    <3>2. Exchange(q)
      BY CoreOf DEF Core
    <3>3. \A r \in Places \ {p} : flight'[r].stage = "locked" => flight'[r].token # flight'[p].token
      BY <2>1 DEF LocksKept
    <3> QED BY <3>1, <3>2, <3>3 DEF SameServer, Exchange, IsReplaced
  <2>2. CASE flight'[p].stage # "locked"
    BY <2>2 DEF Exchange
  <2> QED BY <2>1, <2>2
<1>4. EndedHaveStarted'
  BY CoreOf DEF SameServer, Core, EndedHaveStarted
<1> QED BY <1>1, <1>2, <1>3, <1>4

\* Nothing happens at the server and nobody gets a token they had not.
LEMMA QuietCore ==
  ASSUME IInv, SameServer, LocksKept, \A x \in Tokens : InHand(x)' => InHand(x)
  PROVE  Core'
<1>1. /\ \A p \in Places : Exchange(p)'
      /\ \A tok \in Tokens : Chain(tok)'
      /\ EndedHaveStarted'
  BY QuietChain
<1>2. ASSUME NEW s \in Sessions PROVE Family(s)'
  <2>1. Family(s)
    BY CoreOf DEF Core
  <2>2. \A x : IsLatest(x)' = IsLatest(x) /\ IsReplaced(x)' = IsReplaced(x)
    BY DEF SameServer, IsLatest, IsReplaced
  <2>3. CASE OnlyLatest(s)
    BY <2>2, <2>3 DEF Family, OnlyLatest
  <2>4. CASE LatestLost(s)
    BY <2>2, <2>4 DEF Family, LatestLost, SameServer
  <2>5. CASE BothCovered(s)
    <3>1. \/ Latest(s) \in black
          \/ \E x \in Tokens : x[1] = s /\ successor[x] # NoToken
          \/ \E p \in Places : /\ flight'[p].op = "logout" /\ flight'[p].stage = "locked"
                               /\ flight'[p].next = Latest(s)
      BY <2>5 DEF BothCovered, LocksKept
    <3> QED BY <2>2, <2>5, <3>1 DEF Family, BothCovered, SameServer, Latest
  <2> QED BY <2>1, <2>3, <2>4, <2>5 DEF Family
<1>3. HandsHoldValid'
  BY CoreOf DEF Core, HandsHoldValid, SameServer
<1>4. EndedIsSpent'
  BY CoreOf DEF Core, EndedIsSpent, SameServer, Spent, Candidate
<1> QED BY <1>1, <1>2, <1>3, <1>4 DEF Core

\* One row of flight is written that neither was nor becomes locked.
LEMMA LocksStay ==
  ASSUME IInv, NEW p \in Places, OthersKept(p),
         flight[p].stage # "locked", flight'[p].stage # "locked"
  PROVE  LocksKept
<1>1. \A q \in Places : Exchange(q)
  BY CoreOf DEF Core
<1> QED BY <1>1 DEF LocksKept, OthersKept, Exchange

LEMMA LocksUnchanged ==
  ASSUME IInv, UNCHANGED flight
  PROVE  LocksKept
<1>1. \A q \in Places : Exchange(q)
  BY CoreOf DEF Core
<1> QED BY <1>1 DEF LocksKept, Exchange

\* Whoever is served has at most one token more in hand: the answer's.
LEMMA HandsOneRow ==
  ASSUME NEW p \in Places, OthersKept(p), flight'[p].token = flight[p].token,
         UNCHANGED cookie, NEW x, InHand(x)'
  PROVE  InHand(x) \/ (flight'[p].stage = "answered" /\ flight'[p].next = x)
BY DEF InHand, OthersKept

\* A session the step is not about keeps its family.
LEMMA OtherFamily ==
  ASSUME NEW r \in Sessions, Family(r),
         \A x \in Tokens : x[1] = r => (InHand(x)' => InHand(x)) /\ successor'[x] = successor[x],
         minted'[r] = minted[r], black \subseteq black',
         \A q \in Places : flight[q].op = "logout" /\ flight[q].stage = "locked"
                           /\ flight[q].next = Latest(r)
           => flight'[q].op = "logout" /\ flight'[q].stage = "locked"
              /\ flight'[q].next = flight[q].next
  PROVE  Family(r)'
<1>1. /\ \A x \in Tokens : x[1] = r => IsLatest(x)' = IsLatest(x) /\ IsReplaced(x)' = IsReplaced(x)
      /\ Latest(r)' = Latest(r)
  BY DEF IsLatest, IsReplaced, Latest
<1>2. CASE OnlyLatest(r)
  BY <1>1, <1>2 DEF Family, OnlyLatest
<1>3. CASE LatestLost(r)
  BY <1>1, <1>3 DEF Family, LatestLost
<1>4. CASE BothCovered(r)
  <2>1. \/ Latest(r) \in black'
        \/ \E x \in Tokens : x[1] = r /\ successor'[x] # NoToken
        \/ \E p \in Places : /\ flight'[p].op = "logout" /\ flight'[p].stage = "locked"
                             /\ flight'[p].next = Latest(r)
    <3>1. CASE Latest(r) \in black
      BY <3>1
    <3>2. CASE \E x \in Tokens : x[1] = r /\ successor[x] # NoToken
      BY <3>2
    <3>3. CASE \E p \in Places : /\ flight[p].op = "logout" /\ flight[p].stage = "locked"
                                 /\ flight[p].next = Latest(r)
      BY <3>3
    <3> QED BY <1>4, <3>1, <3>2, <3>3 DEF BothCovered
  <2>2. \A x \in Tokens : InHand(x)' /\ x[1] = r => IsLatest(x)' \/ IsReplaced(x)'
    BY <1>1, <1>4 DEF BothCovered
  <2> QED BY <1>1, <2>1, <2>2 DEF Family, BothCovered
<1> QED BY <1>2, <1>3, <1>4 DEF Family

\* A new session: its first token is in the answer alone.
LEMMA LoginCore ==
  ASSUME IInv, NEW p \in Places, ServeLogin(p)
  PROVE  Core'
<1>1. Core /\ TypeOK /\ FlightShape(p)
  BY CoreOf
<1>2. PICK s \in Sessions : /\ minted[s] = 0 /\ minted' = [minted EXCEPT ![s] = 1]
                            /\ valid' = valid \cup {<<s, 1>>}
                            /\ Answer(p, "granted", <<s, 1>>)
  BY DEF ServeLogin
<1> DEFINE first == <<s, 1>>
<1>3. first \in Tokens /\ first \in Cookies /\ "granted" \in Answers /\ first[1] = s /\ first[2] = 1
  BY TokenFacts, SessionsAssumption DEF Answers
<1> HIDE DEF first
<1>4. /\ OthersKept(p) /\ SameRequest(p) /\ flight'[p].stage = "answered"
      /\ flight'[p].next = first
  BY <1>1, <1>2, <1>3, RowAnswered DEF first
<1>5. UNCHANGED <<black, successor, aged, refused, cookie, ended>> /\ flight[p].stage = "sent"
  BY DEF ServeLogin, browser, history, Arrived
<1>6. minted'[s] = 1 /\ \A r \in Sessions \ {s} : minted'[r] = minted[r]
  BY <1>1, <1>2 DEF TypeOK
<1>7. \A x \in Tokens : x[1] = s => /\ x \notin valid \cup black \cup aged
                                    /\ successor[x] = NoToken /\ ~InHand(x)
  <2> SUFFICES ASSUME NEW x \in Tokens, x[1] = s
               PROVE  /\ x \notin valid \cup black \cup aged
                      /\ successor[x] = NoToken /\ ~InHand(x)
    OBVIOUS
  <2>1. Chain(x) /\ x[2] \in Nat /\ x[2] # 0 /\ minted[x[1]] = 0
    BY <1>1, <1>2, TokenFacts DEF Core
  <2> QED BY <1>1, <2>1 DEF Chain, IsReplaced, Core, HandsHoldValid
<1>8. valid' = valid \cup {first}
  BY <1>2 DEF first
<1>9. \A x \in Tokens : Rotating(x) => Rotating(x)'
  BY <1>4, <1>5 DEF Rotating, OthersKept
<1>10. \A x \in Tokens : InHand(x)' => InHand(x) \/ x = first
  BY <1>4, <1>5, HandsOneRow DEF SameRequest
<1>11. ASSUME NEW x \in Tokens PROVE Chain(x)'
  <2>1. Chain(x) /\ x[1] \in Sessions /\ x[2] \in Nat /\ x[2] # 0
    BY <1>1, TokenFacts DEF Core
  <2>2. CASE x[1] = s
    <3>1. minted'[x[1]] = 1 /\ x \notin black' /\ x \notin aged' /\ successor'[x] = NoToken
      BY <1>5, <1>6, <1>7, <2>2
    <3>2. x \in valid' => x = first
      BY <1>7, <1>8, <2>2
    <3> QED BY <1>3, <2>1, <3>1, <3>2 DEF Chain, IsReplaced
  <2>3. CASE x[1] # s
    <3>1. minted'[x[1]] = minted[x[1]] /\ x # first /\ (x \in valid' <=> x \in valid)
      BY <1>3, <1>6, <1>8, <2>1, <2>3
    <3>2. Follower(x) \in valid => Follower(x) \in valid'
      BY <1>8
    <3> QED BY <1>5, <1>9, <2>1, <3>1, <3>2 DEF Chain, IsReplaced, IsLatest
  <2> QED BY <2>2, <2>3
<1>12. ASSUME NEW q \in Places PROVE Exchange(q)'
  <2>1. CASE flight'[q].stage = "locked"
    <3>1. q # p /\ flight'[q] = flight[q] /\ Exchange(q) /\ flight[q].stage = "locked"
      BY <1>1, <1>4, <2>1 DEF OthersKept, Core
    <3>2. flight[q].token \in Tokens /\ InHand(flight[q].token)
      BY <3>1 DEF Exchange, InHand
    <3>3. flight[q].token[1] # s /\ flight[q].token[1] \in Sessions
      BY <1>7, <3>2, TokenFacts
    <3>4. minted'[flight[q].token[1]] = minted[flight[q].token[1]]
      BY <1>6, <3>3
    <3>5. Follower(flight[q].token) # first
      BY <1>3, <3>3, FollowerFacts
    <3>6. \A r \in Places \ {q} : flight'[r].stage = "locked" =>
            flight[r].stage = "locked" /\ flight'[r] = flight[r]
      BY <1>4 DEF OthersKept
    <3> QED BY <1>5, <1>8, <3>1, <3>4, <3>5, <3>6 DEF Exchange, IsReplaced
  <2> QED BY <2>1 DEF Exchange
<1>13. ASSUME NEW r \in Sessions PROVE Family(r)'
  <2>1. CASE r = s
    <3>1. \A x \in Tokens : InHand(x)' /\ x[1] = s => x[2] = 1
      BY <1>3, <1>7, <1>10
    <3> QED BY <1>6, <2>1, <3>1 DEF Family, OnlyLatest, IsLatest
  <2>2. CASE r # s
    <3>1. \A x \in Tokens : x[1] = r => (InHand(x)' => InHand(x))
      BY <1>3, <1>10, <2>2
    <3>2. \A q \in Places : flight[q].stage = "locked" => flight'[q] = flight[q]
      BY <1>4, <1>5 DEF OthersKept
    <3> QED BY <1>1, <1>5, <1>6, <2>2, <3>1, <3>2, OtherFamily DEF Core
  <2> QED BY <2>1, <2>2
<1>14. HandsHoldValid'
  BY <1>1, <1>8, <1>10 DEF HandsHoldValid, Core
<1>15. s \notin ended
  BY <1>1, <1>2 DEF Core, EndedHaveStarted
<1>16. EndedHaveStarted'
  BY <1>1, <1>5, <1>6, <1>15 DEF Core, EndedHaveStarted, TypeOK
<1>17. EndedIsSpent'
  BY <1>1, <1>3, <1>5, <1>10, <1>15 DEF Core, EndedIsSpent, Spent, Candidate
<1> QED BY <1>11, <1>12, <1>13, <1>14, <1>16, <1>17 DEF Core

\* A token that is still good, or the successor in the cache, is handed out.
LEMMA KeepCore ==
  ASSUME IInv, NEW p \in Places, Keep(p)
  PROVE  Core'
<1> DEFINE tok == flight[p].token
           cand == Candidate(tok)
<1>1. Core /\ TypeOK /\ tok \in Tokens /\ InHand(tok) /\ Chain(tok) /\ flight[p].stage = "sent"
  BY CoreOf, FlightFacts, TokenFacts DEF Keep, InHand, Core, Arrived
<1>2. cand \in Tokens /\ cand \in Cookies /\ "granted" \in Answers
  BY <1>1, CandidateType, TokenFacts DEF Answers
<1>3. ~Rotating(tok)
  BY <1>1 DEF Keep, RowFree, Rotating
<1>4. cand \in valid
  BY <1>1, <1>3 DEF Candidate, Chain, Core, HandsHoldValid
<1>5. SameServer /\ UNCHANGED cookie
  BY <1>4 DEF Keep, SameServer, browser, history
<1>6. /\ OthersKept(p) /\ SameRequest(p) /\ flight'[p].stage = "answered"
      /\ flight'[p].next = cand
  BY <1>1, <1>2, RowAnswered DEF Keep
<1>7. LocksKept
  BY <1>1, <1>6, LocksStay
<1>8. \A x \in Tokens : InHand(x)' => InHand(x) \/ x = cand
  BY <1>5, <1>6, HandsOneRow DEF SameRequest
<1>9. CASE successor[tok] = NoToken
  <2>1. cand = tok
    BY <1>9 DEF Candidate
  <2> HIDE DEF cand, tok
  <2> QED BY <1>1, <1>5, <1>7, <1>8, <2>1, QuietCore
<1>10. CASE successor[tok] # NoToken
  <2>1. IsReplaced(tok) /\ cand = Follower(tok)
    BY <1>1, <1>10 DEF Chain, Candidate
  <2>2. IsLatest(cand) /\ ~IsLatest(tok) /\ cand[1] = tok[1] /\ Follower(tok) = Latest(tok[1])
    BY <1>1, <2>1, FollowerOfReplaced
  <2>3. Acceptable(cand)
    BY DEF Keep
  <2> HIDE DEF cand, tok
  <2>4. /\ \A q \in Places : Exchange(q)'
        /\ \A x \in Tokens : Chain(x)'
        /\ EndedHaveStarted'
    BY <1>5, <1>7, QuietChain
  <2>5. ASSUME NEW r \in Sessions PROVE Family(r)'
    <3>1. CASE r = tok[1]
      <4>1. BothCovered(r)
        <5>1. ~OnlyLatest(r)
          BY <1>1, <2>2, <3>1 DEF OnlyLatest
        <5>2. ~LatestLost(r)
          BY <1>1, <1>10, <3>1 DEF LatestLost
        <5> QED BY <1>1, <5>1, <5>2 DEF Core, Family
      <4>2. \A x \in Tokens : InHand(x)' /\ x[1] = r => IsLatest(x)' \/ IsReplaced(x)'
        BY <1>5, <1>8, <2>2, <4>1 DEF BothCovered, IsLatest, IsReplaced, SameServer
      <4>3. successor'[tok] # NoToken
        BY <1>5, <1>10 DEF SameServer
      <4> QED BY <1>1, <3>1, <4>2, <4>3 DEF Family, BothCovered
    <3>2. CASE r # tok[1]
      <4>1. \A x \in Tokens : x[1] = r => (InHand(x)' => InHand(x)) /\ successor'[x] = successor[x]
        BY <1>5, <1>8, <2>2, <3>2 DEF SameServer
      <4>2. \A q \in Places : flight[q].stage = "locked" => flight'[q] = flight[q]
        BY <1>1, <1>6 DEF OthersKept
      <4> QED BY <1>1, <1>5, <4>1, <4>2, OtherFamily DEF Core, SameServer
    <3> QED BY <3>1, <3>2
  <2>6. HandsHoldValid'
    BY <1>1, <1>4, <1>5, <1>8 DEF Core, HandsHoldValid, SameServer
  <2>7. tok[1] \notin ended
    <3>1. tok[1] \in ended => Spent(tok)
      BY <1>1 DEF Core, EndedIsSpent
    <3> QED BY <2>2, <2>3, <3>1 DEF Spent, Acceptable, cand
  <2>8. EndedIsSpent'
    BY <1>1, <1>5, <1>8, <2>2, <2>7 DEF Core, EndedIsSpent, SameServer, Spent, Candidate
  <2> QED BY <2>4, <2>5, <2>6, <2>8 DEF Core
<1> QED BY <1>9, <1>10

\* The latest token is exchanged: the next one is known to the cache alone.
LEMMA RotateCore ==
  ASSUME IInv, NEW p \in Places, Rotate(p)
  PROVE  Core'
<1> DEFINE tok == flight[p].token
           s == tok[1]
           next == <<tok[1], minted[tok[1]] + 1>>
<1>1. Core /\ TypeOK /\ tok \in Tokens /\ InHand(tok) /\ Chain(tok) /\ flight[p].stage = "sent"
  BY CoreOf, FlightFacts, TokenFacts DEF Rotate, InHand, Core, Arrived
<1>2. /\ tok \notin black /\ tok[1] \notin refused /\ successor[tok] = NoToken /\ tok \in aged
      /\ Made < MaxTokens
  BY DEF Rotate, Acceptable
<1>3. s \in Sessions /\ minted[s] + 1 \in 1..MaxTokens /\ minted[s] \in Nat
  BY <1>1, <1>2, MadeBounds, TokenFacts
<1>4. next \in Tokens /\ next \in Cookies /\ next # NoToken /\ next[1] = s /\ next[2] = minted[s] + 1
  BY <1>3, TokenFacts
<1>5. /\ minted' = [minted EXCEPT ![s] = minted[s] + 1]
      /\ successor' = [successor EXCEPT ![tok] = next]
      /\ flight' = [flight EXCEPT ![p].stage = "locked", ![p].next = next]
      /\ UNCHANGED <<valid, black, aged, refused, cookie, ended>>
      /\ flight[p].op = "refresh"
      /\ \A q \in Places \ {p} : flight[q].stage = "locked" => flight[q].token # tok
  BY DEF Rotate, Arrived, RowFree, browser, history
<1>6. ~Rotating(tok)
  BY <1>1, <1>5 DEF Rotating
<1>7. IsLatest(tok) /\ tok[2] \in Nat
  BY <1>1, <1>2, <1>6, InHandFacts, TokenFacts DEF Chain
<1>8. next = Follower(tok)
  BY <1>7 DEF Follower, IsLatest
<1> HIDE DEF tok, s, next
<1>9. s = tok[1]
  BY DEF s
<1>10. next \notin valid \cup black \cup aged
  <2>1. Chain(next) /\ ~(next[2] <= minted[next[1]])
    BY <1>1, <1>3, <1>4 DEF Core
  <2> QED BY <2>1 DEF Chain
<1>11. /\ OthersKept(p) /\ SameRequest(p) /\ flight'[p].stage = "locked" /\ flight'[p].next = next
  BY <1>1, <1>4, <1>5, RowLocked
<1>12. /\ minted'[s] = minted[s] + 1 /\ \A r \in Sessions \ {s} : minted'[r] = minted[r]
       /\ successor'[tok] = next /\ \A x \in Tokens \ {tok} : successor'[x] = successor[x]
  BY <1>1, <1>3, <1>5 DEF TypeOK
\* Nothing yields the aged token, and nobody exchanges one for it.
<1>13. \A x \in Tokens : x[1] = s => successor[x] = NoToken
  <2> SUFFICES ASSUME NEW x \in Tokens, x[1] = s, successor[x] # NoToken
               PROVE  FALSE
    OBVIOUS
  <2>1. Chain(x)
    BY <1>1 DEF Core
  <2>2. IsReplaced(x) /\ Follower(x) \notin aged
    BY <2>1 DEF Chain
  <2>3. Follower(x) = Latest(s) /\ tok = Latest(s)
    BY <1>1, <1>7, <1>9, <2>2, FollowerOfReplaced, LatestIs
  <2> QED BY <1>2, <2>2, <2>3
<1>14. \A x \in Tokens : InHand(x)' => InHand(x)
  BY <1>5, <1>11, HandsOneRow DEF SameRequest
<1>15. \A x \in Tokens : Rotating(x) => Rotating(x)'
  BY <1>1, <1>11 DEF Rotating, OthersKept
<1>16. \A x \in Tokens : x = tok => Rotating(x)'
  BY <1>5, <1>11 DEF Rotating, SameRequest, tok
<1>17. ASSUME NEW x \in Tokens PROVE Chain(x)'
  <2>1. Chain(x) /\ x[1] \in Sessions /\ x[2] \in Nat
    BY <1>1, TokenFacts DEF Core
  <2>2. CASE x[1] # s
    <3>1. minted'[x[1]] = minted[x[1]] /\ successor'[x] = successor[x]
      BY <1>9, <1>12, <2>1, <2>2
    <3> QED BY <1>5, <1>15, <2>1, <3>1 DEF Chain, IsReplaced, IsLatest
  <2>3. CASE x = tok
    <3>1. x[2] + 1 = minted'[x[1]] /\ ~(x[2] + 1 < minted'[x[1]]) /\ x[2] <= minted'[x[1]]
          /\ ~(x[2] = minted'[x[1]])
      BY <1>3, <1>7, <1>9, <1>12, <2>3 DEF IsLatest
    <3>2. successor'[x] = Follower(x) /\ Follower(x) \notin aged'
      BY <1>5, <1>8, <1>10, <1>12, <2>3
    <3> QED BY <1>2, <1>5, <1>16, <2>1, <2>3, <3>1, <3>2 DEF Chain, IsReplaced, IsLatest
  <2>4. CASE x[1] = s /\ x # tok
    <3>1. minted'[x[1]] = minted[s] + 1 /\ successor'[x] = NoToken
      BY <1>12, <1>13, <2>4
    <3>2. x[2] # minted[s]
      BY <1>1, <1>7, <1>9, <2>4, TokenFacts DEF IsLatest
    <3>3. x[2] + 1 = minted[s] => x \in black
      <4>1. ~Rotating(x)
        BY <1>13, <2>4, RotatingFacts
      <4> QED BY <2>1, <2>4, <4>1 DEF Chain, IsReplaced
    <3>4. x[2] + 1 < minted[s] + 1 => x \in black
      BY <1>3, <2>1, <2>4, <3>2, <3>3 DEF Chain
    <3>5. x[2] + 1 = minted[s] + 1 => FALSE
      BY <1>3, <2>1, <3>2
    <3>6. x[2] <= minted[s] => x[2] <= minted[s] + 1
      BY <1>3, <2>1
    <3>7. x[2] = minted[s] + 1 => x \notin black
      <4>1. x \in black => x[2] <= minted[s]
        BY <2>1, <2>4 DEF Chain
      <4> QED BY <1>3, <4>1
    <3> QED BY <1>5, <2>1, <2>4, <3>1, <3>4, <3>5, <3>6, <3>7 DEF Chain, IsReplaced, IsLatest
  <2> QED BY <2>2, <2>3, <2>4
<1>18. ASSUME NEW q \in Places PROVE Exchange(q)'
  <2>1. \A r \in Places \ {q} : flight'[q].stage = "locked" /\ flight'[r].stage = "locked"
          => flight'[r].token # flight'[q].token
    <3>1. \A r \in Places \ {p} : flight'[r] = flight[r] /\ Exchange(r)
      BY <1>1, <1>11 DEF OthersKept, Core
    <3>2. flight'[p].token = tok
      BY <1>11 DEF SameRequest, tok
    <3>3. CASE q = p
      BY <1>5, <3>1, <3>2, <3>3
    <3>4. ASSUME q # p, flight'[q].stage = "locked", NEW r \in Places \ {q},
                 flight'[r].stage = "locked"
          PROVE  flight'[r].token # flight'[q].token
      <4>1. flight'[q] = flight[q] /\ flight[q].token # tok
        BY <1>5, <3>1, <3>4
      <4>2. CASE r = p
        BY <3>2, <4>1, <4>2
      <4>3. CASE r # p
        <5>1. flight'[r] = flight[r] /\ Exchange(q) /\ flight[q].stage = "locked"
          BY <3>1, <3>4, <4>1, <4>3
        <5> QED BY <3>4, <4>1, <5>1 DEF Exchange
      <4> QED BY <4>2, <4>3
    <3> QED BY <3>3, <3>4
  <2>2. CASE q = p
    <3>1. flight'[p].token = tok /\ flight'[p].op = "refresh"
      BY <1>5, <1>11 DEF SameRequest, tok
    <3>2. tok[2] + 1 = minted'[tok[1]]
      BY <1>7, <1>9, <1>12 DEF IsLatest
    <3>3. /\ tok \in Tokens /\ tok \notin black' /\ next \notin valid'
          /\ successor'[tok] = next /\ next = Follower(tok)
          /\ flight'[p].stage = "locked" /\ flight'[p].next = next
      BY <1>1, <1>2, <1>5, <1>8, <1>10, <1>11, <1>12
    <3>4. \A r \in Places \ {p} : flight'[r].stage = "locked" => flight'[r].token # flight'[p].token
      BY <2>1, <2>2, <3>3
    <3> QED BY <2>2, <3>1, <3>2, <3>3, <3>4 DEF Exchange, IsReplaced
  <2>3. CASE q # p /\ flight'[q].stage = "locked"
    <3>1. flight'[q] = flight[q] /\ Exchange(q) /\ flight[q].stage = "locked"
      BY <1>1, <1>11, <2>3 DEF OthersKept, Core
    <3> DEFINE y == flight[q].token
    <3>2. y \in Tokens /\ y # tok /\ y[1] \in Sessions
      BY <1>5, <2>3, <3>1, TokenFacts DEF Exchange
    <3>3. successor'[y] = successor[y]
      BY <1>12, <3>2
    <3>4. CASE y[1] # s
      <4>1. minted'[y[1]] = minted[y[1]]
        BY <1>12, <3>2, <3>4
      <4>2. UNCHANGED <<valid, black, aged>>
        BY <1>5
      <4>3. \A r \in Places \ {q} : flight'[r].stage = "locked" => flight'[r].token # flight'[q].token
        BY <2>1, <2>3
      <4> QED BY <3>1, <3>3, <4>1, <4>2, <4>3 DEF Exchange, IsReplaced
    <3>5. CASE y[1] = s
      <4>1. successor[y] = NoToken
        BY <1>13, <3>2, <3>5
      <4>2. flight[q].op # "refresh"
        BY <3>1, <3>2, <4>1, FollowerIs DEF Exchange
      <4>3. flight[q].op = "logout" => flight[q].next = NoToken
        <5> SUFFICES ASSUME flight[q].op = "logout", flight[q].next # NoToken
                     PROVE  FALSE
          OBVIOUS
        <5>1. IsReplaced(y) /\ Follower(y) \notin aged
          BY <3>1 DEF Exchange
        <5>2. Follower(y) = Latest(s) /\ tok = Latest(s)
          BY <1>1, <1>7, <1>9, <3>2, <3>5, <5>1, FollowerOfReplaced, LatestIs
        <5> QED BY <1>2, <5>1, <5>2
      <4> QED BY <2>1, <3>1, <3>2, <3>3, <4>1, <4>2, <4>3 DEF Exchange
    <3> QED BY <3>4, <3>5
  <2>4. CASE flight'[q].stage # "locked"
    BY <2>4 DEF Exchange
  <2> QED BY <2>2, <2>3, <2>4
<1>19. ASSUME NEW r \in Sessions PROVE Family(r)'
  <2>1. CASE r = s
    <3>1. \A x \in Tokens : InHand(x) /\ x[1] = s => IsLatest(x)
      <4>1. CASE OnlyLatest(s)
        BY <4>1 DEF OnlyLatest
      <4>2. CASE LatestLost(s)
        BY <1>1, <1>7, <1>9, <4>2 DEF LatestLost
      <4>3. CASE BothCovered(s)
        <5>1. Latest(s) = tok
          BY <1>1, <1>7, <1>9, LatestIs
        <5>2. PICK q \in Places : /\ flight[q].op = "logout" /\ flight[q].stage = "locked"
                                  /\ flight[q].next = tok
          BY <1>2, <1>13, <4>3, <5>1 DEF BothCovered
        <5>3. Exchange(q) /\ tok # NoToken
          BY <1>1, TokenFacts DEF Core
        <5> QED BY <1>2, <5>2, <5>3 DEF Exchange
      <4> QED BY <1>1, <1>3, <4>1, <4>2, <4>3 DEF Core, Family
    <3>2. \A x \in Tokens : InHand(x)' /\ x[1] = s => IsReplaced(x)'
      BY <1>3, <1>12, <1>14, <3>1 DEF IsLatest, IsReplaced
    <3>3. successor'[tok] # NoToken
      BY <1>4, <1>12
    <3> QED BY <1>1, <1>9, <2>1, <3>2, <3>3 DEF Family, BothCovered
  <2>2. CASE r # s
    <3>1. \A x \in Tokens : x[1] = r => (InHand(x)' => InHand(x)) /\ successor'[x] = successor[x]
      BY <1>9, <1>12, <1>14, <2>2
    <3>2. \A q \in Places : flight[q].stage = "locked" => flight'[q] = flight[q]
      BY <1>1, <1>11 DEF OthersKept
    <3> QED BY <1>1, <1>5, <1>12, <2>2, <3>1, <3>2, OtherFamily DEF Core
  <2> QED BY <2>1, <2>2
<1>20. HandsHoldValid'
  BY <1>1, <1>5, <1>14 DEF HandsHoldValid, Core
<1>21. EndedHaveStarted'
  BY <1>1, <1>3, <1>5, <1>12 DEF Core, EndedHaveStarted, TypeOK
<1>22. EndedIsSpent'
  <2>1. tok[1] \notin ended
    BY <1>1, <1>2 DEF Core, EndedIsSpent, Spent, Candidate
  <2> QED BY <1>1, <1>5, <1>12, <1>14, <2>1 DEF Core, EndedIsSpent, Spent, Candidate
<1> QED BY <1>17, <1>18, <1>19, <1>20, <1>21, <1>22 DEF Core

\* The exchange commits: the old token is used up, the next one is answered.
LEMMA RotationCore ==
  ASSUME IInv, NEW p \in Places, CommitRotation(p)
  PROVE  Core'
<1> DEFINE tok == flight[p].token
           next == flight[p].next
           s == tok[1]
<1>1. Core /\ TypeOK /\ Exchange(p) /\ flight[p].stage = "locked" /\ flight[p].op = "refresh"
  BY CoreOf DEF CommitRotation, Core
<1>2. /\ tok \in Tokens /\ InHand(tok) /\ Chain(tok) /\ IsReplaced(tok) /\ next = Follower(tok)
      /\ successor[tok] = next /\ tok \notin black /\ next \notin valid
  BY <1>1 DEF Exchange, InHand, Core
<1>3. /\ next \in Tokens /\ next \in Cookies /\ next # NoToken /\ IsLatest(next) /\ ~IsLatest(tok)
      /\ next = Latest(s) /\ next[1] = s /\ "granted" \in Answers /\ s \in Sessions
  BY <1>1, <1>2, FollowerOfReplaced, TokenFacts DEF Answers
<1>4. /\ black' = black \cup {tok} /\ valid' = valid \cup {next}
      /\ UNCHANGED <<minted, successor, aged, refused, cookie, ended>>
      /\ Answer(p, "granted", next)
  BY DEF CommitRotation, browser, history
<1> HIDE DEF next
<1>5. /\ OthersKept(p) /\ SameRequest(p) /\ flight'[p].stage = "answered"
      /\ flight'[p].next = next
  BY <1>1, <1>3, <1>4, RowAnswered
<1>6. \A x \in Tokens : InHand(x)' => InHand(x) \/ x = next
  BY <1>4, <1>5, HandsOneRow DEF SameRequest
<1>7. \A x \in Tokens \ {tok} : Rotating(x) => Rotating(x)'
  BY <1>5 DEF Rotating, OthersKept
<1> HIDE DEF tok, s
<1>8. s = tok[1] /\ \A q \in Places \ {p} : flight[q].stage = "locked" => flight[q].token # tok
  BY <1>1 DEF s, tok, Exchange
<1>9. ASSUME NEW x \in Tokens PROVE Chain(x)'
  <2>1. Chain(x) /\ IsLatest(x)' = IsLatest(x) /\ IsReplaced(x)' = IsReplaced(x)
    BY <1>1, <1>4 DEF Core, IsLatest, IsReplaced
  <2>2. next[2] <= minted[next[1]] /\ tok \in valid
    BY <1>1, <1>2, <1>3, TokenFacts DEF IsLatest, Core, HandsHoldValid
  <2>3. x \in valid' \cup black' \cup aged' => x[2] <= minted'[x[1]]
    BY <1>1, <1>2, <1>4, <2>1, <2>2, InHandFacts DEF Chain
  <2>4. x \in black' => x \in valid'
    BY <1>4, <2>1, <2>2 DEF Chain
  <2>5. IsReplaced(x)' => x \in black' \/ Rotating(x)'
    BY <1>4, <1>7, <2>1 DEF Chain
  <2>6. successor'[x] # NoToken =>
          /\ IsReplaced(x)' /\ successor'[x] = Follower(x)
          /\ Follower(x) \notin aged'
          /\ Follower(x) \in valid' \/ Rotating(x)'
    <3>1. Rotating(x) => Follower(x) \in valid' \/ Rotating(x)'
      BY <1>2, <1>4, <1>7
    <3> QED BY <1>4, <2>1, <3>1 DEF Chain
  <2>7. IsLatest(x)' /\ x[1] \notin ended' => x \notin black'
    BY <1>3, <1>4, <2>1 DEF Chain
  <2>8. x[2] + 1 < minted'[x[1]] => x \in black'
    BY <1>4, <2>1 DEF Chain
  <2> QED BY <2>3, <2>4, <2>5, <2>6, <2>7, <2>8 DEF Chain
<1>10. ASSUME NEW q \in Places PROVE Exchange(q)'
  <2>1. CASE flight'[q].stage = "locked"
    <3>1. q # p /\ flight'[q] = flight[q] /\ Exchange(q) /\ flight[q].stage = "locked"
      BY <1>1, <1>5, <2>1 DEF OthersKept, Core
    <3>2. flight[q].token \in Tokens /\ flight[q].token # tok
      BY <1>8, <3>1 DEF Exchange
    <3>3. Follower(flight[q].token) # next
      BY <1>2, <3>2, FollowerIs
    <3>4. \A r \in Places \ {q} : flight'[r].stage = "locked" =>
            flight[r].stage = "locked" /\ flight'[r] = flight[r]
      BY <1>5 DEF OthersKept
    <3> QED BY <1>4, <3>1, <3>2, <3>3, <3>4 DEF Exchange, IsReplaced
  <2> QED BY <2>1 DEF Exchange
<1>11. ASSUME NEW r \in Sessions PROVE Family(r)'
  <2>1. \A q \in Places : flight[q].op = "logout" /\ flight[q].stage = "locked" => flight'[q] = flight[q]
    BY <1>1, <1>5 DEF OthersKept
  <2>2. CASE r = s
    <3>1. BothCovered(s)
      <4>1. ~OnlyLatest(s)
        BY <1>2, <1>3, <1>8 DEF OnlyLatest
      <4>2. ~LatestLost(s)
        BY <1>2, <1>3, <1>8 DEF LatestLost
      <4> QED BY <1>1, <1>3, <4>1, <4>2 DEF Core, Family
    <3>2. \A x \in Tokens : InHand(x)' /\ x[1] = s => IsLatest(x)' \/ IsReplaced(x)'
      BY <1>3, <1>4, <1>6, <3>1 DEF BothCovered, IsLatest, IsReplaced
    <3>3. successor'[tok] # NoToken
      BY <1>2, <1>3, <1>4
    <3> QED BY <1>2, <1>8, <2>2, <3>2, <3>3 DEF Family, BothCovered
  <2>3. CASE r # s
    <3>1. \A x \in Tokens : x[1] = r => (InHand(x)' => InHand(x)) /\ successor'[x] = successor[x]
      BY <1>3, <1>4, <1>6, <2>3
    <3> QED BY <1>1, <1>4, <2>1, <2>3, <3>1, OtherFamily DEF Core
  <2> QED BY <2>2, <2>3
<1>12. HandsHoldValid'
  BY <1>1, <1>4, <1>6 DEF HandsHoldValid, Core
<1>13. EndedHaveStarted'
  BY <1>1, <1>4 DEF Core, EndedHaveStarted
<1>14. EndedIsSpent'
  <2>1. next \notin black
    BY <1>1, <1>2, <1>3 DEF Core, Chain
  <2>2. s \in ended => s \in refused
    BY <1>1, <1>2, <1>3, <1>8, <2>1 DEF Core, EndedIsSpent, Spent, Candidate
  <2>3. ASSUME NEW x \in Tokens, InHand(x)', x[1] \in ended
        PROVE  Spent(x)'
    <3>1. CASE x = next
      BY <1>3, <1>4, <2>2, <2>3, <3>1 DEF Spent
    <3>2. CASE InHand(x)
      BY <1>1, <1>4, <2>3, <3>2 DEF Core, EndedIsSpent, Spent, Candidate
    <3> QED BY <1>6, <2>3, <3>1, <3>2
  <2> QED BY <1>4, <2>3 DEF EndedIsSpent
<1> QED BY <1>9, <1>10, <1>11, <1>12, <1>13, <1>14 DEF Core

\* One token of a session is the latest, and one comes before it.
LEMMA OneOfEach ==
  ASSUME TypeOK, NEW x \in Tokens, NEW y \in Tokens, x[1] = y[1]
  PROVE  /\ IsLatest(x) /\ IsLatest(y) => x = y
         /\ IsReplaced(x) /\ IsReplaced(y) => x = y
         /\ ~(IsLatest(x) /\ IsReplaced(x))
<1>1. x[1] \in Sessions /\ x[2] \in Nat /\ y[2] \in Nat /\ minted[x[1]] \in Nat
  BY TokenFacts, StateFacts
<1> QED BY <1>1, TokenFacts DEF IsLatest, IsReplaced

\* A logout takes the successor of its token out of the cache.
LEMMA BeginLogoutCore ==
  ASSUME IInv, NEW p \in Places, BeginLogout(p)
  PROVE  Core'
<1> DEFINE tok == flight[p].token
           s == tok[1]
           next == successor[tok]
<1>1. Core /\ TypeOK /\ tok \in Tokens /\ InHand(tok) /\ Chain(tok) /\ flight[p].stage = "sent"
  BY CoreOf, FlightFacts, TokenFacts DEF BeginLogout, InHand, Core, Arrived
<1>2. /\ successor' = [successor EXCEPT ![tok] = NoToken]
      /\ flight' = [flight EXCEPT ![p].stage = "locked", ![p].next = next]
      /\ UNCHANGED <<minted, valid, black, aged, refused, cookie, ended>>
      /\ flight[p].op = "logout"
      /\ \A q \in Places \ {p} : flight[q].stage = "locked" => flight[q].token # tok
  BY DEF BeginLogout, Arrived, RowFree, browser, history
<1>3. ~Rotating(tok)
  BY <1>1, <1>2 DEF Rotating
<1>4. /\ next \in Cookies /\ s \in Sessions
      /\ next # NoToken => IsReplaced(tok) /\ next = Follower(tok) /\ next \in valid \ aged
  BY <1>1, <1>3, StateFacts, TokenFacts DEF Chain
<1>5. next = successor[tok]
  OBVIOUS
<1> HIDE DEF next
<1>6. /\ OthersKept(p) /\ SameRequest(p) /\ flight'[p].stage = "locked" /\ flight'[p].next = next
  BY <1>1, <1>2, <1>4, RowLocked
<1>7. flight'[p].token = tok /\ flight'[p].op = "logout"
  BY <1>2, <1>6 DEF SameRequest
<1> HIDE DEF tok, s
<1>8. s = tok[1]
  BY DEF s
<1>9. successor'[tok] = NoToken /\ \A x \in Tokens \ {tok} : successor'[x] = successor[x]
  BY <1>1, <1>2 DEF TypeOK
<1>10. \A x \in Tokens : InHand(x)' => InHand(x)
  BY <1>2, <1>6, HandsOneRow DEF SameRequest
<1>11. \A x \in Tokens : Rotating(x) => Rotating(x)'
  BY <1>1, <1>6 DEF Rotating, OthersKept
<1>12. ASSUME NEW x \in Tokens PROVE Chain(x)'
  <2>1. Chain(x) /\ (successor'[x] = NoToken \/ successor'[x] = successor[x])
    BY <1>1, <1>9 DEF Core
  <2>2. IsLatest(x)' = IsLatest(x) /\ IsReplaced(x)' = IsReplaced(x)
    BY <1>2 DEF IsLatest, IsReplaced
  <2> QED BY <1>2, <1>11, <2>1, <2>2 DEF Chain
<1>13. ASSUME NEW q \in Places PROVE Exchange(q)'
  <2>1. \A r \in Places \ {p} : flight'[r] = flight[r] /\ Exchange(r)
    BY <1>1, <1>6 DEF OthersKept, Core
  <2>2. CASE q = p
    <3>2. \A r \in Places \ {p} : flight'[r].stage = "locked" => flight'[r].token # flight'[p].token
      BY <1>2, <1>7, <2>1
    <3>3. tok[2] + 1 = minted[tok[1]] <=> IsReplaced(tok)
      BY DEF IsReplaced
    <3>4. UNCHANGED <<minted, valid, aged>>
      BY <1>2
    <3> QED BY <1>1, <1>4, <1>6, <1>7, <1>9, <2>2, <3>2, <3>3, <3>4 DEF Exchange, IsReplaced
  <2>3. CASE q # p /\ flight'[q].stage = "locked"
    <3>1. flight'[q] = flight[q] /\ Exchange(q) /\ flight[q].stage = "locked"
      BY <2>1, <2>3
    <3>2. flight[q].token \in Tokens /\ flight[q].token # tok
      BY <1>2, <2>3, <3>1 DEF Exchange
    <3>3. successor'[flight[q].token] = successor[flight[q].token]
      BY <1>9, <3>2
    <3>4. \A r \in Places \ {q} : flight'[r].stage = "locked" => flight'[r].token # flight'[q].token
      <4>1. ASSUME NEW r \in Places \ {q}, flight'[r].stage = "locked"
            PROVE  flight'[r].token # flight'[q].token
        <5>1. CASE r = p
          BY <1>7, <3>1, <3>2, <5>1
        <5>2. CASE r # p
          BY <2>1, <3>1, <4>1, <5>2 DEF Exchange
        <5> QED BY <5>1, <5>2
      <4> QED BY <4>1
    <3>5. UNCHANGED <<minted, valid, black, aged>>
      BY <1>2
    <3> QED BY <3>1, <3>3, <3>4, <3>5 DEF Exchange, IsReplaced
  <2>4. CASE flight'[q].stage # "locked"
    BY <2>4 DEF Exchange
  <2> QED BY <2>2, <2>3, <2>4
<1>14. ASSUME NEW r \in Sessions PROVE Family(r)'
  <2>1. \A q \in Places : flight[q].stage = "locked" => flight'[q] = flight[q]
    BY <1>1, <1>6 DEF OthersKept
  <2>2. CASE r # s
    <3>1. \A x \in Tokens : x[1] = r => (InHand(x)' => InHand(x)) /\ successor'[x] = successor[x]
      BY <1>8, <1>9, <1>10, <2>2
    <3> QED BY <1>1, <1>2, <2>1, <3>1, OtherFamily DEF Core
  <2>3. CASE r = s
    <3>1. /\ \A x \in Tokens : IsLatest(x)' = IsLatest(x) /\ IsReplaced(x)' = IsReplaced(x)
          /\ Latest(r)' = Latest(s) /\ Family(s)
      BY <1>1, <1>2, <1>4, <2>3 DEF IsLatest, IsReplaced, Latest, Core
    <3>2. CASE OnlyLatest(s)
      BY <1>10, <2>3, <3>1, <3>2 DEF OnlyLatest, Family
    <3>3. CASE LatestLost(s)
      BY <1>9, <1>10, <2>3, <3>1, <3>3 DEF LatestLost, Family
    <3>4. CASE BothCovered(s)
      <4>1. \/ Latest(s) \in black'
            \/ \E x \in Tokens : x[1] = s /\ successor'[x] # NoToken
            \/ \E q \in Places : /\ flight'[q].op = "logout" /\ flight'[q].stage = "locked"
                                 /\ flight'[q].next = Latest(s)
        <5>1. CASE Latest(s) \in black
          BY <1>2, <5>1
        <5>2. CASE \E x \in Tokens : x[1] = s /\ successor[x] # NoToken
          <6>1. PICK x \in Tokens : x[1] = s /\ successor[x] # NoToken
            BY <5>2
          <6>2. CASE x # tok
            BY <1>9, <6>1, <6>2
          <6>3. CASE x = tok
            <7>1. next # NoToken /\ IsReplaced(tok) /\ next = Follower(tok)
              BY <1>4, <1>5, <6>1, <6>3
            <7>2. Follower(tok) = Latest(s)
              BY <1>1, <1>8, <7>1, FollowerOfReplaced
            <7> QED BY <1>6, <1>7, <7>1, <7>2
          <6> QED BY <6>2, <6>3
        <5>3. CASE \E q \in Places : /\ flight[q].op = "logout" /\ flight[q].stage = "locked"
                                     /\ flight[q].next = Latest(s)
          BY <2>1, <5>3
        <5> QED BY <3>4, <5>1, <5>2, <5>3 DEF BothCovered
      <4>2. \A x \in Tokens : InHand(x)' /\ x[1] = s => IsLatest(x)' \/ IsReplaced(x)'
        BY <1>10, <3>1, <3>4 DEF BothCovered
      <4> QED BY <2>3, <3>1, <4>1, <4>2 DEF BothCovered, Family
    <3> QED BY <3>1, <3>2, <3>3, <3>4 DEF Family
  <2> QED BY <2>2, <2>3
<1>15. HandsHoldValid'
  BY <1>1, <1>2, <1>10 DEF HandsHoldValid, Core
<1>16. EndedHaveStarted'
  BY <1>1, <1>2 DEF Core, EndedHaveStarted
<1>17. EndedIsSpent'
  <2>1. ASSUME NEW x \in Tokens, InHand(x), x[1] \in ended
        PROVE  Spent(x)'
    <3>1. Spent(x)
      BY <1>1, <2>1 DEF Core, EndedIsSpent
    <3>2. CASE successor'[x] = successor[x]
      BY <1>2, <3>1, <3>2 DEF Spent, Candidate
    <3>3. CASE x = tok /\ successor[tok] # NoToken
      <4>1. tok \in black
        BY <1>1, <1>3, <3>3 DEF Chain
      <4> QED BY <1>2, <1>9, <3>3, <4>1 DEF Spent, Candidate
    <3> QED BY <1>9, <3>2, <3>3
  <2> QED BY <1>2, <1>10, <2>1 DEF EndedIsSpent
<1> QED BY <1>12, <1>13, <1>14, <1>15, <1>16, <1>17 DEF Core

\* A logout that commits uses up the session: its token and the successor it took.
LEMMA CommitLogoutCore ==
  ASSUME IInv, NEW p \in Places, CommitLogout(p)
  PROVE  Core'
<1> DEFINE tok == flight[p].token
           s == tok[1]
           next == flight[p].next
           gone == Revoked(p)
<1>1. Core /\ TypeOK /\ Exchange(p) /\ flight[p].stage = "locked" /\ flight[p].op = "logout"
      /\ next \in Cookies
  BY CoreOf, FlightFacts DEF CommitLogout, Core
<1>2. /\ tok \in Tokens /\ InHand(tok) /\ Chain(tok) /\ successor[tok] = NoToken /\ tok \in valid
      /\ next # NoToken => IsReplaced(tok) /\ next = Follower(tok) /\ next \in valid
      /\ \A q \in Places \ {p} : flight[q].stage = "locked" => flight[q].token # tok
  BY <1>1 DEF Exchange, InHand, Core, HandsHoldValid
<1>3. /\ tok # NoToken /\ s \in Sessions /\ "bye" \in Answers /\ NoToken \in Cookies
      /\ next # NoToken => next \in Tokens /\ next[1] = s
  BY <1>1, <1>2, TokenFacts, FollowerFacts DEF Answers
<1>4. /\ gone = {tok, next} \ {NoToken} /\ gone \subseteq valid
      /\ \A x \in gone : x[1] = s
  BY <1>2, <1>3 DEF Revoked
<1>5. /\ black' = black \cup gone /\ valid' = valid /\ ended' = ended \cup {s}
      /\ UNCHANGED <<minted, successor, aged, refused, cookie>>
      /\ Answer(p, "bye", NoToken)
  BY <1>4 DEF CommitLogout, browser
<1>6. /\ OthersKept(p) /\ SameRequest(p) /\ flight'[p].stage = "answered"
      /\ flight'[p].next = NoToken
  BY <1>1, <1>3, <1>5, RowAnswered
<1>7. \A x \in Tokens : InHand(x)' => InHand(x)
  BY <1>5, <1>6, HandsOneRow, TokenFacts DEF SameRequest
<1>8. \A x \in Tokens : Rotating(x) => Rotating(x)'
  BY <1>1, <1>6 DEF Rotating, OthersKept
<1> HIDE DEF gone, tok, s, next
<1>9. s = tok[1]
  BY DEF s
<1>10. \A x \in Tokens : IsLatest(x)' = IsLatest(x) /\ IsReplaced(x)' = IsReplaced(x)
  BY <1>5 DEF IsLatest, IsReplaced
<1>11. ASSUME NEW x \in Tokens PROVE Chain(x)'
  <2>1. Chain(x)
    BY <1>1 DEF Core
  <2>2. x \in gone => x \in valid /\ x[1] \in ended'
    BY <1>4, <1>5
  <2>3. IsLatest(x)' = IsLatest(x) /\ IsReplaced(x)' = IsReplaced(x) /\ (Rotating(x) => Rotating(x)')
    BY <1>8, <1>10
  <2>4. x[1] \notin ended' => x[1] \notin ended
    BY <1>5
  <2> QED BY <1>5, <2>1, <2>2, <2>3, <2>4 DEF Chain
<1>12. ASSUME NEW q \in Places PROVE Exchange(q)'
  <2>1. CASE flight'[q].stage = "locked"
    <3>1. q # p /\ flight'[q] = flight[q] /\ Exchange(q) /\ flight[q].stage = "locked"
      BY <1>1, <1>6, <2>1 DEF OthersKept, Core
    <3>2. flight[q].token \in Tokens /\ flight[q].token # tok
      BY <1>2, <3>1 DEF Exchange
    <3>3. \A r \in Places \ {q} : flight'[r].stage = "locked" =>
            flight[r].stage = "locked" /\ flight'[r] = flight[r]
      BY <1>6 DEF OthersKept
    <3>4. IsReplaced(flight[q].token) => flight[q].token \notin gone
      <4>1. next # NoToken => IsLatest(next)
        BY <1>1, <1>2, FollowerOfReplaced
      <4> QED BY <1>1, <1>3, <1>4, <3>2, <4>1, OneOfEach
    <3>5. UNCHANGED <<minted, successor, valid, aged>> /\ black' = black \cup gone
      BY <1>5
    <3> QED BY <3>1, <3>3, <3>4, <3>5 DEF Exchange, IsReplaced
  <2> QED BY <2>1 DEF Exchange
<1>13. ASSUME NEW r \in Sessions PROVE Family(r)'
  <2>1. \A q \in Places \ {p} : flight'[q] = flight[q]
    BY <1>6 DEF OthersKept
  <2>2. CASE r # s
    <3>1. \A x \in Tokens : x[1] = r => (InHand(x)' => InHand(x)) /\ successor'[x] = successor[x]
      BY <1>5, <1>7
    <3>2. \A q \in Places : flight[q].next = Latest(r) => q # p
      <4>1. Latest(r)[1] = r /\ r # 0 /\ NoToken[1] = 0
        BY FollowerFacts, TokenFacts
      <4> QED BY <1>3, <2>2, <4>1 DEF next
    <3> QED BY <1>1, <1>5, <2>1, <3>1, <3>2, OtherFamily DEF Core
  <2>3. CASE r = s
    <3>1. Latest(r)' = Latest(s) /\ Family(s)
      BY <1>1, <1>3, <1>5, <2>3 DEF Latest, Core
    <3>2. CASE OnlyLatest(s)
      BY <1>7, <1>10, <2>3, <3>2 DEF OnlyLatest, Family
    <3>3. CASE LatestLost(s)
      BY <1>5, <1>7, <1>10, <2>3, <3>3 DEF LatestLost, Family
    <3>4. CASE BothCovered(s)
      <4>1. \/ Latest(s) \in black'
            \/ \E x \in Tokens : x[1] = s /\ successor'[x] # NoToken
            \/ \E q \in Places : /\ flight'[q].op = "logout" /\ flight'[q].stage = "locked"
                                 /\ flight'[q].next = Latest(s)
        <5>1. CASE Latest(s) \in black
          BY <1>5, <5>1
        <5>2. CASE \E x \in Tokens : x[1] = s /\ successor[x] # NoToken
          BY <1>5, <5>2
        <5>3. CASE \E q \in Places : /\ flight[q].op = "logout" /\ flight[q].stage = "locked"
                                     /\ flight[q].next = Latest(s)
          <6>1. PICK q \in Places : /\ flight[q].op = "logout" /\ flight[q].stage = "locked"
                                    /\ flight[q].next = Latest(s)
            BY <5>3
          <6>2. CASE q # p
            BY <2>1, <6>1, <6>2
          <6>3. CASE q = p
            <7>1. next = Latest(s) /\ Latest(s) # NoToken
              BY <1>3, <6>1, <6>3, TokenFacts, FollowerFacts DEF next
            <7> QED BY <1>4, <1>5, <7>1
          <6> QED BY <6>2, <6>3
        <5> QED BY <3>4, <5>1, <5>2, <5>3 DEF BothCovered
      <4>2. \A x \in Tokens : InHand(x)' /\ x[1] = s => IsLatest(x)' \/ IsReplaced(x)'
        BY <1>7, <1>10, <3>4 DEF BothCovered
      <4> QED BY <2>3, <3>1, <4>1, <4>2 DEF BothCovered, Family
    <3> QED BY <3>1, <3>2, <3>3, <3>4 DEF Family
  <2> QED BY <2>2, <2>3
<1>14. HandsHoldValid'
  BY <1>1, <1>5, <1>7 DEF HandsHoldValid, Core
<1>15. EndedHaveStarted'
  <2>1. tok[2] <= minted[s] /\ tok[2] \in 1..MaxTokens /\ minted[s] \in Nat
    BY <1>1, <1>2, <1>3, <1>9, TokenFacts, StateFacts DEF Chain
  <2>2. minted[s] > 0
    BY <2>1
  <2> QED BY <1>1, <1>5, <2>2 DEF Core, EndedHaveStarted
<1>16. ASSUME NEW x \in Tokens, InHand(x), x[1] = s
       PROVE  Candidate(x) \in black'
  <2>1. Chain(x) /\ Family(s)
    BY <1>1, <1>3 DEF Core
  <2>2. tok \in gone /\ black' = black \cup gone
    BY <1>3, <1>4, <1>5
  <2>3. CASE successor[x] # NoToken
    <3>1. IsReplaced(x) /\ x # tok /\ Candidate(x) = Follower(x)
      BY <1>2, <2>1, <2>3 DEF Chain, Candidate
    <3>2. ~IsLatest(x) /\ IsLatest(Follower(x)) /\ Follower(x) = Latest(s)
      BY <1>1, <1>16, <3>1, FollowerOfReplaced
    <3>3. ~OnlyLatest(s)
      BY <1>16, <3>2 DEF OnlyLatest
    <3>4. ~LatestLost(s)
      BY <1>16, <2>3 DEF LatestLost
    <3>5. IsLatest(tok) \/ IsReplaced(tok)
      BY <1>2, <1>9, <2>1, <3>3, <3>4 DEF Family, BothCovered
    <3>6. ~IsReplaced(tok)
      BY <1>1, <1>2, <1>9, <1>16, <3>1, OneOfEach
    <3>7. tok = Latest(s)
      BY <1>2, <1>9, <3>5, <3>6, LatestIs
    <3> QED BY <2>2, <3>1, <3>2, <3>7
  <2>4. CASE successor[x] = NoToken
    <3>1. Candidate(x) = x
      BY <2>4 DEF Candidate
    <3>2. CASE x = tok
      BY <2>2, <3>1, <3>2
    <3>3. CASE x \in black
      BY <2>2, <3>1, <3>3
    <3>4. CASE IsReplaced(x) /\ x \notin black
      <4>1. Rotating(x)
        BY <2>1, <3>4 DEF Chain
      <4> QED BY <2>4, <4>1, RotatingFacts
    <3>5. CASE IsLatest(x) /\ x # tok /\ x \notin black
      <4>1. ~IsLatest(tok) /\ x = Latest(s)
        BY <1>1, <1>2, <1>9, <1>16, <3>5, OneOfEach, LatestIs
      <4>2. ~OnlyLatest(s)
        BY <1>2, <1>9, <4>1 DEF OnlyLatest
      <4>3. ~LatestLost(s)
        BY <1>16, <3>5 DEF LatestLost
      <4>4. BothCovered(s)
        BY <2>1, <4>2, <4>3 DEF Family
      <4>5. IsReplaced(tok)
        BY <1>2, <1>9, <4>1, <4>4 DEF BothCovered
      <4>6. ASSUME NEW u \in Tokens, u[1] = s, successor[u] # NoToken
            PROVE  FALSE
        <5>1. IsReplaced(u)
          BY <1>1, <4>6 DEF Core, Chain
        <5>2. u = tok
          BY <1>1, <1>2, <1>9, <4>5, <4>6, <5>1, OneOfEach
        <5> QED BY <1>2, <4>6, <5>2
      <4>7. PICK q \in Places : /\ flight[q].op = "logout" /\ flight[q].stage = "locked"
                                /\ flight[q].next = x
        BY <3>5, <4>1, <4>4, <4>6 DEF BothCovered
      <4>8. /\ flight[q].token \in Tokens /\ IsReplaced(flight[q].token)
            /\ x = Follower(flight[q].token)
        BY <1>1, <4>7, TokenFacts DEF Core, Exchange
      <4>9. flight[q].token = tok
        <5>1. flight[q].token[1] = tok[1]
          BY <1>9, <1>16, <4>8, FollowerFacts
        <5> QED BY <1>1, <1>2, <4>5, <4>8, <5>1, OneOfEach
      <4>10. q = p
        BY <1>2, <4>7, <4>9
      <4>11. x = next /\ x # NoToken
        BY <4>7, <4>10, TokenFacts DEF next
      <4> QED BY <1>4, <2>2, <3>1, <4>11
    <3> QED BY <1>16, <3>2, <3>3, <3>4, <3>5, InHandFacts
  <2> QED BY <2>3, <2>4
<1>17. EndedIsSpent'
  <2>1. ASSUME NEW x \in Tokens, InHand(x), x[1] \in ended
        PROVE  Spent(x)'
    BY <1>1, <1>5, <2>1 DEF Core, EndedIsSpent, Spent, Candidate
  <2>2. ASSUME NEW x \in Tokens, InHand(x), x[1] = s
        PROVE  Spent(x)'
    <3>1. Candidate(x) \in black'
      BY <1>16, <2>2
    <3> QED BY <1>5, <3>1 DEF Spent, Candidate
  <2> QED BY <1>5, <1>7, <2>1, <2>2 DEF EndedIsSpent
<1> QED BY <1>11, <1>12, <1>13, <1>14, <1>15, <1>17 DEF Core

\* Nothing the browser holds changes, and no row of flight.
LEMMA SameHands ==
  ASSUME UNCHANGED <<cookie, flight, minted>>
  PROVE  /\ \A x : InHand(x)' = InHand(x) /\ Rotating(x)' = Rotating(x)
         /\ \A x : IsLatest(x)' = IsLatest(x) /\ IsReplaced(x)' = IsReplaced(x)
BY DEF InHand, Rotating, IsLatest, IsReplaced

\* A new password ends the session without touching its tokens.
LEMMA PasswordCore ==
  ASSUME IInv, NEW s \in Sessions, PasswordChanged(s)
  PROVE  Core'
<1>1. Core
  BY CoreOf
<1>2. /\ refused' = refused \cup {s} /\ ended' = ended \cup {s} /\ minted[s] > 0
      /\ UNCHANGED <<minted, valid, black, successor, aged, cookie, flight>>
  BY DEF PasswordChanged, browser
<1>3. \A x : /\ InHand(x)' = InHand(x) /\ Rotating(x)' = Rotating(x)
             /\ IsLatest(x)' = IsLatest(x) /\ IsReplaced(x)' = IsReplaced(x)
  BY <1>2, SameHands
<1>4. \A x \in Tokens : Chain(x)'
  BY <1>1, <1>2, <1>3 DEF Core, Chain
<1>5. \A p \in Places : Exchange(p)'
  BY <1>1, <1>2 DEF Core, Exchange, IsReplaced
<1>6. ASSUME NEW r \in Sessions PROVE Family(r)'
  <2>1. Family(r)
    BY <1>1 DEF Core
  <2> QED BY <1>2, <1>3, <2>1, OtherFamily
<1>7. HandsHoldValid' /\ EndedHaveStarted'
  BY <1>1, <1>2, <1>3 DEF Core, HandsHoldValid, EndedHaveStarted
<1>8. EndedIsSpent'
  BY <1>1, <1>2, <1>3 DEF Core, EndedIsSpent, Spent, Candidate
<1> QED BY <1>4, <1>5, <1>6, <1>7, <1>8 DEF Core

\* When nothing of the session is on the way, its tokens are with the cookie.
LEMMA OnlyTheCookie ==
  ASSUME IInv, NEW tok \in Tokens, IsReplaced(tok),
         \A p \in Places : flight[p].token[1] # tok[1],
         NEW x \in Tokens, InHand(x), x[1] = tok[1]
  PROVE  x = cookie
<1> SUFFICES ASSUME NEW p \in Places, flight[p].stage = "answered", flight[p].next = x
             PROVE  FALSE
  BY DEF InHand
<1>1. FlightShape(p) /\ FreshLogin(p) /\ TypeOK /\ x # NoToken
  BY TokenFacts DEF IInv
<1>2. flight[p].answer = "granted" /\ flight[p].op # "none"
  BY <1>1 DEF FlightShape
<1>3. flight[p].op = "login"
  BY <1>1, <1>2, FlightFacts DEF FlightShape
<1>4. minted[x[1]] = 1
  BY <1>1, <1>3 DEF FreshLogin
<1>5. tok[2] \in 1..MaxTokens
  BY TokenFacts
<1> QED BY <1>4, <1>5 DEF IsReplaced

\* The grace is over: the old token yields nothing any more.
LEMMA GraceCore ==
  ASSUME IInv, NEW tok \in Tokens, GraceEnds(tok)
  PROVE  Core'
<1> DEFINE s == tok[1]
<1>1. Core /\ TypeOK /\ Chain(tok) /\ s \in Sessions
  BY CoreOf, TokenFacts DEF Core
<1>2. /\ successor[tok] # NoToken /\ \A p \in Places : flight[p].token[1] # s
      /\ successor' = [successor EXCEPT ![tok] = NoToken]
      /\ UNCHANGED <<minted, valid, black, aged, refused, ended, cookie, flight>>
  BY DEF GraceEnds, browser, history
<1>3. \A x : /\ InHand(x)' = InHand(x) /\ Rotating(x)' = Rotating(x)
             /\ IsLatest(x)' = IsLatest(x) /\ IsReplaced(x)' = IsReplaced(x)
  BY <1>2, SameHands
<1>4. successor'[tok] = NoToken /\ \A x \in Tokens \ {tok} : successor'[x] = successor[x]
  BY <1>1, <1>2 DEF TypeOK
<1>5. IsReplaced(tok) /\ ~Rotating(tok) /\ tok \in black
  BY <1>1, <1>2 DEF Chain, Rotating
<1> HIDE DEF s
<1>6. s = tok[1]
  BY DEF s
<1>7. ASSUME NEW x \in Tokens PROVE Chain(x)'
  <2>1. Chain(x) /\ (successor'[x] = NoToken \/ successor'[x] = successor[x])
    BY <1>1, <1>4 DEF Core
  <2> QED BY <1>2, <1>3, <2>1 DEF Chain
<1>8. ASSUME NEW p \in Places PROVE Exchange(p)'
  <2>1. Exchange(p) /\ flight[p].token # tok
    BY <1>1, <1>2, <1>6 DEF Core
  <2>2. flight[p].token \in Tokens => successor'[flight[p].token] = successor[flight[p].token]
    BY <1>4, <2>1
  <2> QED BY <1>2, <2>1, <2>2 DEF Exchange, IsReplaced
<1>9. ASSUME NEW r \in Sessions PROVE Family(r)'
  <2>1. CASE r # s
    BY <1>1, <1>2, <1>3, <1>4, <1>6, <2>1, OtherFamily DEF Core
  <2>2. CASE r = s
    <3>1. \A x \in Tokens : InHand(x) /\ x[1] = s => x = cookie
      BY <1>2, <1>5, <1>6, OnlyTheCookie
    <3>2. \A x \in Tokens : x[1] = s => successor'[x] = NoToken
      <4>1. ASSUME NEW x \in Tokens, x[1] = s, x # tok, successor[x] # NoToken
            PROVE  FALSE
        <5>1. IsReplaced(x)
          BY <1>1, <4>1 DEF Core, Chain
        <5> QED BY <1>1, <1>5, <1>6, <4>1, <5>1, OneOfEach
      <4> QED BY <1>4, <4>1
    <3>3. CASE IsLatest(cookie)
      BY <1>3, <2>2, <3>1, <3>3 DEF OnlyLatest, Family
    <3>4. CASE ~IsLatest(cookie)
      BY <1>3, <2>2, <3>1, <3>2, <3>4 DEF LatestLost, Family
    <3> QED BY <3>3, <3>4
  <2> QED BY <2>1, <2>2
<1>10. HandsHoldValid' /\ EndedHaveStarted'
  BY <1>1, <1>2, <1>3 DEF Core, HandsHoldValid, EndedHaveStarted
<1>11. EndedIsSpent'
  <2>1. ASSUME NEW x \in Tokens, InHand(x), x[1] \in ended
        PROVE  Spent(x)'
    <3>1. CASE x = tok
      BY <1>2, <1>4, <1>5, <3>1 DEF Spent, Candidate
    <3>2. CASE x # tok
      BY <1>1, <1>2, <1>4, <2>1, <3>2 DEF Core, EndedIsSpent, Spent, Candidate
    <3> QED BY <3>1, <3>2
  <2> QED BY <1>2, <1>3, <2>1 DEF EndedIsSpent
<1> QED BY <1>7, <1>8, <1>9, <1>10, <1>11 DEF Core

\* A token that nothing yields and that no request of another token can get ages.
LEMMA HourCore ==
  ASSUME IInv, NEW tok \in Tokens, HourPasses(tok)
  PROVE  Core'
<1>1. Core
  BY CoreOf
<1>2. /\ tok \in valid /\ \A u \in Tokens : successor[u] # tok
      /\ \A p \in Places : flight[p].token \in {tok, NoToken} \/ flight[p].token[1] # tok[1]
      /\ aged' = aged \cup {tok}
      /\ UNCHANGED <<minted, valid, black, successor, refused, ended, cookie, flight>>
  BY DEF HourPasses, browser, history
<1>3. \A x : /\ InHand(x)' = InHand(x) /\ Rotating(x)' = Rotating(x)
             /\ IsLatest(x)' = IsLatest(x) /\ IsReplaced(x)' = IsReplaced(x)
  BY <1>2, SameHands
<1>4. ASSUME NEW x \in Tokens PROVE Chain(x)'
  <2>1. Chain(x) /\ successor[x] # tok
    BY <1>1, <1>2 DEF Core
  <2> QED BY <1>2, <1>3, <2>1 DEF Chain
<1>5. ASSUME NEW p \in Places PROVE Exchange(p)'
  <2> DEFINE old == flight[p].token
  <2>1. Exchange(p)
    BY <1>1 DEF Core
  <2>2. old \in Tokens => Follower(old) # tok
    <3>1. old \in Tokens => old # NoToken /\ Follower(old)[1] = old[1] /\ Follower(old) # old
      BY TokenFacts, FollowerFacts, FollowerIs
    <3> QED BY <1>2, <3>1
  <2> QED BY <1>2, <2>1, <2>2 DEF Exchange, IsReplaced
<1>6. ASSUME NEW r \in Sessions PROVE Family(r)'
  BY <1>1, <1>2, <1>3, OtherFamily DEF Core
<1>7. HandsHoldValid' /\ EndedHaveStarted'
  BY <1>1, <1>2, <1>3 DEF Core, HandsHoldValid, EndedHaveStarted
<1>8. EndedIsSpent'
  BY <1>1, <1>2, <1>3 DEF Core, EndedIsSpent, Spent, Candidate
<1> QED BY <1>4, <1>5, <1>6, <1>7, <1>8 DEF Core

-----------------------------------------------------------------------------
(* The steps that leave the server alone *)

\* A request starts: it has the cookie.
LEMMA SendCore ==
  ASSUME IInv, NEW t \in Tabs, SendRefresh(t) \/ SendLogout(t) \/ SendLogin(t)
  PROVE  Core'
<1>1. TypeOK /\ t \in Places
  BY CoreOf, PlaceFacts
<1>2. PICK op \in {"refresh", "logout", "login"} : Send(t, op)
  BY DEF SendRefresh, SendLogout, SendLogin
<1>3. flight[t].stage = "idle" /\ SameServer /\ UNCHANGED cookie
  BY DEF SendRefresh, SendLogout, SendLogin, MaySend, SameServer, server, history, browser
<1>4. /\ OthersKept(t) /\ flight'[t].stage = "sent" /\ flight'[t].token = cookie
  BY <1>1, <1>2, RowSent
<1>5. LocksKept
  BY <1>1, <1>3, <1>4, LocksStay
<1>6. \A x \in Tokens : InHand(x)' => InHand(x)
  BY <1>3, <1>4 DEF InHand, OthersKept
<1> QED BY <1>3, <1>5, <1>6, QuietCore

\* A refusal, or a logout without a cookie, answers with no token.
LEMMA RefuseCore ==
  ASSUME IInv, NEW p \in Places, RefuseRefresh(p) \/ EmptyLogout(p)
  PROVE  Core'
<1>1. PICK answer \in Answers : Answer(p, answer, NoToken)
  BY DEF RefuseRefresh, EmptyLogout, Answers
<1>2. flight[p].stage = "sent" /\ SameServer /\ UNCHANGED cookie
  BY DEF RefuseRefresh, EmptyLogout, Arrived, SameServer, server, history, browser
<1>3. /\ OthersKept(p) /\ SameRequest(p) /\ flight'[p].stage = "answered"
      /\ flight'[p].next = NoToken
  BY <1>1, CoreOf, TokenFacts, RowAnswered
<1>4. LocksKept
  BY <1>2, <1>3, LocksStay
<1>5. \A x \in Tokens : InHand(x)' => InHand(x)
  BY <1>2, <1>3, HandsOneRow, TokenFacts DEF SameRequest
<1> QED BY <1>2, <1>4, <1>5, QuietCore

\* The tab hears: the cookie is what the answer says.
LEMMA HearCore ==
  ASSUME IInv, NEW t \in Tabs, Hear(t)
  PROVE  Core'
<1>1. TypeOK /\ t \in Places
  BY CoreOf, PlaceFacts
<1>2. /\ flight[t].stage = "answered" /\ SameServer /\ cookie' = CookieOf(flight[t])
      /\ flight' = [flight EXCEPT ![t] = Idle]
  BY DEF Hear, HearRefresh, HearLogin, HearLogout, Answered, Landed, SameServer, server, history
<1>3. OthersKept(t) /\ flight'[t] = Idle
  BY <1>1, <1>2, RowIdled
<1>4. LocksKept
  BY <1>1, <1>2, <1>3, LocksStay, IdleFacts
<1>5. \A x \in Tokens : InHand(x)' => InHand(x)
  <2>1. cookie' \in {flight[t].next, NoToken}
    BY <1>2 DEF CookieOf
  <2> QED BY <1>1, <1>2, <1>3, <2>1, IdleFacts, TokenFacts DEF InHand, OthersKept
<1> QED BY <1>2, <1>4, <1>5, QuietCore

\* The request goes its way alone, in the place of the request nobody waits for.
LEMMA AbandonCore ==
  ASSUME IInv, NEW t \in Tabs, Abandon(t)
  PROVE  Core'
<1>1. TypeOK /\ t \in Places /\ Gone \in Places /\ \A p \in Places : Exchange(p)
  BY CoreOf, PlaceFacts DEF Core
<1>2. /\ flight'[t] = Idle /\ flight'[Gone] = flight[t] /\ t # Gone
      /\ \A q \in Places \ {t, Gone} : flight'[q] = flight[q]
      /\ flight[Gone].stage = "idle"
  BY <1>1, RowAbandoned
<1>3. SameServer /\ UNCHANGED cookie
  BY DEF Abandon, SameServer, server
<1>4. LocksKept
  <2>1. ASSUME NEW q \in Places, flight'[q].stage = "locked"
        PROVE  \E p \in Places : /\ flight[p].stage = "locked" /\ flight'[q] = flight[p]
                                 /\ p = IF q = Gone THEN t ELSE q
    BY <1>1, <1>2, <2>1, IdleFacts
  <2>2. ASSUME NEW p \in Places, flight[p].stage = "locked"
        PROVE  \E q \in Places : flight'[q] = flight[p]
    BY <1>1, <1>2, <2>2
  <2>3. ASSUME NEW p \in Places, NEW q \in Places, p # q,
               flight'[p].stage = "locked", flight'[q].stage = "locked"
        PROVE  flight'[p].token # flight'[q].token
    <3>1. PICK a \in Places : /\ flight[a].stage = "locked" /\ flight'[p] = flight[a]
                              /\ a = IF p = Gone THEN t ELSE p
      BY <2>1, <2>3
    <3>2. PICK b \in Places : /\ flight[b].stage = "locked" /\ flight'[q] = flight[b]
                              /\ b = IF q = Gone THEN t ELSE q
      BY <2>1, <2>3
    <3>3. p # t /\ q # t
      BY <1>2, <2>3, IdleFacts
    <3>4. a # b
      BY <2>3, <3>1, <3>2, <3>3
    <3> QED BY <1>1, <3>1, <3>2, <3>4 DEF Exchange
  <2> QED BY <2>1, <2>2, <2>3 DEF LocksKept
<1>5. \A x \in Tokens : InHand(x)' => InHand(x)
  BY <1>1, <1>2, <1>3, IdleFacts, TokenFacts DEF InHand
<1> QED BY <1>3, <1>4, <1>5, QuietCore

LEMMA UnheardCore ==
  ASSUME IInv, Unheard
  PROVE  Core'
<1>1. TypeOK /\ Gone \in Places
  BY CoreOf DEF Places
<1>2. OthersKept(Gone) /\ flight'[Gone] = Idle /\ flight[Gone].stage = "answered"
  BY <1>1, RowIdled DEF Unheard
<1>3. SameServer /\ UNCHANGED cookie
  BY DEF Unheard, SameServer, server, browser, history
<1>4. LocksKept
  BY <1>1, <1>2, LocksStay, IdleFacts
<1>5. \A x \in Tokens : InHand(x)' => InHand(x)
  BY <1>1, <1>2, <1>3, IdleFacts, TokenFacts DEF InHand, OthersKept
<1> QED BY <1>3, <1>4, <1>5, QuietCore

\* A request whose answer no longer counts goes on all the same.
LEMMA StorageCore ==
  ASSUME IInv, NEW t \in Tabs, StorageEvent(t)
  PROVE  Core'
<1>1. TypeOK /\ t \in Places /\ \A p \in Places : FlightShape(p) /\ Exchange(p)
  BY CoreOf, PlaceFacts DEF Core
<1>2. \A q \in Places : /\ flight'[q].op = flight[q].op /\ flight'[q].token = flight[q].token
                        /\ flight'[q].stage = flight[q].stage
                        /\ flight'[q].next = flight[q].next
  BY <1>1, RowStale DEF OthersKept
<1>3. SameServer /\ UNCHANGED cookie
  BY DEF StorageEvent, SameServer, server, history
<1>4. LocksKept
  BY <1>1, <1>2 DEF LocksKept, Exchange
<1>5. \A x \in Tokens : InHand(x)' => InHand(x)
  BY <1>2, <1>3 DEF InHand
<1> QED BY <1>3, <1>4, <1>5, QuietCore

LEMMA IdleCore ==
  ASSUME IInv, (\E t \in Tabs : Reload(t)) \/ UNCHANGED vars
  PROVE  Core'
<1>1. SameServer /\ UNCHANGED <<flight, cookie>>
  BY DEF Reload, vars, SameServer, server, browser, history
<1>2. \A x \in Tokens : InHand(x)' => InHand(x)
  BY <1>1 DEF InHand
<1> QED BY <1>1, <1>2, QuietCore, LocksUnchanged

LEMMA NextCore ==
  ASSUME IInv, [Next]_vars
  PROVE  Core'
<1>1. CASE \E p \in Places : Serve(p)
  BY <1>1, LoginCore, RefuseCore, KeepCore, RotateCore, RotationCore,
     BeginLogoutCore, CommitLogoutCore DEF Serve
<1>2. CASE ~\E p \in Places : Serve(p)
  BY <1>2, SendCore, PasswordCore, GraceCore, HourCore, HearCore, AbandonCore,
     StorageCore, UnheardCore, IdleCore DEF Next
<1> QED BY <1>1, <1>2

-----------------------------------------------------------------------------
(* Late requests, and the answers to logins *)

LEMMA LateKept ==
  ASSUME NEW p \in Places, NEW q \in Places, LateIsSpent(p), ended \subseteq ended',
         flight'[q].op = flight[p].op, flight'[q].late = flight[p].late,
         flight'[q].token = flight[p].token, flight'[q].stage = flight[p].stage,
         flight'[q].answer = flight[p].answer
  PROVE  LateIsSpent(q)'
BY DEF LateIsSpent

\* Whoever asks late is granted nothing: what it asks with is spent.
LEMMA LateIsNotServed ==
  ASSUME IInv, NEW p \in Places, flight[p].op = "refresh", flight[p].late,
         flight[p].token # NoToken
  PROVE  ~Acceptable(Candidate(flight[p].token))
<1> DEFINE tok == flight[p].token
<1>1. tok \in Tokens /\ InHand(tok) /\ Chain(tok) /\ tok[1] \in ended
  BY CoreOf, FlightFacts, TokenFacts DEF InHand, IInv, LateIsSpent
<1>2. Spent(tok)
  BY <1>1 DEF IInv, EndedIsSpent
<1>3. Candidate(tok)[1] = tok[1]
  BY <1>1, CandidateSession
<1> QED BY <1>2, <1>3 DEF Spent, Acceptable

LEMMA ServeLate ==
  ASSUME IInv, NEW p \in Places, Serve(p), NEW q \in Places
  PROVE  LateIsSpent(q)'
<1>1. TypeOK /\ LateIsSpent(q) /\ LateIsSpent(p) /\ ended \subseteq ended'
  BY DEF IInv, Serve, ServeLogin, RefuseRefresh, Keep, Rotate, CommitRotation,
     BeginLogout, CommitLogout, EmptyLogout, history
<1>2. CASE ServeLogin(p) \/ BeginLogout(p) \/ CommitLogout(p) \/ EmptyLogout(p)
  <2>1. flight[p].op \in {"login", "logout"} /\ flight \in [Places -> Flights]
    BY <1>1, <1>2 DEF ServeLogin, BeginLogout, CommitLogout, EmptyLogout, Arrived, TypeOK
  <2>2. OthersKept(p) /\ flight'[p].op = flight[p].op
    <3>1. flight[p] \in Flights
      BY <2>1
    <3>2. PICK row : flight' = [flight EXCEPT ![p] = row] /\ row.op = flight[p].op
      <4>1. CASE BeginLogout(p)
        <5>1. [flight[p] EXCEPT !.stage = "locked", !.next = successor[flight[p].token]].op = flight[p].op
          BY <3>1 DEF Flights
        <5> QED BY <4>1, <5>1 DEF BeginLogout
      <4>2. CASE \E answer, next : Answer(p, answer, next)
        <5>1. PICK answer, next : Answer(p, answer, next)
          BY <4>2
        <5>2. [flight[p] EXCEPT !.stage = "answered", !.answer = answer, !.next = next].op = flight[p].op
          BY <3>1 DEF Flights
        <5> QED BY <5>1, <5>2 DEF Answer
      <4> QED BY <1>2, <4>1, <4>2 DEF ServeLogin, CommitLogout, EmptyLogout
    <3> QED BY <2>1, <3>2 DEF OthersKept
  <2> QED BY <1>1, <2>1, <2>2, LateKept DEF OthersKept, LateIsSpent
<1>3. CASE RefuseRefresh(p)
  <2>1. Answer(p, "refused", NoToken) /\ "refused" \in Answers /\ NoToken \in Cookies
        /\ flight[p].stage = "sent"
    BY <1>3, TokenFacts DEF RefuseRefresh, Answers, Arrived
  <2>2. OthersKept(p) /\ SameRequest(p) /\ flight'[p].stage = "answered" /\ flight'[p].answer = "refused"
    BY <1>1, <2>1, RowAnswered
  <2> QED BY <1>1, <2>2, LateKept DEF OthersKept, LateIsSpent, SameRequest
<1>4. CASE Keep(p) \/ Rotate(p) \/ CommitRotation(p)
  <2>1. ~flight[p].late
    <3>1. CASE Keep(p)
      BY <3>1, LateIsNotServed DEF Keep, Arrived
    <3>2. CASE Rotate(p)
      BY <3>2, LateIsNotServed DEF Rotate, Arrived, Candidate
    <3>3. CASE CommitRotation(p)
      BY <1>1, <3>3 DEF CommitRotation, LateIsSpent
    <3> QED BY <1>4, <3>1, <3>2, <3>3
  <2>2. OthersKept(p) /\ flight'[p].late = flight[p].late
    <3>1. flight[p] \in Flights /\ flight \in [Places -> Flights]
      BY <1>1 DEF TypeOK
    <3>2. PICK row : flight' = [flight EXCEPT ![p] = row] /\ row.late = flight[p].late
      <4>1. CASE \E next : flight' = [flight EXCEPT ![p].stage = "locked", ![p].next = next]
        <5>1. PICK next : flight' = [flight EXCEPT ![p].stage = "locked", ![p].next = next]
          BY <4>1
        <5>2. [flight[p] EXCEPT !.stage = "locked", !.next = next].late = flight[p].late
          BY <3>1 DEF Flights
        <5> QED BY <5>1, <5>2
      <4>2. CASE \E answer, next : Answer(p, answer, next)
        <5>1. PICK answer, next : Answer(p, answer, next)
          BY <4>2
        <5>2. [flight[p] EXCEPT !.stage = "answered", !.answer = answer, !.next = next].late = flight[p].late
          BY <3>1 DEF Flights
        <5> QED BY <5>1, <5>2 DEF Answer
      <4> QED BY <1>4, <4>1, <4>2 DEF Keep, Rotate, CommitRotation
    <3> QED BY <3>1, <3>2 DEF OthersKept
  <2> QED BY <1>1, <2>1, <2>2, LateKept DEF OthersKept, LateIsSpent
<1> QED BY <1>2, <1>3, <1>4 DEF Serve

LEMMA NextLate ==
  ASSUME IInv, [Next]_vars, NEW q \in Places
  PROVE  LateIsSpent(q)'
<1>1. /\ TypeOK /\ \A p \in Places : LateIsSpent(p) /\ FlightShape(p)
  BY DEF IInv
<1>2. CASE \E p \in Places : Serve(p)
  BY <1>2, ServeLate
<1>3. CASE \E t \in Tabs : SendRefresh(t) \/ SendLogout(t) \/ SendLogin(t)
  <2>1. PICK t \in Tabs : SendRefresh(t) \/ SendLogout(t) \/ SendLogin(t)
    BY <1>3
  <2>2. PICK op \in {"refresh", "logout", "login"} : Send(t, op)
    BY <2>1 DEF SendRefresh, SendLogout, SendLogin
  <2>3. /\ OthersKept(t) /\ flight'[t].stage = "sent" /\ flight'[t].token = cookie
        /\ flight'[t].answer = "none" /\ (flight'[t].late => cookie[1] \in ended)
    BY <1>1, <2>2, RowSent
  <2>4. UNCHANGED ended
    BY <2>1 DEF SendRefresh, SendLogout, SendLogin, history
  <2> QED BY <1>1, <2>3, <2>4 DEF OthersKept, LateIsSpent
<1>4. CASE (\E s \in Sessions : PasswordChanged(s))
           \/ (\E tok \in Tokens : GraceEnds(tok) \/ HourPasses(tok))
           \/ (\E t \in Tabs : Reload(t)) \/ UNCHANGED vars
  <2>1. UNCHANGED flight /\ ended \subseteq ended'
    BY <1>4 DEF PasswordChanged, GraceEnds, HourPasses, Reload, vars, history
  <2> QED BY <1>1, <2>1, LateKept
<1>5. CASE (\E t \in Tabs : Hear(t)) \/ Unheard
  <2>1. PICK p \in Places : flight' = [flight EXCEPT ![p] = Idle]
    BY <1>5, PlaceFacts DEF Hear, HearRefresh, HearLogin, HearLogout, Landed, Unheard, Places
  <2>2. OthersKept(p) /\ flight'[p] = Idle
    BY <1>1, <2>1, RowIdled
  <2>3. UNCHANGED ended
    BY <1>5 DEF Hear, HearRefresh, HearLogin, HearLogout, Unheard, history
  <2> QED BY <1>1, <2>2, <2>3, IdleFacts DEF OthersKept, LateIsSpent
<1>6. CASE \E t \in Tabs : Abandon(t)
  <2>1. PICK t \in Tabs : Abandon(t)
    BY <1>6
  <2>2. /\ flight'[t] = Idle /\ flight'[Gone] = flight[t] /\ t \in Places /\ Gone \in Places
        /\ \A p \in Places \ {t, Gone} : flight'[p] = flight[p]
    BY <1>1, <2>1, RowAbandoned, PlaceFacts
  <2>3. UNCHANGED ended
    BY <2>1 DEF Abandon
  <2> QED BY <1>1, <2>2, <2>3, IdleFacts DEF LateIsSpent
<1>7. CASE \E t \in Tabs : StorageEvent(t)
  <2>1. PICK t \in Tabs : StorageEvent(t)
    BY <1>7
  <2>2. /\ OthersKept(t) /\ t \in Places
        /\ flight'[t].op = flight[t].op /\ flight'[t].token = flight[t].token
        /\ flight'[t].late = flight[t].late /\ flight'[t].stage = flight[t].stage
        /\ flight'[t].answer = flight[t].answer
    BY <1>1, <2>1, RowStale, PlaceFacts
  <2>3. UNCHANGED ended
    BY <2>1 DEF StorageEvent, history
  <2> QED BY <1>1, <2>2, <2>3, LateKept DEF OthersKept
<1> QED BY <1>2, <1>3, <1>4, <1>5, <1>6, <1>7 DEF Next

\* Of a session without tokens nobody holds one.
LEMMA NewSession ==
  ASSUME IInv, NEW s \in Sessions, minted[s] = 0
  PROVE  /\ cookie[1] # s
         /\ \A q \in Places : /\ flight[q].token[1] # s
                              /\ flight[q].stage = "answered" => flight[q].next[1] # s
<1>1. TypeOK
  BY CoreOf
<1>2. \A x \in Tokens : x[1] = s => ~InHand(x)
  <2>1. ASSUME NEW x \in Tokens, x[1] = s, InHand(x) PROVE FALSE
    <3>1. x[2] <= 0 /\ x[2] \in 1..MaxTokens
      BY <2>1, InHandFacts, TokenFacts
    <3> QED BY <3>1
  <2> QED BY <2>1
<1>3. \A x \in Cookies : x[1] = s => x \in Tokens
  BY TokenFacts
<1>4. cookie \in Cookies /\ \A q \in Places : flight[q].token \in Cookies /\ flight[q].next \in Cookies
  BY <1>1, FlightFacts DEF TypeOK
<1> QED BY <1>2, <1>3, <1>4 DEF InHand

\* One row is written, and nobody gets a token of a session that is only in
\* the answer to a login.
LEMMA FreshKept ==
  ASSUME IInv, NEW x \in Places, OthersKept(x), FreshLogin(x)',
         \A r \in Sessions : minted[r] = 1 /\ flight[x].token[1] # r => minted'[r] = 1,
         \/ cookie' \in {cookie, NoToken}
         \/ flight[x].stage = "answered" /\ cookie' = flight[x].next,
         flight'[x].token \in {flight[x].token, cookie, NoToken},
         flight'[x].stage = "answered" =>
           \/ flight'[x].next[1] \in {0, flight[x].token[1]}
           \/ minted[flight'[x].next[1]] = 0,
         NEW p \in Places
  PROVE  FreshLogin(p)'
<1>1. CASE p = x
  BY <1>1
<1>2. CASE p # x /\ flight'[p].op = "login" /\ flight'[p].stage = "answered"
  <2> DEFINE r == flight[p].next[1]
  <2>1. flight'[p] = flight[p] /\ FreshLogin(p) /\ FlightShape(p) /\ TypeOK
    BY <1>2 DEF OthersKept, IInv
  <2>2. r \in Sessions /\ r # 0
    BY <1>2, <2>1, FlightFacts, TokenFacts DEF FlightShape
  <2>3. /\ minted[r] = 1 /\ flight[p].next = Latest(r)
        /\ cookie[1] # r
        /\ \A q \in Places : flight[q].token[1] # r
        /\ \A q \in Places \ {p} : flight[q].stage = "answered" => flight[q].next[1] # r
    BY <1>2, <2>1 DEF FreshLogin
  <2>4. minted'[r] = 1 /\ NoToken[1] = 0
    BY <2>2, <2>3, TokenFacts
  <2> HIDE DEF r
  <2>5. cookie'[1] # r
    BY <1>2, <2>2, <2>3, <2>4
  <2>6. \A q \in Places : flight'[q].token[1] # r
    BY <2>2, <2>3, <2>4 DEF OthersKept
  <2>7. \A q \in Places \ {p} : flight'[q].stage = "answered" => flight'[q].next[1] # r
    <3>1. flight'[x].stage = "answered" => flight'[x].next[1] # r
      BY <2>2, <2>3
    <3> QED BY <2>3, <3>1 DEF OthersKept
  <2>8. flight'[p].next = <<r, minted'[r]>> /\ flight'[p].next[1] = r
    BY <2>1, <2>3, <2>4 DEF Latest, r
  <2> QED BY <2>4, <2>5, <2>6, <2>7, <2>8 DEF FreshLogin, Latest
<1>3. CASE ~(flight'[p].op = "login" /\ flight'[p].stage = "answered")
  BY <1>3 DEF FreshLogin
<1> QED BY <1>1, <1>2, <1>3

LEMMA ServeFresh ==
  ASSUME IInv, NEW x \in Places, Serve(x), NEW p \in Places
  PROVE  FreshLogin(p)'
<1>1. TypeOK /\ {"granted", "refused", "bye"} \subseteq Answers /\ NoToken \in Cookies
      /\ NoToken[1] = 0
  BY TokenFacts DEF IInv, Answers
<1>2. UNCHANGED cookie
  BY DEF Serve, ServeLogin, RefuseRefresh, Keep, Rotate, CommitRotation, BeginLogout,
     CommitLogout, EmptyLogout, browser
<1>3. CASE ServeLogin(x)
  <2>1. PICK s \in Sessions : /\ minted[s] = 0 /\ minted' = [minted EXCEPT ![s] = 1]
                              /\ Answer(x, "granted", <<s, 1>>)
    BY <1>3 DEF ServeLogin
  <2>2. <<s, 1>> \in Cookies
    BY TokenFacts, SessionsAssumption
  <2>3. /\ OthersKept(x) /\ SameRequest(x) /\ flight'[x].stage = "answered"
        /\ flight'[x].next = <<s, 1>>
    BY <1>1, <2>1, <2>2, RowAnswered
  <2>4. minted'[s] = 1 /\ \A r \in Sessions : minted[r] = 1 => minted'[r] = 1
    BY <1>1, <2>1 DEF TypeOK
  <2>5. /\ cookie[1] # s
        /\ \A q \in Places : /\ flight[q].token[1] # s
                             /\ flight[q].stage = "answered" => flight[q].next[1] # s
    BY <2>1, NewSession
  <2>6. FreshLogin(x)'
    <3>1. flight'[x].next[1] = s /\ flight'[x].next = <<s, minted'[s]>>
      BY <2>3, <2>4
    <3>2. \A q \in Places : flight'[q].token[1] # s
      BY <2>3, <2>5 DEF OthersKept, SameRequest
    <3>3. \A q \in Places \ {x} : flight'[q].stage = "answered" => flight'[q].next[1] # s
      BY <2>3, <2>5 DEF OthersKept
    <3> QED BY <1>2, <2>4, <2>5, <3>1, <3>2, <3>3 DEF FreshLogin, Latest
  <2>7. flight'[x].next[1] = s /\ flight'[x].token = flight[x].token
    BY <2>3 DEF SameRequest
  <2> QED BY <1>2, <2>1, <2>3, <2>4, <2>6, <2>7, FreshKept
<1>4. CASE ~ServeLogin(x)
  <2> DEFINE tok == flight[x].token
  <2>1. flight[x].op \in {"refresh", "logout"}
    BY <1>4 DEF Serve, RefuseRefresh, Keep, Rotate, CommitRotation, BeginLogout,
       CommitLogout, EmptyLogout, Arrived
  <2>2. \/ \E answer \in Answers : \E next \in Cookies :
              Answer(x, answer, next) /\ next[1] \in {0, tok[1]}
        \/ \E next \in Cookies : flight' = [flight EXCEPT ![x].stage = "locked", ![x].next = next]
    <3>1. CASE RefuseRefresh(x) \/ EmptyLogout(x) \/ CommitLogout(x)
      BY <1>1, <3>1 DEF RefuseRefresh, EmptyLogout, CommitLogout
    <3>2. CASE Keep(x)
      <4>1. tok \in Tokens
        BY <1>1, <3>2, FlightFacts, TokenFacts DEF Keep
      <4>2. Candidate(tok) \in Cookies /\ Candidate(tok)[1] = tok[1]
        BY <1>1, <4>1, CandidateType, CandidateSession, TokenFacts DEF IInv
      <4> QED BY <1>1, <3>2, <4>2 DEF Keep
    <3>3. CASE CommitRotation(x)
      <4>1. flight[x].next \in Cookies /\ flight[x].next[1] = tok[1]
        BY <1>1, <3>3, FlightFacts, FollowerFacts DEF CommitRotation, IInv, Exchange
      <4> QED BY <1>1, <3>3, <4>1 DEF CommitRotation
    <3>4. CASE Rotate(x)
      <4>1. tok \in Tokens /\ Made < MaxTokens
        BY <1>1, <3>4, FlightFacts, TokenFacts DEF Rotate
      <4>2. <<tok[1], minted[tok[1]] + 1>> \in Cookies
        BY <1>1, <4>1, MadeBounds, TokenFacts
      <4> QED BY <3>4, <4>2 DEF Rotate
    <3>5. CASE BeginLogout(x)
      <4>1. tok \in Tokens
        BY <1>1, <3>5, FlightFacts, TokenFacts DEF BeginLogout
      <4>2. successor[tok] \in Cookies
        BY <1>1, <4>1, StateFacts
      <4> QED BY <3>5, <4>2 DEF BeginLogout
    <3> QED BY <1>4, <3>1, <3>2, <3>3, <3>4, <3>5 DEF Serve
  <2>3. /\ OthersKept(x) /\ SameRequest(x)
        /\ flight'[x].stage = "answered" => flight'[x].next[1] \in {0, tok[1]}
    <3>1. CASE \E answer \in Answers : \E next \in Cookies :
                 Answer(x, answer, next) /\ next[1] \in {0, tok[1]}
      BY <1>1, <3>1, RowAnswered
    <3>2. CASE \E next \in Cookies : flight' = [flight EXCEPT ![x].stage = "locked", ![x].next = next]
      BY <1>1, <3>2, RowLocked
    <3> QED BY <2>2, <3>1, <3>2
  <2>4. \A r \in Sessions : minted[r] = 1 /\ tok[1] # r => minted'[r] = 1
    BY <1>1, <1>4 DEF Serve, RefuseRefresh, Keep, Rotate, CommitRotation, BeginLogout,
       CommitLogout, EmptyLogout, server, TypeOK
  <2>5. FreshLogin(x)'
    BY <2>1, <2>3 DEF FreshLogin, SameRequest
  <2>6. flight'[x].token = flight[x].token
    BY <2>3 DEF SameRequest
  <2> QED BY <1>2, <2>3, <2>4, <2>5, <2>6, FreshKept
<1> QED BY <1>3, <1>4

LEMMA NextFresh ==
  ASSUME IInv, [Next]_vars, NEW p \in Places
  PROVE  FreshLogin(p)'
<1>1. TypeOK /\ \A q \in Places : FreshLogin(q) /\ FlightShape(q)
  BY DEF IInv
<1>2. CASE \E x \in Places : Serve(x)
  BY <1>2, ServeFresh
<1>3. CASE \E t \in Tabs : SendRefresh(t) \/ SendLogout(t) \/ SendLogin(t)
  <2>1. PICK t \in Tabs : SendRefresh(t) \/ SendLogout(t) \/ SendLogin(t)
    BY <1>3
  <2>2. PICK op \in {"refresh", "logout", "login"} : Send(t, op)
    BY <2>1 DEF SendRefresh, SendLogout, SendLogin
  <2>3. OthersKept(t) /\ flight'[t].stage = "sent" /\ flight'[t].token = cookie /\ t \in Places
    BY <1>1, <2>2, RowSent, PlaceFacts
  <2>4. UNCHANGED <<minted, cookie>>
    BY <2>1 DEF SendRefresh, SendLogout, SendLogin, server, browser
  <2>5. FreshLogin(t)'
    BY <2>3 DEF FreshLogin
  <2> QED BY <2>3, <2>4, <2>5, FreshKept
<1>4. CASE (\E s \in Sessions : PasswordChanged(s))
           \/ (\E tok \in Tokens : GraceEnds(tok) \/ HourPasses(tok))
           \/ (\E t \in Tabs : Reload(t)) \/ UNCHANGED vars
  <2>1. UNCHANGED <<flight, minted, cookie>>
    BY <1>4 DEF PasswordChanged, GraceEnds, HourPasses, Reload, vars, server, browser
  <2> QED BY <1>1, <2>1 DEF FreshLogin, Latest
<1>5. CASE (\E t \in Tabs : Hear(t)) \/ Unheard
  <2>1. PICK x \in Places : /\ flight' = [flight EXCEPT ![x] = Idle]
                            /\ flight[x].stage = "answered"
                            /\ cookie' \in {cookie, CookieOf(flight[x])}
    BY <1>5, PlaceFacts DEF Hear, HearRefresh, HearLogin, HearLogout, Landed, Unheard, Places,
       Answered, browser
  <2>2. OthersKept(x) /\ flight'[x] = Idle
    BY <1>1, <2>1, RowIdled
  <2>3. UNCHANGED minted
    BY <1>5 DEF Hear, HearRefresh, HearLogin, HearLogout, Unheard, server
  <2>4. FreshLogin(x)'
    BY <2>2, IdleFacts DEF FreshLogin
  <2>5. cookie' \in {cookie, NoToken} \/ cookie' = flight[x].next
    BY <2>1 DEF CookieOf
  <2>6. flight'[x].token = NoToken /\ flight'[x].stage # "answered"
    BY <2>2, IdleFacts
  <2> QED BY <2>1, <2>2, <2>3, <2>4, <2>5, <2>6, FreshKept
<1>6. CASE \E t \in Tabs : Abandon(t)
  <2>1. PICK t \in Tabs : Abandon(t)
    BY <1>6
  <2>2. /\ flight'[t] = Idle /\ flight'[Gone] = flight[t] /\ t \in Places /\ Gone \in Places
        /\ \A q \in Places \ {t, Gone} : flight'[q] = flight[q]
    BY <1>1, <2>1, RowAbandoned, PlaceFacts
  <2>3. UNCHANGED <<minted, cookie>>
    BY <2>1 DEF Abandon, server
  <2>4. PICK a \in Places : p # t => flight'[p] = flight[a] /\ a = IF p = Gone THEN t ELSE p
    BY <2>2
  <2>5. CASE p # t /\ flight[a].op = "login" /\ flight[a].stage = "answered"
    <3> DEFINE r == flight[a].next[1]
    <3>1. /\ minted[r] = 1 /\ flight[a].next = Latest(r)
          /\ cookie[1] # r /\ r # 0
          /\ \A q \in Places : flight[q].token[1] # r
          /\ \A q \in Places \ {a} : flight[q].stage = "answered" => flight[q].next[1] # r
      BY <1>1, <2>5, FlightFacts, TokenFacts DEF FreshLogin, FlightShape
    <3> HIDE DEF r
    <3>2. \A q \in Places : flight'[q].token[1] # r
      BY <2>2, <3>1, IdleFacts, TokenFacts
    <3>3. \A q \in Places \ {p} : flight'[q].stage = "answered" => flight'[q].next[1] # r
      <4>1. ASSUME NEW q \in Places \ {p}, flight'[q].stage = "answered"
            PROVE  \E b \in Places \ {a} : flight'[q] = flight[b]
        <5>1. q # t
          BY <2>2, <4>1, IdleFacts
        <5> QED BY <2>2, <2>4, <2>5, <4>1, <5>1
      <4> QED BY <3>1, <4>1
    <3>4. flight'[p].next = flight[a].next /\ flight[a].next[1] = r
      BY <2>4, <2>5 DEF r
    <3> QED BY <2>3, <3>1, <3>2, <3>3, <3>4 DEF FreshLogin, Latest
  <2>6. CASE ~(p # t /\ flight[a].op = "login" /\ flight[a].stage = "answered")
    BY <2>2, <2>4, <2>6, IdleFacts DEF FreshLogin
  <2> QED BY <2>5, <2>6
<1>7. CASE \E t \in Tabs : StorageEvent(t)
  <2>1. PICK t \in Tabs : StorageEvent(t)
    BY <1>7
  <2>2. \A q \in Places : /\ flight'[q].op = flight[q].op /\ flight'[q].token = flight[q].token
                          /\ flight'[q].stage = flight[q].stage
                          /\ flight'[q].next = flight[q].next
    BY <1>1, <2>1, RowStale DEF OthersKept
  <2>3. UNCHANGED <<minted, cookie>>
    BY <2>1 DEF StorageEvent, server
  <2> QED BY <1>1, <2>2, <2>3 DEF FreshLogin, Latest
<1> QED BY <1>2, <1>3, <1>4, <1>5, <1>6, <1>7 DEF Next

-----------------------------------------------------------------------------
(* The browser: one request at a time, and the cookie of the running session *)

\* With Web Locks a tab that talks to the server is the only one.
LEMMA TabsIdle ==
  ASSUME IInv, locks, NEW t \in Tabs, flight[t].stage # "idle", NEW u \in Tabs, u # t
  PROVE  flight[u] = Idle
<1>1. flight[u].stage = "idle"
  BY DEF IInv, OneAtATime
<1> QED BY <1>1, PlaceFacts DEF IInv, FlightShape

LEMMA RunningFacts ==
  ASSUME IInv, Running
  PROVE  /\ hint \in Sessions /\ hint # 0 /\ cookie \in Tokens /\ cookie # NoToken
         /\ cookie[1] = hint /\ hint \notin ended /\ locks
<1>1. hint \in Sessions \cup {0} /\ cookie \in Cookies /\ cookie[1] = hint /\ hint # 0
  BY DEF IInv, TypeOK, Running, BrowserHasLatest
<1> QED BY <1>1, TokenFacts DEF Running

\* What a tab asks with is the latest token, and the server accepts it as it is.
LEMMA AskedIsLatest ==
  ASSUME IInv, Running, NEW t \in Tabs, flight[t].op \in {"refresh", "logout"},
         flight[t].stage = "sent"
  PROVE  /\ flight[t].token = cookie /\ cookie = Latest(hint)
         /\ Candidate(cookie) = cookie /\ Acceptable(cookie)
<1>1. /\ hint \in Sessions /\ cookie \in Tokens /\ cookie[1] = hint /\ hint \notin ended /\ locks
      /\ TypeOK /\ Chain(cookie) /\ refused \subseteq ended
  BY RunningFacts DEF IInv, EndedHaveStarted
<1>2. \A u \in Tabs : ~InExchange(u)
  BY <1>1, TabsIdle, IdleFacts DEF InExchange
<1>3. flight[t].token = cookie /\ cookie = Latest(hint)
  BY <1>2 DEF IInv, BrowserHasLatest
<1>4. IsLatest(cookie)
  BY <1>1, <1>3, LatestIs
<1>5. successor[cookie] = NoToken
  BY <1>1, <1>4, OneOfEach DEF Chain
<1> QED BY <1>1, <1>3, <1>4, <1>5 DEF Chain, Candidate, Acceptable

\* The server served a tab.
LEMMA TabServed ==
  ASSUME IInv, NEW p \in Tabs, OthersKept(p), SameRequest(p), flight[p].stage # "idle",
         UNCHANGED <<locks, hint, cookie, excused>>, ended \subseteq ended',
         flight'[p].stage \in {"locked", "answered"},
         Running /\ Running' =>
           /\ ~InExchange(p)' => minted'[hint] = minted[hint]
           /\ flight'[p].stage = "answered" =>
                /\ flight'[p].op # "logout"
                /\ flight'[p].op = "refresh" => flight'[p].next = <<hint, minted'[hint]>>
  PROVE  BrowserHasLatest'
<1> SUFFICES ASSUME Running' PROVE BrowserHasLatest'
  BY DEF BrowserHasLatest
<1>1. Running /\ BrowserHasLatest /\ locks
  BY DEF Running, IInv
<1>2. \A u \in Tabs \ {p} : flight[u] = Idle /\ flight'[u] = Idle
  BY <1>1, TabsIdle, PlaceFacts DEF OthersKept
<1>3. cookie[1] = hint
  BY <1>1 DEF BrowserHasLatest
<1>4. ASSUME \A t \in Tabs : ~InExchange(t)' PROVE cookie = <<hint, minted'[hint]>>
  <2>1. ~InExchange(p)'
    BY <1>4
  <2>2. flight[p].op # "refresh"
    BY <2>1 DEF InExchange, SameRequest
  <2>3. \A u \in Tabs : ~InExchange(u)
    BY <1>2, <2>2, IdleFacts DEF InExchange
  <2>4. cookie = <<hint, minted[hint]>>
    BY <1>1, <2>3 DEF BrowserHasLatest, Latest
  <2> QED BY <1>1, <2>1, <2>4
<1>5. \A u \in Tabs : flight'[u].op \in {"refresh", "logout"} => flight'[u].token = cookie
  BY <1>1, <1>2, IdleFacts DEF BrowserHasLatest, SameRequest
<1>6. \A u \in Tabs : flight'[u].stage = "answered" =>
         /\ flight'[u].op # "logout"
         /\ flight'[u].op = "refresh" => flight'[u].next = <<hint, minted'[hint]>>
  BY <1>1, <1>2, IdleFacts
<1> QED BY <1>3, <1>4, <1>5, <1>6 DEF BrowserHasLatest, Latest

\* The server served the request nobody waits for.
LEMMA GoneServed ==
  ASSUME IInv, OthersKept(Gone), UNCHANGED <<locks, hint, cookie, excused>>, ended \subseteq ended',
         Running => minted'[hint] = minted[hint]
  PROVE  BrowserHasLatest'
<1>1. \A t \in Tabs : flight'[t] = flight[t]
  BY PlaceFacts, GoneAssumption DEF OthersKept
<1>2. Running' => Running
  BY DEF Running
<1> QED BY <1>1, <1>2 DEF IInv, BrowserHasLatest, InExchange, Latest

LEMMA ServeRow ==
  ASSUME IInv, NEW p \in Places, Serve(p)
  PROVE  /\ OthersKept(p) /\ SameRequest(p) /\ flight[p].stage # "idle"
         /\ flight'[p].stage \in {"locked", "answered"}
         /\ UNCHANGED <<locks, browser, excused>> /\ ended \subseteq ended'
         /\ ServeLogin(p) => flight'[p].stage = "answered" /\ flight[p].op = "login"
         /\ Keep(p) \/ CommitRotation(p) => flight'[p].stage = "answered"
         /\ Keep(p) => flight'[p].next = Candidate(flight[p].token)
         /\ CommitRotation(p) => flight'[p].next = flight[p].next
         /\ Rotate(p) \/ BeginLogout(p) => flight'[p].stage = "locked"
<1>1. TypeOK
  BY CoreOf
<1>2. UNCHANGED <<locks, browser, excused>> /\ ended \subseteq ended' /\ flight[p].stage # "idle"
  BY DEF Serve, ServeLogin, RefuseRefresh, Keep, Rotate, CommitRotation,
     BeginLogout, CommitLogout, EmptyLogout, history, Arrived
<1>3. flight[p] \in Flights /\ flight \in [Places -> Flights]
  BY <1>1 DEF TypeOK
<1>4. ASSUME NEW answer, NEW next, Answer(p, answer, next)
      PROVE  OthersKept(p) /\ SameRequest(p) /\ flight'[p].stage = "answered" /\ flight'[p].next = next
  <2> DEFINE row == [flight[p] EXCEPT !.stage = "answered", !.answer = answer, !.next = next]
  <2>1. /\ row.stage = "answered" /\ row.next = next
        /\ row.op = flight[p].op /\ row.token = flight[p].token
        /\ row.late = flight[p].late /\ row.stale = flight[p].stale
    BY <1>3 DEF Flights
  <2>2. flight' = [flight EXCEPT ![p] = row]
    BY <1>3, <1>4 DEF Answer
  <2> HIDE DEF row
  <2> QED BY <1>3, <2>1, <2>2 DEF OthersKept, SameRequest
<1>5. ASSUME NEW next, flight' = [flight EXCEPT ![p].stage = "locked", ![p].next = next]
      PROVE  OthersKept(p) /\ SameRequest(p) /\ flight'[p].stage = "locked"
  <2> DEFINE row == [flight[p] EXCEPT !.stage = "locked", !.next = next]
  <2>1. /\ row.stage = "locked"
        /\ row.op = flight[p].op /\ row.token = flight[p].token
        /\ row.late = flight[p].late /\ row.stale = flight[p].stale
    BY <1>3 DEF Flights
  <2>2. flight' = [flight EXCEPT ![p] = row]
    BY <1>3, <1>5
  <2> HIDE DEF row
  <2> QED BY <1>3, <2>1, <2>2 DEF OthersKept, SameRequest
<1>6. ServeLogin(p) => /\ OthersKept(p) /\ SameRequest(p)
                       /\ flight'[p].stage = "answered" /\ flight[p].op = "login"
  BY <1>4 DEF ServeLogin, Arrived
<1>7. Keep(p) => /\ OthersKept(p) /\ SameRequest(p) /\ flight'[p].stage = "answered"
                 /\ flight'[p].next = Candidate(flight[p].token)
  BY <1>4 DEF Keep
<1>8. CommitRotation(p) => /\ OthersKept(p) /\ SameRequest(p) /\ flight'[p].stage = "answered"
                           /\ flight'[p].next = flight[p].next
  BY <1>4 DEF CommitRotation
<1>9. RefuseRefresh(p) \/ EmptyLogout(p) \/ CommitLogout(p) =>
        OthersKept(p) /\ SameRequest(p) /\ flight'[p].stage = "answered"
  BY <1>4 DEF RefuseRefresh, EmptyLogout, CommitLogout
<1>10. Rotate(p) => OthersKept(p) /\ SameRequest(p) /\ flight'[p].stage = "locked"
  BY <1>5 DEF Rotate
<1>11. BeginLogout(p) => OthersKept(p) /\ SameRequest(p) /\ flight'[p].stage = "locked"
  BY <1>5 DEF BeginLogout
<1> QED BY <1>2, <1>6, <1>7, <1>8, <1>9, <1>10, <1>11 DEF Serve

LEMMA ServeBrowser ==
  ASSUME IInv, NEW p \in Places, Serve(p)
  PROVE  OneAtATime' /\ LostExchangeExcused' /\ BrowserHasLatest'
<1>1. /\ OthersKept(p) /\ SameRequest(p) /\ flight[p].stage # "idle"
      /\ flight'[p].stage \in {"locked", "answered"}
      /\ UNCHANGED <<locks, hint, cookie, excused>> /\ ended \subseteq ended' /\ TypeOK
  BY ServeRow, CoreOf DEF browser
<1>2. OneAtATime'
  BY <1>1, PlaceFacts DEF IInv, OneAtATime, OthersKept
<1>3. LostExchangeExcused'
  BY <1>1 DEF IInv, LostExchangeExcused, OthersKept, SameRequest, Places
\* A new session is not the running one; an exchange nobody waits for excuses its session.
<1>4. p = Gone \/ ~Rotate(p) => (Running => minted'[hint] = minted[hint])
  <2> SUFFICES ASSUME p = Gone \/ ~Rotate(p), Running PROVE minted'[hint] = minted[hint]
    OBVIOUS
  <2>1. hint \in Sessions /\ hint \notin excused /\ cookie[1] = hint /\ hint # 0
    BY RunningFacts DEF Running
  <2>2. CASE ServeLogin(p)
    <3>1. PICK s \in Sessions : minted[s] = 0 /\ minted' = [minted EXCEPT ![s] = 1]
      BY <2>2 DEF ServeLogin
    <3> QED BY <1>1, <2>1, <3>1, NewSession DEF TypeOK
  <2>3. CASE Rotate(p)
    <3> DEFINE tok == flight[p].token
    <3>1. p = Gone /\ flight[p].op = "refresh" /\ tok # NoToken
          /\ minted' = [minted EXCEPT ![tok[1]] = @ + 1]
      BY <2>3 DEF Rotate, Arrived
    <3>2. tok \in Tokens /\ tok[1] # 0
      BY <1>1, <3>1, FlightFacts, TokenFacts
    <3>3. tok[1] \in excused
      BY <3>1, <3>2 DEF IInv, LostExchangeExcused
    <3> QED BY <1>1, <2>1, <3>1, <3>3 DEF TypeOK
  <2> QED BY <2>2, <2>3 DEF Serve, RefuseRefresh, Keep, CommitRotation, BeginLogout,
     CommitLogout, EmptyLogout, server
<1>5. CASE p = Gone
  BY <1>1, <1>2, <1>3, <1>4, <1>5, GoneServed
<1>6. CASE p \in Tabs
  <2>1. ASSUME Running, Running'
        PROVE  /\ ~InExchange(p)' => minted'[hint] = minted[hint]
               /\ flight'[p].stage = "answered" =>
                    /\ flight'[p].op # "logout"
                    /\ flight'[p].op = "refresh" => flight'[p].next = <<hint, minted'[hint]>>
    <3>1. /\ hint \in Sessions /\ hint # 0 /\ cookie \in Tokens /\ cookie # NoToken
          /\ cookie[1] = hint /\ hint \notin ended /\ locks /\ BrowserHasLatest
      BY <2>1, RunningFacts DEF IInv
    <3>2. flight'[p].op = flight[p].op
      BY <1>1 DEF SameRequest
    <3>3. CASE ServeLogin(p)
      BY <1>1, <1>4, <2>1, <3>2, <3>3 DEF ServeLogin, Rotate, Arrived
    <3>4. CASE RefuseRefresh(p)
      BY <1>6, <2>1, <3>1, <3>4, AskedIsLatest DEF RefuseRefresh, Arrived
    <3>5. CASE Keep(p)
      <4>1. /\ flight[p].token = cookie /\ cookie = Latest(hint) /\ Candidate(cookie) = cookie
        BY <1>6, <2>1, <3>5, AskedIsLatest DEF Keep, Arrived
      <4>2. UNCHANGED minted /\ flight[p].op = "refresh"
        BY <3>5 DEF Keep, Arrived
      <4>3. flight'[p].next = cookie
        BY <3>5, <4>1, ServeRow
      <4> QED BY <3>2, <4>1, <4>2, <4>3 DEF Latest
    <3>6. CASE Rotate(p)
      <4>1. flight'[p].stage = "locked" /\ flight[p].op = "refresh"
        BY <3>6, ServeRow DEF Rotate, Arrived
      <4> QED BY <3>2, <4>1 DEF InExchange
    <3>7. CASE CommitRotation(p)
      <4>1. /\ flight[p].op = "refresh" /\ flight[p].stage = "locked" /\ UNCHANGED minted
            /\ flight'[p].next = flight[p].next
        BY <3>7, ServeRow DEF CommitRotation
      <4>2. flight[p].token = cookie
        BY <1>6, <2>1, <3>1, <4>1 DEF BrowserHasLatest
      <4>3. IsReplaced(cookie) /\ flight[p].next = Follower(cookie)
        BY <4>1, <4>2 DEF IInv, Exchange
      <4>4. Follower(cookie) = Latest(hint)
        BY <1>1, <3>1, <4>3, FollowerOfReplaced
      <4> QED BY <3>2, <4>1, <4>3, <4>4 DEF Latest
    <3>8. CASE BeginLogout(p)
      <4>1. flight'[p].stage = "locked" /\ UNCHANGED minted
        BY <3>8, ServeRow DEF BeginLogout
      <4> QED BY <4>1
    <3>9. CASE CommitLogout(p)
      <4>1. flight[p].token[1] \in ended' /\ flight[p].op = "logout"
        BY <3>9 DEF CommitLogout
      <4>2. flight[p].token = cookie
        BY <1>6, <2>1, <3>1, <4>1 DEF BrowserHasLatest
      <4> QED BY <1>1, <2>1, <3>1, <4>1, <4>2 DEF Running
    <3>10. CASE EmptyLogout(p)
      BY <1>6, <2>1, <3>1, <3>10 DEF EmptyLogout, Arrived, BrowserHasLatest
    <3> QED BY <3>3, <3>4, <3>5, <3>6, <3>7, <3>8, <3>9, <3>10 DEF Serve
  <2> QED BY <1>1, <1>2, <1>3, <1>6, <2>1, TabServed
<1> QED BY <1>5, <1>6 DEF Places

\* Nothing but a request of a tab changes: it starts with the cookie.
LEMMA SendBrowser ==
  ASSUME IInv, NEW t \in Tabs, SendRefresh(t) \/ SendLogout(t) \/ SendLogin(t)
  PROVE  OneAtATime' /\ LostExchangeExcused' /\ BrowserHasLatest'
<1>1. TypeOK /\ t \in Places /\ t # Gone
  BY CoreOf, PlaceFacts, GoneAssumption
<1>2. PICK op \in {"refresh", "logout", "login"} : Send(t, op)
  BY DEF SendRefresh, SendLogout, SendLogin
<1>3. /\ OthersKept(t) /\ flight'[t].op = op /\ flight'[t].stage = "sent"
      /\ flight'[t].token = cookie
  BY <1>1, <1>2, RowSent
<1>4. MaySend(t) /\ UNCHANGED <<locks, hint, cookie, excused, ended, minted>>
  BY DEF SendRefresh, SendLogout, SendLogin, server, browser, history
<1>5. OneAtATime'
  BY <1>1, <1>3, <1>4, PlaceFacts DEF MaySend, OneAtATime, OthersKept
<1>6. LostExchangeExcused'
  BY <1>1, <1>3, <1>4 DEF IInv, LostExchangeExcused, OthersKept, Places
<1>7. BrowserHasLatest'
  <2> SUFFICES ASSUME Running' PROVE BrowserHasLatest'
    BY DEF BrowserHasLatest
  <2>1. Running /\ BrowserHasLatest
    BY <1>4 DEF Running, IInv
  <2>2. \A u \in Tabs \ {t} : flight'[u] = flight[u]
    BY <1>3, PlaceFacts DEF OthersKept
  <2>3. flight[t].stage = "idle"
    BY <1>4 DEF MaySend
  <2>4. (\A u \in Tabs : ~InExchange(u)') => \A u \in Tabs : ~InExchange(u)
    BY <2>2, <2>3 DEF InExchange
  <2>5. Latest(hint)' = Latest(hint)
    BY <1>4 DEF Latest
  <2>6. \A u \in Tabs : flight'[u].op \in {"refresh", "logout"} => flight'[u].token = cookie
    BY <1>3, <2>1, <2>2 DEF BrowserHasLatest
  <2>7. \A u \in Tabs : flight'[u].stage = "answered" =>
           /\ flight'[u].op # "logout"
           /\ flight'[u].op = "refresh" => flight'[u].next = Latest(hint)
    BY <1>3, <2>1, <2>2 DEF BrowserHasLatest
  <2> QED BY <1>4, <2>1, <2>4, <2>5, <2>6, <2>7 DEF BrowserHasLatest
<1> QED BY <1>5, <1>6, <1>7

\* After an answer is heard no tab talks to the server.
LEMMA QuietBrowser ==
  ASSUME locks => \A t \in Tabs : flight'[t] = Idle, UNCHANGED locks,
         Running' => cookie' = Latest(hint)'
  PROVE  OneAtATime' /\ BrowserHasLatest'
<1>1. OneAtATime'
  BY IdleFacts DEF OneAtATime
<1>2. Running' => \A t \in Tabs : flight'[t] = Idle
  BY DEF Running
<1>3. Latest(hint)'[1] = hint'
  BY FollowerFacts DEF Latest
<1> QED BY <1>1, <1>2, <1>3, IdleFacts DEF BrowserHasLatest

LEMMA HearBrowser ==
  ASSUME IInv, NEW t \in Tabs, Hear(t)
  PROVE  OneAtATime' /\ LostExchangeExcused' /\ BrowserHasLatest'
<1> DEFINE f == flight[t]
<1>1. TypeOK /\ t \in Places /\ t # Gone /\ FlightShape(t) /\ FreshLogin(t)
  BY PlaceFacts, GoneAssumption DEF IInv
<1>2. /\ f.stage = "answered" /\ cookie' = CookieOf(f)
      /\ flight' = [flight EXCEPT ![t] = Idle] /\ UNCHANGED <<locks, minted, ended>>
  BY DEF Hear, HearRefresh, HearLogin, HearLogout, Answered, Landed, server, history
<1>3. OthersKept(t) /\ flight'[t] = Idle
  BY <1>1, <1>2, RowIdled
<1>4. locks => \A u \in Tabs : flight'[u] = Idle
  BY <1>2, <1>3, TabsIdle, PlaceFacts DEF OthersKept
<1>5. LostExchangeExcused'
  <2>1. flight'[Gone] = flight[Gone]
    BY <1>1, <1>3 DEF OthersKept, Places
  <2>2. flight[Gone].op = "refresh" => flight[Gone].stage # "idle"
    <3>1. FlightShape(Gone)
      BY DEF IInv, Places
    <3> QED BY <3>1, IdleFacts DEF FlightShape
  <2>3. flight[Gone].op = "refresh" => excused \subseteq excused'
    BY <2>2 DEF Hear, HearRefresh, HearLogin, HearLogout, history
  <2> QED BY <2>1, <2>3 DEF IInv, LostExchangeExcused
<1>6. ASSUME Running' PROVE cookie' = Latest(hint)'
  <2>1. locks /\ hint' # 0 /\ hint' \notin ended /\ hint' \notin excused'
    BY <1>2, <1>6 DEF Running
  <2>2. f.answer = "granted" => f.next = cookie'
    BY <1>2 DEF CookieOf
  <2>3. CASE HearRefresh(t)
    <3>1. hint' = hint /\ f.op = "refresh"
      BY <2>1, <2>3 DEF HearRefresh, Forget, Answered
    <3>2. CASE hint \notin excused
      <4>1. f.next = Latest(hint)
        BY <1>2, <2>1, <3>1, <3>2 DEF IInv, BrowserHasLatest, Running
      <4>2. f.next # NoToken
        BY <2>1, <3>1, <4>1, FollowerFacts, TokenFacts
      <4>3. f.answer = "granted"
        BY <1>1, <1>2, <4>2 DEF FlightShape
      <4> QED BY <1>2, <2>2, <3>1, <4>1, <4>3 DEF Latest
    <3>3. CASE hint \in excused
      <4>1. /\ f.answer = "granted" /\ f.next \in Live /\ flight[Gone].stage = "idle"
            /\ f.next[1] = hint
        BY <2>1, <2>3, <3>1, <3>3 DEF HearRefresh
      <4>2. f.next \in Tokens /\ InHand(f.next) /\ f.next \notin black
        BY <1>1, <1>2, <4>1 DEF Live, TypeOK, InHand
      <4>3. ~Rotating(f.next)
        <5>1. \A p \in Places : flight[p].stage # "locked"
          BY <1>2, <2>1, <4>1, TabsIdle, IdleFacts DEF Places
        <5> QED BY <5>1 DEF Rotating
      <4>4. Chain(f.next)
        BY <4>2 DEF IInv
      <4>5. IsLatest(f.next)
        BY <4>2, <4>3, <4>4, InHandFacts DEF Chain
      <4>6. f.next = Latest(hint)
        BY <4>1, <4>2, <4>5, LatestIs
      <4> QED BY <1>2, <2>2, <3>1, <4>1, <4>6 DEF Latest
    <3> QED BY <3>2, <3>3
  <2>4. CASE HearLogin(t)
    <3>1. f.op = "login"
      BY <2>4 DEF HearLogin, Answered
    <3>2. f.answer = "granted" /\ f.next = Latest(f.next[1])
      BY <1>1, <1>2, <3>1 DEF FlightShape, FreshLogin
    <3>3. ~f.stale
      <4>1. f.stale => hint' = hint /\ excused' = excused \cup ({hint} \ {0})
        BY <2>4 DEF HearLogin
      <4> QED BY <2>1, <4>1
    <3>4. hint' = f.next[1]
      BY <2>4, <3>3 DEF HearLogin
    <3> QED BY <1>2, <2>2, <3>2, <3>4 DEF Latest
  <2>5. CASE HearLogout(t)
    <3>1. hint' = hint /\ excused' = excused /\ f.op = "logout"
      BY <2>1, <2>5 DEF HearLogout, LocalLogout, Forget, history, Answered
    <3> QED BY <1>2, <2>1, <3>1 DEF IInv, BrowserHasLatest, Running
  <2> QED BY <2>3, <2>4, <2>5 DEF Hear
<1> QED BY <1>2, <1>4, <1>5, <1>6, QuietBrowser

LEMMA AbandonBrowser ==
  ASSUME IInv, NEW t \in Tabs, Abandon(t)
  PROVE  OneAtATime' /\ LostExchangeExcused' /\ BrowserHasLatest'
<1>1. TypeOK /\ t \in Places
  BY CoreOf, PlaceFacts
<1>2. /\ flight'[t] = Idle /\ flight'[Gone] = flight[t] /\ t # Gone
      /\ \A q \in Places \ {t, Gone} : flight'[q] = flight[q]
      /\ flight[t].stage # "idle"
  BY <1>1, RowAbandoned
<1>3. /\ excused \subseteq excused' /\ UNCHANGED <<locks, minted, cookie, ended>>
      /\ hint' \in {hint, 0}
      /\ flight[t].op = "refresh" => excused' = excused \cup ({flight[t].token[1]} \ {0})
  BY DEF Abandon, LocalLogout, Forget, server
<1>4. locks => \A u \in Tabs : flight'[u] = Idle
  BY <1>2, TabsIdle, PlaceFacts, GoneAssumption
<1>5. LostExchangeExcused'
  BY <1>2, <1>3 DEF LostExchangeExcused
<1>6. ASSUME Running' PROVE cookie' = Latest(hint)'
  <2>1. hint' = hint /\ Running /\ hint \notin excused' /\ locks
    BY <1>3, <1>6 DEF Running
  <2>2. BrowserHasLatest /\ cookie[1] = hint /\ hint # 0
    BY <2>1, RunningFacts DEF IInv
  <2>3. ~InExchange(t)
    BY <1>3, <2>1, <2>2 DEF BrowserHasLatest, InExchange
  <2>4. \A u \in Tabs : ~InExchange(u)
    BY <1>2, <2>1, <2>3, TabsIdle, IdleFacts DEF InExchange
  <2> QED BY <1>3, <2>1, <2>2, <2>4 DEF BrowserHasLatest, Latest
<1> QED BY <1>3, <1>4, <1>5, <1>6, QuietBrowser

\* The other steps leave the tabs, the cookie and what it stands for.
LEMMA RestBrowser ==
  ASSUME IInv, UNCHANGED <<locks, cookie, excused, minted>>, hint' \in {hint, 0},
         ended \subseteq ended',
         \A t \in Tabs : /\ flight'[t].op = flight[t].op /\ flight'[t].token = flight[t].token
                         /\ flight'[t].stage = flight[t].stage
                         /\ flight'[t].next = flight[t].next,
         flight'[Gone] \in {flight[Gone], Idle}
  PROVE  OneAtATime' /\ LostExchangeExcused' /\ BrowserHasLatest'
<1>1. OneAtATime'
  BY DEF IInv, OneAtATime
<1>2. LostExchangeExcused'
  BY IdleFacts DEF IInv, LostExchangeExcused
<1>3. Running' => Running /\ hint' = hint
  BY DEF Running
<1> QED BY <1>1, <1>2, <1>3 DEF IInv, BrowserHasLatest, InExchange, Latest

LEMMA NextBrowser ==
  ASSUME IInv, [Next]_vars
  PROVE  OneAtATime' /\ LostExchangeExcused' /\ BrowserHasLatest'
<1>1. CASE \E p \in Places : Serve(p)
  BY <1>1, ServeBrowser
<1>2. CASE \E t \in Tabs : \/ SendRefresh(t) \/ SendLogout(t) \/ SendLogin(t)
                           \/ Hear(t) \/ Abandon(t)
  BY <1>2, SendBrowser, HearBrowser, AbandonBrowser
<1>3. CASE (\E s \in Sessions : PasswordChanged(s))
           \/ (\E tok \in Tokens : GraceEnds(tok) \/ HourPasses(tok))
           \/ (\E t \in Tabs : Reload(t)) \/ UNCHANGED vars
  <2>1. UNCHANGED <<locks, hint, cookie, excused, minted, flight>> /\ ended \subseteq ended'
    BY <1>3 DEF PasswordChanged, GraceEnds, HourPasses, Reload, vars, server, browser, history
  <2> QED BY <2>1, RestBrowser
<1>4. CASE Unheard
  <2>1. TypeOK /\ Gone \in Places
    BY CoreOf DEF Places
  <2>2. OthersKept(Gone) /\ flight'[Gone] = Idle
    BY <1>4, <2>1, RowIdled DEF Unheard
  <2>3. UNCHANGED <<locks, hint, cookie, excused, minted, ended>>
    BY <1>4 DEF Unheard, server, browser, history
  <2> QED BY <2>2, <2>3, RestBrowser, PlaceFacts, GoneAssumption DEF OthersKept
<1>5. CASE \E t \in Tabs : StorageEvent(t)
  <2>1. PICK t \in Tabs : StorageEvent(t)
    BY <1>5
  <2>2. /\ OthersKept(t)
        /\ flight'[t].op = flight[t].op /\ flight'[t].token = flight[t].token
        /\ flight'[t].stage = flight[t].stage /\ flight'[t].next = flight[t].next
    BY <2>1, RowStale DEF IInv
  <2>3. hint' \in {hint, 0} /\ UNCHANGED <<locks, cookie, excused, minted, ended>>
    BY <2>1 DEF StorageEvent, Forget, server, history
  <2>4. flight'[Gone] = flight[Gone]
    BY <2>2, GoneAssumption DEF OthersKept, Places
  <2> QED BY <2>2, <2>3, <2>4, RestBrowser, PlaceFacts DEF OthersKept
<1> QED BY <1>1, <1>2, <1>3, <1>4, <1>5 DEF Next

-----------------------------------------------------------------------------
(* The theorems *)

LEMMA InitInv ==
  ASSUME Init
  PROVE  IInv
<1>1. /\ minted = [s \in Sessions |-> 0] /\ valid = {} /\ black = {} /\ aged = {} /\ refused = {}
      /\ successor = [t \in Tokens |-> NoToken] /\ cookie = NoToken /\ hint = 0
      /\ flight = [p \in Places |-> Idle] /\ ended = {} /\ excused = {}
      /\ locks \in LockModes /\ news = {} /\ access = [t \in Tabs |-> 0]
  BY DEF Init
<1>2. \A p \in Places : flight[p] = Idle
  BY <1>1
<1>3. TypeOK
  BY <1>1, IdleFacts, TokenFacts, SessionsAssumption DEF TypeOK
<1>4. \A p \in Places : FlightShape(p) /\ Exchange(p) /\ LateIsSpent(p) /\ FreshLogin(p)
  BY <1>2, IdleFacts DEF FlightShape, Exchange, LateIsSpent, FreshLogin
<1>5. \A x \in Tokens : ~InHand(x)
  BY <1>1, <1>2, IdleFacts, TokenFacts DEF InHand
<1>6. ASSUME NEW x \in Tokens PROVE Chain(x)
  <2>1. minted[x[1]] = 0 /\ x[2] \in 1..MaxTokens /\ successor[x] = NoToken
    BY <1>1, TokenFacts
  <2> QED BY <1>1, <2>1 DEF Chain, IsReplaced
<1>7. \A s \in Sessions : Family(s)
  BY <1>5 DEF Family, OnlyLatest
<1>8. HandsHoldValid /\ EndedHaveStarted /\ EndedIsSpent
  BY <1>1, <1>5 DEF HandsHoldValid, EndedHaveStarted, EndedIsSpent
<1>9. OneAtATime /\ LostExchangeExcused /\ BrowserHasLatest
  BY <1>1, <1>2, IdleFacts DEF OneAtATime, LostExchangeExcused, BrowserHasLatest, Running,
     Places
<1> QED BY <1>3, <1>4, <1>6, <1>7, <1>8, <1>9 DEF IInv

LEMMA NextInv ==
  ASSUME IInv, [Next]_vars
  PROVE  IInv'
<1>1. TypeOK' /\ TypedFlights'
  BY NextShape
<1>2. Core'
  BY NextCore
<1>3. \A p \in Places : LateIsSpent(p)' /\ FreshLogin(p)'
  BY NextLate, NextFresh
<1>4. OneAtATime' /\ LostExchangeExcused' /\ BrowserHasLatest'
  BY NextBrowser
<1> QED BY <1>1, <1>2, <1>3, <1>4 DEF IInv, Core, TypedFlights

\* Whatever the tabs ask, lose or hear, and whatever order the server serves
\* them in, the invariant of the chain, the hands and the cookie holds.
THEOREM Invariance == Spec => []IInv
<1>1. Init => IInv
  BY InitInv
<1>2. IInv /\ [Next]_vars => IInv'
  BY NextInv
<1> QED BY <1>1, <1>2, PTL DEF Spec

\* The variables stay within the values the code gives them.
THEOREM TypeCorrect == Spec => []TypeOK
<1>1. IInv => TypeOK
  BY DEF IInv
<1> QED BY <1>1, Invariance, PTL

LEMMA OneLive ==
  ASSUME IInv, NEW a \in Live, NEW b \in Live, a[1] = b[1]
  PROVE  a = b
<1>1. /\ TypeOK /\ a \in Tokens /\ b \in Tokens /\ a \in valid /\ b \in valid
      /\ a \notin black /\ b \notin black /\ Chain(a) /\ Chain(b)
  BY DEF IInv, TypeOK, Live
<1>2. ASSUME NEW x \in {a, b} PROVE IsLatest(x) \/ (IsReplaced(x) /\ Rotating(x))
  <2>1. x \in Tokens /\ x \in valid /\ x \notin black /\ Chain(x)
    BY <1>1, <1>2
  <2>2. x[2] \in Nat /\ minted[x[1]] \in Nat
    BY <1>1, <2>1, TokenFacts, StateFacts
  <2> QED BY <2>1, <2>2 DEF Chain, IsLatest, IsReplaced
<1>3. ASSUME NEW x \in {a, b}, NEW y \in {a, b}, IsReplaced(x), Rotating(x), IsLatest(y)
      PROVE  FALSE
  <2>1. x \in Tokens /\ y \in Tokens /\ x[1] = y[1] /\ y \in valid
    BY <1>1, <1>3
  <2>2. Follower(x) = Latest(x[1]) /\ Follower(x) \notin valid
    BY <1>1, <1>3, <2>1, FollowerOfReplaced, RotatingFacts
  <2>3. y = Latest(x[1])
    BY <1>3, <2>1, LatestIs
  <2> QED BY <2>1, <2>2, <2>3
<1> QED BY <1>1, <1>2, <1>3, OneOfEach

\* A session has one token that works, however many requests exchange its old
\* one at the same time (_lock_outstanding, _rotate).
THEOREM OneSuccessorHolds == Spec => []OneSuccessor
<1>1. ASSUME IInv PROVE OneSuccessor
  <2> SUFFICES ASSUME NEW s \in Sessions
               PROVE  Cardinality({tok \in Live : tok[1] = s}) <= 1
    BY DEF OneSuccessor
  <2> DEFINE S == {tok \in Live : tok[1] = s}
  <2>1. CASE S = {}
    BY <2>1, FS_EmptySet
  <2>2. CASE S # {}
    <3>1. PICK a \in S : TRUE
      BY <2>2
    <3>2. S = {a}
      BY <1>1, <3>1, OneLive
    <3>3. Cardinality({a}) = 1
      BY FS_Singleton
    <3> QED BY <3>2, <3>3
  <2> QED BY <2>1, <2>2
<1> QED BY <1>1, Invariance, PTL

\* Nothing that asks after a committed logout or a new password is granted a
\* token, not even with one exchanged a moment before (end_session).
THEOREM LogoutEndsHolds == Spec => []LogoutEnds
<1>1. IInv => LogoutEnds
  BY DEF IInv, LogoutEnds, LateIsSpent
<1> QED BY <1>1, Invariance, PTL

\* With Web Locks the cookie of a running session is its live token, unless an
\* exchange got lost or no tab announced a login (withAuthLock, accessFor).
THEOREM SessionSurvivesHolds == Spec => []SessionSurvives
<1>1. ASSUME IInv PROVE SessionSurvives
  <2> SUFFICES ASSUME locks, hint # 0, hint \notin ended, hint \notin excused,
                      \A t \in Tabs : flight[t].stage = "idle"
               PROVE  cookie[1] = hint /\ Candidate(cookie) \in Live
    BY DEF SessionSurvives
  <2>1. Running
    BY DEF Running
  <2>2. /\ hint \in Sessions /\ cookie \in Tokens /\ cookie[1] = hint /\ TypeOK
        /\ Chain(cookie) /\ InHand(cookie)
    BY <1>1, <2>1, RunningFacts DEF IInv, InHand
  <2>3. cookie = Latest(hint)
    BY <1>1, <2>1 DEF IInv, BrowserHasLatest, InExchange
  <2>4. IsLatest(cookie)
    BY <2>2, <2>3, LatestIs
  <2>5. successor[cookie] = NoToken /\ cookie \notin black
    BY <2>2, <2>4, OneOfEach DEF Chain
  <2>6. cookie \in valid
    BY <1>1, <2>2, InHandFacts
  <2> QED BY <2>2, <2>5, <2>6 DEF Candidate, Live
<1> QED BY <1>1, Invariance, PTL

\* As long as the cache yields a successor of a session that has not ended, it
\* is one that works, or will be when the exchange commits (_rotate).
THEOREM GraceHoldsHolds == Spec => []GraceHolds
<1>1. ASSUME IInv PROVE GraceHolds
  <2> SUFFICES ASSUME NEW tok \in Tokens, successor[tok] # NoToken, tok[1] \notin ended,
                      ~Rotating(tok)
               PROVE  successor[tok] \in Live
    BY DEF GraceHolds, Rotating
  <2>1. TypeOK /\ Chain(tok)
    BY <1>1 DEF IInv
  <2>2. IsReplaced(tok) /\ successor[tok] = Follower(tok) /\ Follower(tok) \in valid
    BY <2>1 DEF Chain
  <2>3. Follower(tok) \in Tokens /\ IsLatest(Follower(tok)) /\ Follower(tok)[1] = tok[1]
    BY <2>1, <2>2, FollowerOfReplaced
  <2>4. Follower(tok) \notin black
    BY <1>1, <2>3 DEF IInv, Chain
  <2> QED BY <2>2, <2>4 DEF Live
<1> QED BY <1>1, Invariance, PTL
================================================================================
