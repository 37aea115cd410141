--------------------------- MODULE WagonArch_proofs ---------------------------
(* Theorems about WagonArch, for any number of stops, trips, deaths of the   *)
(* importer and interventions of operators.                                  *)
EXTENDS WagonArch, SequenceTheorems, NaturalsInduction, WellFoundedInduction, TLAPS

-----------------------------------------------------------------------------
(* Numbers, and sequences of trips. *)

LEMMA SmallestNumber ==
  ASSUME NEW T, T \subseteq Nat, T # {}
  PROVE  \E x \in T : \A y \in T : x <= y
<1>1. PICK x \in T : \A y \in T : ~ (<<y, x>> \in OpToRel(<, Nat))
  BY NatLessThanWellFounded, WFMin
<1>2. \A y \in T : ~ (y < x)
  BY <1>1 DEF OpToRel
<1> QED BY <1>2

LEMMA MaxIsLargest ==
  ASSUME NEW n \in Nat, NEW S, S \subseteq 0..n, S # {}
  PROVE  Max(S) \in S /\ \A y \in S : y <= Max(S)
<1> DEFINE T == {n - y : y \in S}
<1>1. T \subseteq Nat /\ T # {}
  <2>1. \A y \in S : n - y \in Nat
    OBVIOUS
  <2>2. PICK y \in S : TRUE
    OBVIOUS
  <2> QED BY <2>1, <2>2
<1>2. PICK x \in T : \A y \in T : x <= y
  BY <1>1, SmallestNumber
<1>3. PICK m \in S : x = n - m
  OBVIOUS
<1>4. \A y \in S : m >= y
  BY <1>2, <1>3
<1>5. Max(S) \in S /\ \A y \in S : Max(S) >= y
  BY <1>4 DEF Max
<1> QED BY <1>5

Listed(ts) == Len(ts) \in Nat /\ ts = [w \in 1..Len(ts) |-> ts[w]]

LEMMA ListedIsSeq ==
  ASSUME NEW ts, NEW x, Listed(ts)
  PROVE  \E S : ts \in Seq(S) /\ x \in S
<1> DEFINE S == {ts[w] : w \in 1..Len(ts)} \cup {x}
<1>1. ts \in [1..Len(ts) -> S]
  BY DEF Listed
<1>2. ts \in Seq(S)
  BY <1>1, SeqDef DEF Listed
<1> QED BY <1>2

LEMMA SeqIsListed ==
  ASSUME NEW S, NEW ts \in Seq(S)
  PROVE  Listed(ts) /\ DOMAIN ts = 1..Len(ts)
<1>1. Len(ts) \in Nat /\ ts \in [1..Len(ts) -> S]
  BY LenProperties
<1> QED BY <1>1 DEF Listed

LEMMA Replaced ==
  ASSUME NEW ts, Listed(ts), NEW w, NEW x
  PROVE  LET us == [ts EXCEPT ![w] = x] IN
         /\ Listed(us) /\ DOMAIN us = DOMAIN ts
         /\ \A v \in DOMAIN ts : us[v] = IF v = w THEN x ELSE ts[v]
<1> DEFINE us == [ts EXCEPT ![w] = x]
<1>1. PICK S : ts \in Seq(S) /\ x \in S
  BY ListedIsSeq
<1>2. Len(ts) \in Nat /\ ts \in [1..Len(ts) -> S]
  BY <1>1, LenProperties
<1>3. us \in [1..Len(ts) -> S]
  BY <1>1, <1>2
<1>4. us \in Seq(S)
  BY <1>2, <1>3, SeqDef
<1>5. Listed(us)
  BY <1>4, SeqIsListed
<1>6. DOMAIN us = DOMAIN ts /\ \A v \in DOMAIN ts : us[v] = IF v = w THEN x ELSE ts[v]
  BY <1>2
<1> QED BY <1>5, <1>6

LEMMA Appended ==
  ASSUME NEW ts, Listed(ts), NEW x
  PROVE  LET us == Append(ts, x) IN
         /\ Listed(us) /\ DOMAIN ts = 1..Len(ts) /\ DOMAIN us = 1..(Len(ts) + 1)
         /\ \A v \in DOMAIN ts : us[v] = ts[v]
         /\ us[Len(ts) + 1] = x
<1> DEFINE us == Append(ts, x)
<1>1. PICK S : ts \in Seq(S) /\ x \in S
  BY ListedIsSeq
<1>2. us \in Seq(S) /\ Len(us) = Len(ts) + 1
  BY <1>1, AppendProperties
<1>3. /\ \A v \in 1..Len(ts) : us[v] = ts[v]
      /\ us[Len(ts) + 1] = x
  BY <1>1, AppendProperties
<1>4. Listed(us) /\ DOMAIN us = 1..Len(us) /\ DOMAIN ts = 1..Len(ts)
  BY <1>1, <1>2, SeqIsListed
<1> QED BY <1>2, <1>3, <1>4

-----------------------------------------------------------------------------
(* What happens to rows and trips. *)

LEMMA RowFieldsAre ==
  RowFields = {"number", "full", "since", "trip", "opened", "root", "entered", "left",
               "exit", "gap", "out", "status", "blocked"}
BY DEF RowFields, Row

LEMMA TripFieldsAre ==
  TripFields = {"number", "state", "by", "planned", "silo", "gross", "tare"}
BY DEF TripFields, Trip

\* A row, or an object, that is still the same stop.
Same(s, r) ==
  /\ IsRow(r)
  /\ r.opened = s.opened /\ r.root = s.root /\ r.trip \in {s.trip, 0}
  /\ r.status = "open" => s.status = "open"

LEMMA RowsKept ==
  ASSUME NEW s, IsRow(s)
  PROVE  /\ Same(s, s) /\ Same(s, Cleared(s)) /\ Same(s, Blocked(s)) /\ Same(s, Parked(s))
         /\ Same(s, TripDeleted(s)) /\ Same(s, Closed(s))
         /\ Same(s, Cleared(TripDeleted(s)))
         /\ Same(s, [Closed(s) EXCEPT !.out = TRUE])
         /\ Same(s, [Cleared(s) EXCEPT !.entered = TRUE])
BY RowFieldsAre DEF Same, IsRow, Cleared, Blocked, Parked, TripDeleted, Closed

\* What a step may do to a trip that stays who it is.
Harmless(t, u) ==
  /\ DOMAIN u = TripFields
  /\ u.by = t.by
  /\ u.state \in {"expected", "arrived"} => u.gross = 0 /\ u.tare = 0
  /\ u.state = "expected" => t.state = "expected"
  /\ t.state = "deleted" => u.state = "deleted"
  /\ (t.gross # 0 /\ t.state # "discrepancy") => u.gross = t.gross
  /\ t.state \in {"completed", "deleted"} => u.gross = t.gross /\ u.tare = t.tare

\* No weight of a stop is booked on it.
Calm(t, u) ==
  /\ u.gross > 0 => u.gross = t.gross
  /\ u.tare > 0 => u.tare = t.tare

WellTrip(t) ==
  /\ DOMAIN t = TripFields
  /\ t.state \in {"expected", "arrived"} => t.gross = 0 /\ t.tare = 0

LEMMA SameTrip ==
  ASSUME NEW t, WellTrip(t)
  PROVE  Harmless(t, t) /\ Calm(t, t)
BY DEF WellTrip, Harmless, Calm

LEMMA EntryIsHarmless ==
  ASSUME NEW t, WellTrip(t), NEW b \in BOOLEAN, NEW by,
         CanEnter([t EXCEPT !.silo = b])
  PROVE  LET u == Entered([t EXCEPT !.silo = b], by) IN
         Harmless(t, u) /\ u.gross = by /\ u.tare = t.tare /\ t.state # "deleted"
BY TripFieldsAre DEF WellTrip, Harmless, CanEnter, Entered

LEMMA ExitIsHarmless ==
  ASSUME NEW t, WellTrip(t), NEW by, NEW kg, CanExit(t, kg), NEW u \in Exited(t, by)
  PROVE  Harmless(t, u) /\ u.gross = t.gross /\ u.tare = by /\ t.state # "deleted"
<1>1. PICK state \in {"completed", "discrepancy"} :
        u = [t EXCEPT !.tare = by, !.state = state]
  BY DEF Exited
<1>2. t.state \in {"at_silo", "discrepancy"}
  BY DEF CanExit
<1> QED BY <1>1, <1>2, TripFieldsAre DEF WellTrip, Harmless

\* An exit weighing closes the stop, or leaves the trip alone.
LEMMA ExitsAre ==
  ASSUME NEW i, NEW s, IsRow(s), NEW t, NEW o \in Exits(i, s, t)
  PROVE  /\ Same(s, o.row) /\ o.row.trip = s.trip
         /\ \/ o.trip = t
            \/ o.trip \in Exited(t, i) /\ CanExit(t, s.exit) /\ o.row.status = "closed"
<1> DEFINE closed == [Closed(s) EXCEPT !.out = TRUE]
<1>1. Same(s, Parked(s)) /\ Same(s, closed)
  BY RowsKept
<1>2. closed.status = "closed" /\ closed.trip = s.trip /\ Parked(s).trip = s.trip
  BY RowFieldsAre DEF IsRow, Closed, Parked
<1>3. CASE o = [row |-> Parked(s), trip |-> t]
  BY <1>1, <1>2, <1>3
<1>4. CASE CanExit(t, s.exit) /\ \E x \in Exited(t, i) : o = [row |-> closed, trip |-> x]
  <2> HIDE DEF closed
  <2> QED BY <1>1, <1>2, <1>4
<1> QED BY <1>3, <1>4 DEF Exits

LEMMA ExitsAreHarmless ==
  ASSUME NEW i, NEW s, IsRow(s), NEW t, WellTrip(t), NEW o \in Exits(i, s, t)
  PROVE  Harmless(t, o.trip)
BY ExitsAre, SameTrip, ExitIsHarmless

LEMMA DecidedIs ==
  ASSUME NEW s, IsRow(s), NEW t, NEW r \in Decided(s, t)
  PROVE  Same(s, r) /\ (r.trip = s.trip \/ (r.trip = 0 /\ t.state = "deleted"))
<1>1. Same(s, r)
  BY RowsKept DEF Decided
<1>2. Closed(s).trip = s.trip /\ Parked(s).trip = s.trip
  BY RowFieldsAre DEF IsRow, Closed, Parked
<1>3. CASE t.state = "deleted"
  BY <1>1, <1>3 DEF Same
<1>4. CASE t.state # "deleted"
  BY <1>1, <1>2, <1>4 DEF Decided
<1> QED BY <1>1, <1>3, <1>4

LEMMA DepartedIs ==
  ASSUME NEW i, NEW s, IsRow(s), NEW o \in Departed(i, s)
  PROVE  LET t == TripOf(s.trip) IN
         /\ Same(s, o.row)
         /\ o.row.trip = s.trip \/ (o.row.trip = 0 /\ t.state = "deleted")
         /\ \/ o.trip = t
            \/ o.trip \in Exited(t, i) /\ CanExit(t, s.exit) /\ o.row.status = "closed"
<1> DEFINE t == TripOf(s.trip)
<1>1. CASE o = [row |-> s, trip |-> t]
  BY <1>1, RowsKept
<1>2. CASE \E r \in Decided(s, t) : o = [row |-> r, trip |-> t]
  BY <1>2, DecidedIs
<1>3. CASE o \in Exits(i, s, t)
  BY <1>3, ExitsAre
<1> QED BY <1>1, <1>2, <1>3 DEF Departed

-----------------------------------------------------------------------------
(* What is enough for a step to preserve the invariant. *)

KeptIn(ts) ==
  /\ Listed(ts) /\ DOMAIN ts = DOMAIN trips
  /\ \A w \in DOMAIN trips : Harmless(trips[w], ts[w])

RowsSame(rows) ==
  /\ DOMAIN rows = DOMAIN stops
  /\ \A j \in DOMAIN stops : Same(stops[j], rows[j])

BookedIn(ts, rows) ==
  \A i \in DOMAIN rows :
    LET t == ts[rows[i].trip] IN
    rows[i].trip # 0 => /\ t.gross > 0 => t.gross = Root(i, rows[i])
                        /\ t.tare > 0 => i <= t.tare /\ rows[i].status # "open"

\* The weights of trip w suit its stops.
Fits(w, t, rows) ==
  \A i \in DOMAIN stops :
    stops[i].trip = w =>
      /\ t.gross > 0 => t.gross = Root(i, stops[i])
      /\ t.tare > 0 => i <= t.tare /\ rows[i].status # "open"

LEMMA BookedIsBookedIn == Booked <=> BookedIn(trips, stops)
BY DEF Booked, BookedIn

LEMMA TripsAreWell ==
  ASSUME IInv
  PROVE  /\ Listed(trips) /\ DOMAIN trips = 1..Len(trips) /\ 0 \notin DOMAIN trips
         /\ \A w \in DOMAIN trips : WellTrip(trips[w])
<1>1. Listed(trips)
  BY DEF IInv, WellFormed, Listed
<1>2. DOMAIN trips = 1..Len(trips)
  BY <1>1 DEF Listed
<1> QED BY <1>1, <1>2 DEF IInv, WellFormed, NotWeighedYet, WellTrip

LEMMA RowsAreRows ==
  ASSUME IInv
  PROVE  /\ \A j \in DOMAIN stops : j \in Stops /\ IsRow(stops[j])
         /\ \A j \in DOMAIN mem : j \in DOMAIN stops /\ IsRow(mem[j])
BY DEF IInv, WellFormed, InMemory, Faithful

LEMMA TripsKept ==
  ASSUME IInv
  PROVE  KeptIn(trips)
BY TripsAreWell, SameTrip DEF KeptIn

LEMMA RowsStay ==
  ASSUME IInv
  PROVE  RowsSame(stops)
BY RowsKept, RowsAreRows DEF RowsSame

LEMMA WithTripKept ==
  ASSUME IInv, NEW w, NEW u, w \in DOMAIN trips => Harmless(trips[w], u)
  PROVE  LET ts == [trips EXCEPT ![w] = u] IN
         /\ KeptIn(ts)
         /\ \A v \in DOMAIN trips : ts[v] = IF v = w THEN u ELSE trips[v]
<1> DEFINE ts == [trips EXCEPT ![w] = u]
<1>1. /\ Listed(ts) /\ DOMAIN ts = DOMAIN trips
      /\ \A v \in DOMAIN trips : ts[v] = IF v = w THEN u ELSE trips[v]
  BY TripsAreWell, Replaced
<1>2. KeptIn(trips)
  BY TripsKept
<1>3. KeptIn(ts)
  <2> HIDE DEF ts
  <2> QED BY <1>1, <1>2 DEF KeptIn
<1> QED BY <1>1, <1>3

\* Booked weights go on fitting whatever stays of the rows.
LEMMA CalmFits ==
  ASSUME IInv, NEW w \in DOMAIN trips, NEW u, Calm(trips[w], u), NEW rows, RowsSame(rows)
  PROVE  Fits(w, u, rows)
<1> SUFFICES ASSUME NEW i \in DOMAIN stops, stops[i].trip = w
             PROVE  /\ u.gross > 0 => u.gross = Root(i, stops[i])
                    /\ u.tare > 0 => i <= u.tare /\ rows[i].status # "open"
  BY DEF Fits
<1>1. w # 0
  BY TripsAreWell
<1>2. /\ trips[w].gross > 0 => trips[w].gross = Root(i, stops[i])
      /\ trips[w].tare > 0 => i <= trips[w].tare /\ stops[i].status # "open"
  BY <1>1 DEF IInv, Booked
<1>3. rows[i].status = "open" => stops[i].status = "open"
  BY DEF RowsSame, Same
<1> QED BY <1>2, <1>3 DEF Calm

LEMMA FitsMakeBooked ==
  ASSUME IInv, NEW rows, RowsSame(rows), NEW ts,
         \A w \in DOMAIN trips : Fits(w, ts[w], rows)
  PROVE  BookedIn(ts, rows)
<1> SUFFICES ASSUME NEW i \in DOMAIN rows, rows[i].trip # 0
             PROVE  LET t == ts[rows[i].trip] IN
                    /\ t.gross > 0 => t.gross = Root(i, rows[i])
                    /\ t.tare > 0 => i <= t.tare /\ rows[i].status # "open"
  BY DEF BookedIn
<1>1. i \in DOMAIN stops /\ stops[i].trip = rows[i].trip /\ stops[i].root = rows[i].root
  BY DEF RowsSame, Same
<1>2. stops[i].trip \in DOMAIN trips /\ Root(i, stops[i]) = Root(i, rows[i])
  BY <1>1 DEF IInv, Linked, Root
<1> QED BY <1>1, <1>2 DEF Fits

LEMMA CalmStaysBooked ==
  ASSUME IInv, NEW rows, RowsSame(rows), NEW ts,
         \A w \in DOMAIN trips : Calm(trips[w], ts[w])
  PROVE  BookedIn(ts, rows)
BY CalmFits, FitsMakeBooked

LEMMA TripsStayBooked ==
  ASSUME IInv, NEW rows, RowsSame(rows)
  PROVE  BookedIn(trips, rows)
<1>1. \A w \in DOMAIN trips : Calm(trips[w], trips[w])
  BY DEF Calm
<1> QED BY <1>1, CalmStaysBooked

NotWeighedTwice ==
  \A w \in DOMAIN trips :
    /\ (trips[w].gross # 0 /\ trips[w].state # "discrepancy") =>
         trips'[w].gross = trips[w].gross
    /\ trips[w].state \in {"completed", "deleted"} =>
         trips'[w].gross = trips[w].gross /\ trips'[w].tare = trips[w].tare

Good == IInv' /\ NotWeighedTwice

LEMMA GoodWhen ==
  ASSUME IInv, KeptIn(trips'), RowsSame(stops'), BookedIn(trips', stops'),
         InMemory', LastOfTrip'
  PROVE  Good
<1>1. WellFormed'
  BY RowsAreRows DEF KeptIn, RowsSame, Same, WellFormed, Listed, Harmless
<1>2. Remembered'
  BY DEF IInv, KeptIn, RowsSame, Same, Remembered, Harmless
<1>3. OneTripPerStop'
  BY DEF IInv, KeptIn, OneTripPerStop, Harmless
<1>4. NotWeighedYet'
  BY DEF KeptIn, NotWeighedYet, Harmless
<1>5. Linked'
  BY DEF IInv, KeptIn, RowsSame, Same, Linked, Harmless
<1>6. OneChainPerTrip'
  BY DEF IInv, RowsSame, Same, OneChainPerTrip, Root
<1>7. Booked'
  BY DEF Booked, BookedIn
<1>8. NotWeighedTwice
  BY DEF KeptIn, NotWeighedTwice, Harmless
<1> QED BY <1>1, <1>2, <1>3, <1>4, <1>5, <1>6, <1>7, <1>8 DEF IInv, Good

-----------------------------------------------------------------------------
(* The importer's objects. *)

Gone(w) == w \in DOMAIN trips /\ trips[w].state = "deleted"

\* Rows lose their trip only with it.
Detached(rows, ts) ==
  \A j \in DOMAIN stops :
    \/ rows[j].trip = stops[j].trip
    \/ /\ rows[j].trip = 0 /\ stops[j].trip \in DOMAIN ts
       /\ ts[stops[j].trip].state = "deleted"

LEMMA SavedRows ==
  ASSUME NEW db, NEW i \in DOMAIN db, NEW s, IsRow(s)
  PROVE  /\ DOMAIN Save(db, i, s) = DOMAIN db
         /\ \A j \in DOMAIN db : j # i => Save(db, i, s)[j] = db[j]
         /\ IsRow(Save(db, i, s)[i])
BY DEF Save, IsRow

LEMMA SavedFields ==
  ASSUME NEW db, NEW i \in DOMAIN db, NEW s, IsRow(s)
  PROVE  LET r == Save(db, i, s)[i] IN
         /\ r.opened = IF s.opened # mem[i].opened THEN s.opened ELSE db[i].opened
         /\ r.root = IF s.root # mem[i].root THEN s.root ELSE db[i].root
         /\ r.trip = IF s.trip # mem[i].trip THEN s.trip ELSE db[i].trip
         /\ r.status = IF s.status # mem[i].status THEN s.status ELSE db[i].status
<1> DEFINE r == Save(db, i, s)[i]
<1>1. r = [f \in RowFields |-> IF s[f] # mem[i][f] THEN s[f] ELSE db[i][f]]
  BY DEF Save, IsRow
<1> HIDE DEF r
<1>2. r.opened = IF s.opened # mem[i].opened THEN s.opened ELSE db[i].opened
  BY <1>1, RowFieldsAre
<1>3. r.root = IF s.root # mem[i].root THEN s.root ELSE db[i].root
  BY <1>1, RowFieldsAre
<1>4. r.trip = IF s.trip # mem[i].trip THEN s.trip ELSE db[i].trip
  BY <1>1, RowFieldsAre
<1>5. r.status = IF s.status # mem[i].status THEN s.status ELSE db[i].status
  BY <1>1, RowFieldsAre
<1> QED BY <1>2, <1>3, <1>4, <1>5 DEF r

LEMMA StaysFaithful ==
  ASSUME KeptIn(trips'), NEW m, NEW r, Faithful(m, r, trips), NEW q, Same(r, q),
         \/ q.trip = r.trip
         \/ q.trip = 0 /\ r.trip \in DOMAIN trips' /\ trips'[r.trip].state = "deleted"
  PROVE  Faithful(m, q, trips')
BY DEF KeptIn, Harmless, Faithful, Same

LEMMA SavesSame ==
  ASSUME IInv, KeptIn(trips'), NEW i \in DOMAIN mem, NEW s, Same(mem[i], s), Saves(i, s)
  PROVE  /\ RowsSame(stops')
         /\ DOMAIN mem' = DOMAIN mem
         /\ \A j \in DOMAIN mem : Faithful(mem[j], stops[j], trips)
         /\ \A j \in DOMAIN mem : Faithful(mem'[j], stops'[j], trips')
<1> DEFINE db == Save(stops, i, s)
<1>1. IsRow(s) /\ i \in DOMAIN stops /\ IsRow(mem[i]) /\ Faithful(mem[i], stops[i], trips)
  BY RowsAreRows DEF Same, IInv, InMemory
<1>2. stops' = db /\ mem' = [mem EXCEPT ![i] = s]
  BY DEF Saves
<1>3. /\ DOMAIN db = DOMAIN stops
      /\ \A j \in DOMAIN stops : j # i => db[j] = stops[j]
      /\ IsRow(db[i])
  BY <1>1, SavedRows
<1>4. /\ db[i].opened = IF s.opened # mem[i].opened THEN s.opened ELSE stops[i].opened
      /\ db[i].root = IF s.root # mem[i].root THEN s.root ELSE stops[i].root
      /\ db[i].trip = IF s.trip # mem[i].trip THEN s.trip ELSE stops[i].trip
      /\ db[i].status = IF s.status # mem[i].status THEN s.status ELSE stops[i].status
  BY <1>1, SavedFields
<1> HIDE DEF db
<1>5. Same(stops[i], db[i])
  BY <1>1, <1>3, <1>4 DEF Same, Faithful
<1>6. RowsSame(stops')
  BY <1>2, <1>3, <1>5, RowsStay DEF RowsSame
<1>7. Faithful(s, stops'[i], trips')
  BY <1>1, <1>2, <1>4 DEF Same, Faithful, KeptIn, Harmless
<1>8. \A j \in DOMAIN mem : Faithful(mem'[j], stops'[j], trips')
  <2> SUFFICES ASSUME NEW j \in DOMAIN mem PROVE Faithful(mem'[j], stops'[j], trips')
    OBVIOUS
  <2>1. CASE j = i
    BY <1>2, <1>7, <2>1
  <2>2. CASE j # i
    <3>1. mem'[j] = mem[j] /\ stops'[j] = stops[j] /\ Faithful(mem[j], stops[j], trips)
      BY <1>2, <1>3, <2>2 DEF IInv, InMemory
    <3> QED BY <3>1 DEF Faithful, KeptIn, Harmless
  <2> QED BY <2>1, <2>2
<1> QED BY <1>2, <1>6, <1>8 DEF IInv, InMemory

\* The tick goes on with a stop it has read.
GoesOn(i) ==
  \/ phase # "departures" /\ \E step \in {"enter", "weigh"} : Turn(step, i)
  \/ phase = "departures" /\ Turn("exit", i)
  \/ Finish(i)

LEMMA InMemoryStays ==
  ASSUME IInv, NEW i \in DOMAIN mem, GoesOn(i), DOMAIN stops \subseteq DOMAIN stops',
         DOMAIN mem' = DOMAIN mem,
         \A j \in DOMAIN mem : Faithful(mem'[j], stops'[j], trips')
  PROVE  InMemory'
<1>1. todo' \subseteq todo /\ phase' = phase
  BY DEF GoesOn, Turn, Finish
<1>2. job'.step \notin {"rest", "ack"} => job'.stop = i
  BY DEF GoesOn, Turn, Finish, Job, Rest
<1>3. JobOfPhase'
  BY <1>1 DEF GoesOn, Turn, Finish, Job, Rest, JobOfPhase
<1> QED BY <1>1, <1>2, <1>3 DEF IInv, InMemory

LEMMA InMemoryUntouched ==
  ASSUME IInv, KeptIn(trips'), RowsSame(stops'), Detached(stops', trips'), UNCHANGED importer
  PROVE  InMemory'
<1>1. \A j \in DOMAIN mem : Faithful(mem'[j], stops'[j], trips')
  BY StaysFaithful DEF IInv, InMemory, RowsSame, Detached, importer
<1> QED BY <1>1 DEF IInv, InMemory, RowsSame, JobOfPhase, importer

LEMMA StillLast ==
  ASSUME IInv, RowsSame(stops'),
         phase' = "departures" => phase = "departures" /\ DOMAIN mem' \subseteq DOMAIN mem
  PROVE  LastOfTrip'
BY DEF IInv, InMemory, LastOfTrip, RowsSame, Same

LEMMA AtIsRead ==
  ASSUME IInv, NEW i, NEW step \in {"open", "enter", "weigh", "exit"}, At(i, step)
  PROVE  /\ i \in DOMAIN mem /\ i \in DOMAIN stops /\ i \in Stops
         /\ IsRow(mem[i]) /\ Faithful(mem[i], stops[i], trips)
         /\ step = "exit" <=> phase = "departures"
<1>1. i \in DOMAIN mem
  BY DEF IInv, InMemory, At, IsNext, Job
<1>2. step = "exit" <=> phase = "departures"
  BY DEF IInv, InMemory, JobOfPhase, At, Job
<1> QED BY <1>1, <1>2, RowsAreRows DEF IInv, InMemory

-----------------------------------------------------------------------------
(* Kinds of steps. *)

\* The importer saves a stop and goes on.
LEMMA SavesIsGood ==
  ASSUME IInv, NEW i \in DOMAIN mem, NEW s, Same(mem[i], s), Saves(i, s), GoesOn(i),
         KeptIn(trips'), BookedIn(trips', stops')
  PROVE  Good
<1>1. /\ RowsSame(stops') /\ DOMAIN mem' = DOMAIN mem
      /\ \A j \in DOMAIN mem : Faithful(mem'[j], stops'[j], trips')
  BY SavesSame
<1>2. InMemory'
  BY <1>1, InMemoryStays DEF RowsSame
<1>3. phase' = phase
  BY DEF GoesOn, Turn, Finish
<1>4. LastOfTrip'
  BY <1>1, <1>3, StillLast
<1> QED BY <1>1, <1>2, <1>4, GoodWhen

LEMMA OnlySavesIsGood ==
  ASSUME IInv, NEW i \in DOMAIN mem, NEW s, Same(mem[i], s), Saves(i, s), GoesOn(i),
         trips' = trips
  PROVE  Good
<1>1. KeptIn(trips')
  BY TripsKept DEF KeptIn
<1>2. RowsSame(stops')
  BY <1>1, SavesSame
<1>3. BookedIn(trips, stops')
  BY <1>2, TripsStayBooked
<1> QED BY <1>1, <1>3, SavesIsGood

LEMMA OnlyGoesOnIsGood ==
  ASSUME IInv, NEW i \in DOMAIN mem, GoesOn(i), UNCHANGED <<stops, mem, trips>>
  PROVE  Good
<1>1. KeptIn(trips') /\ RowsSame(stops') /\ BookedIn(trips', stops')
  BY TripsKept, RowsStay, TripsStayBooked DEF KeptIn, RowsSame, BookedIn
<1>2. \A j \in DOMAIN mem : Faithful(mem'[j], stops'[j], trips')
  BY DEF IInv, InMemory, Faithful
<1>3. InMemory'
  BY <1>2, InMemoryStays
<1>4. phase' = phase
  BY DEF GoesOn, Turn, Finish
<1>5. LastOfTrip'
  BY <1>1, <1>4, StillLast
<1> QED BY <1>1, <1>3, <1>5, GoodWhen

\* Somebody else changes rows, the importer's objects stay as they are.
LEMMA BesideIsGood ==
  ASSUME IInv, KeptIn(trips'), RowsSame(stops'), BookedIn(trips', stops'),
         Detached(stops', trips'), UNCHANGED importer
  PROVE  Good
<1>1. InMemory'
  BY InMemoryUntouched
<1>2. LastOfTrip'
  BY StillLast DEF importer
<1> QED BY <1>1, <1>2, GoodWhen

LEMMA NothingIsGood ==
  ASSUME IInv, UNCHANGED <<stops, trips, importer>>
  PROVE  Good
<1>1. KeptIn(trips') /\ RowsSame(stops') /\ BookedIn(trips', stops')
  BY TripsKept, RowsStay, TripsStayBooked DEF KeptIn, RowsSame, BookedIn
<1>2. Detached(stops', trips')
  BY DEF Detached
<1> QED BY <1>1, <1>2, BesideIsGood

\* The importer lets go of its objects.
LEMMA LetsGoIsGood ==
  ASSUME IInv, UNCHANGED <<stops, trips>>, DOMAIN mem' = {}, job' = Rest, todo' = {}
  PROVE  Good
<1>1. KeptIn(trips') /\ RowsSame(stops') /\ BookedIn(trips', stops')
  BY TripsKept, RowsStay, TripsStayBooked DEF KeptIn, RowsSame, BookedIn
<1>2. InMemory' /\ LastOfTrip'
  BY DEF InMemory, JobOfPhase, Rest, LastOfTrip
<1> QED BY <1>1, <1>2, GoodWhen

\* It reads them again.
LEMMA ReadsIsGood ==
  ASSUME IInv, NEW S, S \subseteq DOMAIN stops, Reads(S), phase' # "import", job = Rest,
         phase' = "departures" => \A i \in S : stops[i].status = "open",
         UNCHANGED <<stops, trips, job>>
  PROVE  Good
<1>1. KeptIn(trips') /\ RowsSame(stops') /\ BookedIn(trips', stops')
  BY TripsKept, RowsStay, TripsStayBooked DEF KeptIn, RowsSame, BookedIn
<1>2. InMemory'
  BY DEF IInv, WellFormed, InMemory, JobOfPhase, Faithful, Reads, Rest
<1>3. LastOfTrip'
  BY DEF IInv, OneChainPerTrip, LastOfTrip, Reads
<1> QED BY <1>1, <1>2, <1>3, GoodWhen

-----------------------------------------------------------------------------
(* The importer: events and loops. *)

LEMMA ImportArrivalIsGood ==
  ASSUME IInv, Reported, ImportArrival
  PROVE  Good
<1> DEFINE e == Head(feed)
           s == Row(e.number, e.full, e.since)
<1>1. phase = "import" /\ phase' = phase /\ todo' = todo /\ todo = {}
  BY DEF ImportArrival, Turn, IInv, InMemory
<1>2. trips' = trips
  BY DEF ImportArrival
<1>3. CASE e.stop \in DOMAIN stops
  <2>1. UNCHANGED <<stops, mem>> /\ job' = Job("ack", e.stop)
    BY <1>3 DEF ImportArrival, Turn
  <2>2. KeptIn(trips') /\ RowsSame(stops') /\ BookedIn(trips', stops')
    BY <1>2, <2>1, TripsKept, RowsStay, TripsStayBooked DEF KeptIn, RowsSame, BookedIn
  <2>3. InMemory' /\ LastOfTrip'
    BY <1>1, <1>2, <2>1 DEF IInv, InMemory, JobOfPhase, Job, LastOfTrip
  <2> QED BY <2>2, <2>3, GoodWhen
<1>4. CASE e.stop \notin DOMAIN stops
  <2>1. /\ stops' = [i \in DOMAIN stops \cup {e.stop} |-> IF i = e.stop THEN s ELSE stops[i]]
        /\ mem' = [i \in {e.stop} |-> s]
        /\ job' = Job("open", e.stop)
    BY <1>4 DEF ImportArrival, Turn
  <2>2. /\ IsRow(s) /\ s.opened = 0 /\ s.trip = 0 /\ s.root = 0
    BY DEF IsRow, RowFields, Row
  <2>3. e.stop \in Stops
    <3>1. e \in Events
      BY HeadTailProperties DEF Reported, ImportArrival
    <3> QED BY <3>1 DEF Events
  <2> HIDE DEF s, e
  <2>4. WellFormed'
    BY <1>2, <2>1, <2>2, <2>3 DEF IInv, WellFormed
  <2>5. InMemory' /\ LastOfTrip'
    BY <1>1, <2>1, <2>2 DEF InMemory, JobOfPhase, Faithful, Job, LastOfTrip
  <2>6. Remembered' /\ OneTripPerStop' /\ NotWeighedYet' /\ NotWeighedTwice
    BY <1>2, <1>4, <2>1
       DEF IInv, Remembered, OneTripPerStop, NotWeighedYet, NotWeighedTwice
  <2>7. Linked'
    BY <1>2, <2>1, <2>2, <2>3 DEF IInv, Linked, Stops
  <2>8. OneChainPerTrip'
    BY <2>1, <2>2 DEF IInv, OneChainPerTrip
  <2>9. Booked'
    BY <1>2, <2>1, <2>2 DEF IInv, Booked
  <2> QED BY <2>4, <2>5, <2>6, <2>7, <2>8, <2>9 DEF IInv, Good
<1> QED BY <1>3, <1>4

LEMMA ImportDepartureIsGood ==
  ASSUME IInv, ImportDeparture
  PROVE  Good
<1> DEFINE e == Head(feed)
           s == [stops[e.stop] EXCEPT !.left = TRUE, !.exit = e.exit, !.gap = e.gap]
<1>1. /\ phase = "import" /\ phase' = phase /\ todo' = todo /\ mem' = mem
      /\ job' = Job("ack", e.stop) /\ trips' = trips
  BY DEF ImportDeparture, Turn
<1>2. /\ RowsSame(stops')
      /\ \A j \in DOMAIN stops : stops'[j].trip = stops[j].trip
  <2>1. CASE stops' = stops
    BY <2>1, RowsStay DEF RowsSame
  <2>2. CASE e.stop \in DOMAIN stops /\ stops' = [stops EXCEPT ![e.stop] = s]
    <3>1. Same(stops[e.stop], s) /\ s.trip = stops[e.stop].trip
      BY <2>2, RowsAreRows, RowFieldsAre DEF Same, IsRow
    <3> HIDE DEF s
    <3> QED BY <2>2, <3>1, RowsStay DEF RowsSame
  <2> QED BY <2>1, <2>2 DEF ImportDeparture
<1>3. KeptIn(trips') /\ BookedIn(trips', stops')
  BY <1>1, <1>2, TripsKept, TripsStayBooked DEF KeptIn
<1>4. \A j \in DOMAIN mem : Faithful(mem'[j], stops'[j], trips')
  BY <1>1, <1>2, <1>3, StaysFaithful DEF IInv, InMemory, RowsSame
<1>5. InMemory' /\ LastOfTrip'
  BY <1>1, <1>2, <1>4 DEF IInv, InMemory, JobOfPhase, RowsSame, Job, LastOfTrip
<1> QED BY <1>2, <1>3, <1>5, GoodWhen

LEMMA AckIsGood ==
  ASSUME IInv, Ack
  PROVE  Good
<1>1. /\ DOMAIN mem' = {} /\ job' = Rest /\ UNCHANGED <<stops, trips>>
      /\ todo' = {}
  BY DEF Ack, IInv, InMemory, JobOfPhase
<1> QED BY <1>1, LetsGoIsGood

LEMMA LoopsAreGood ==
  ASSUME IInv, ReadArrivals \/ ReadDepartures \/ EndTick \/ TickDies
  PROVE  Good
<1>1. CASE ReadArrivals
  <2> DEFINE S == {i \in DOMAIN stops : stops[i].status = "open" /\ ~stops[i].entered}
  <2>1. S \subseteq DOMAIN stops
    OBVIOUS
  <2>2. /\ Reads(S) /\ phase' = "arrivals" /\ job = Rest
        /\ UNCHANGED <<stops, trips, job>>
    BY <1>1 DEF ReadArrivals
  <2> HIDE DEF S
  <2> QED BY <2>1, <2>2, ReadsIsGood
<1>2. CASE ReadDepartures
  <2> DEFINE S == {i \in DOMAIN stops : stops[i].status = "open" /\ stops[i].left /\ ~stops[i].out}
  <2>1. S \subseteq DOMAIN stops /\ \A i \in S : stops[i].status = "open"
    OBVIOUS
  <2>2. /\ Reads(S) /\ phase' = "departures" /\ job = Rest
        /\ UNCHANGED <<stops, trips, job>>
    BY <1>2 DEF ReadDepartures
  <2> HIDE DEF S
  <2> QED BY <2>1, <2>2, ReadsIsGood
<1>3. CASE EndTick \/ TickDies
  <2>1. /\ DOMAIN mem' = {} /\ job' = Rest /\ todo' = {}
        /\ UNCHANGED <<stops, trips>>
    BY <1>3 DEF EndTick, TickDies
  <2> QED BY <2>1, LetsGoIsGood
<1> QED BY <1>1, <1>2, <1>3

-----------------------------------------------------------------------------
(* The importer: one stop. *)

LEMMA OpenNothingIsGood ==
  ASSUME IInv, NEW i, OpenNothing(i)
  PROVE  Good
<1>1. i \in DOMAIN mem /\ IsRow(mem[i])
  BY AtIsRead DEF OpenNothing
<1>2. Saves(i, Parked(mem[i])) /\ GoesOn(i) /\ trips' = trips
  BY DEF OpenNothing, GoesOn
<1> QED BY <1>1, <1>2, RowsKept, OnlySavesIsGood

LEMMA OpenedBeforeIsGood ==
  ASSUME IInv, NEW i, OpenedBefore(i)
  PROVE  Good
<1>1. i \in DOMAIN mem /\ phase # "departures"
  BY AtIsRead DEF OpenedBefore
<1>2. GoesOn(i) /\ UNCHANGED <<stops, mem, trips>>
  BY <1>1 DEF OpenedBefore, GoesOn
<1> QED BY <1>1, <1>2, OnlyGoesOnIsGood

LEMMA EnterIsGood ==
  ASSUME IInv, NEW i, Enter(i)
  PROVE  Good
<1> DEFINE s == mem[i]
           x == [Cleared(s) EXCEPT !.entered = TRUE]
<1>1. i \in DOMAIN mem /\ IsRow(s) /\ phase # "departures"
  BY AtIsRead DEF Enter
<1>2. GoesOn(i) /\ trips' = trips
  BY <1>1 DEF Enter, GoesOn
<1>3. CASE UNCHANGED <<stops, mem>>
  BY <1>1, <1>2, <1>3, OnlyGoesOnIsGood
<1>4. Same(s, Cleared(s)) /\ Same(s, Cleared(TripDeleted(s))) /\ Same(s, x)
  BY <1>1, RowsKept
<1>5. CASE Saves(i, Cleared(s)) \/ Saves(i, Cleared(TripDeleted(s))) \/ Saves(i, x)
  <2>1. PICK r \in {Cleared(s), Cleared(TripDeleted(s)), x} : Saves(i, r)
    BY <1>5
  <2>2. Same(s, r)
    BY <1>4
  <2> QED BY <1>1, <1>2, <2>1, <2>2, OnlySavesIsGood
<1> QED BY <1>3, <1>5 DEF Enter

LEMMA LeaveIsGood ==
  ASSUME IInv, NEW i, Leave(i)
  PROVE  Good
<1> DEFINE t == TripOf(mem[i].trip)
<1>1. i \in DOMAIN mem /\ IsRow(mem[i]) /\ phase = "departures"
  BY RowsAreRows DEF IInv, InMemory, Leave, IsNext
<1>2. GoesOn(i) /\ trips' = trips
  BY <1>1 DEF Leave, GoesOn
<1>3. CASE UNCHANGED <<stops, mem>>
  BY <1>1, <1>2, <1>3, OnlyGoesOnIsGood
<1>4. CASE \E r \in Decided(mem[i], t) : Saves(i, r)
  <2>1. PICK r \in Decided(mem[i], t) : Saves(i, r)
    BY <1>4
  <2>2. Same(mem[i], r)
    BY <1>1, DecidedIs
  <2> QED BY <1>1, <1>2, <2>1, <2>2, OnlySavesIsGood
<1> QED BY <1>3, <1>4 DEF Leave

\* The stop whose object has a trip that is not deleted has it still.
LEMMA StillItsTrip ==
  ASSUME IInv, NEW i \in DOMAIN mem, NEW w \in DOMAIN trips, mem[i].trip = w,
         trips[w].state # "deleted"
  PROVE  i \in DOMAIN stops /\ stops[i].trip = w /\ Root(i, stops[i]) = Root(i, mem[i])
BY DEF IInv, InMemory, Faithful, Root

LEMMA SameRoot ==
  ASSUME IInv, NEW i \in DOMAIN stops, NEW j \in DOMAIN stops,
         stops[i].trip # 0, stops[i].trip = stops[j].trip
  PROVE  Root(i, stops[i]) = Root(j, stops[j])
<1>1. i \in Nat /\ j \in Nat
  BY RowsAreRows, ArchAssumption DEF ArchAssumption, Stops
<1>2. i < j \/ j < i \/ i = j
  BY <1>1
<1> QED BY <1>2 DEF IInv, OneChainPerTrip

LEMMA WeighEntryIsGood ==
  ASSUME IInv, NEW i, WeighEntry(i)
  PROVE  Good
<1> DEFINE s == mem[i]
<1>1. i \in DOMAIN mem /\ IsRow(s)
  BY AtIsRead DEF WeighEntry
<1>2. CASE /\ DOMAIN mem' = {} /\ job' = Rest /\ todo' = {}
           /\ UNCHANGED <<stops, trips>>
  BY <1>2, LetsGoIsGood
<1>3. CASE Saves(i, Parked(s)) /\ Finish(i) /\ UNCHANGED trips
  BY <1>1, <1>3, RowsKept, OnlySavesIsGood DEF GoesOn
<1>4. ASSUME NEW b \in BOOLEAN,
             LET t == [trips[s.trip] EXCEPT !.silo = @ \/ b] IN
             /\ IF CanEnter(t)
                THEN /\ Saves(i, [Cleared(s) EXCEPT !.entered = TRUE])
                     /\ trips' = [trips EXCEPT ![s.trip] = Entered(t, Root(i, s))]
                ELSE Saves(i, Blocked(s)) /\ UNCHANGED trips
             /\ Finish(i)
      PROVE  Good
  <2> DEFINE x == [Cleared(s) EXCEPT !.entered = TRUE]
             w == s.trip
             t == [trips[w] EXCEPT !.silo = @ \/ b]
             u == Entered(t, Root(i, s))
  <2>1. GoesOn(i)
    BY <1>4 DEF GoesOn
  <2>2. CASE Saves(i, Blocked(s)) /\ UNCHANGED trips
    BY <1>1, <2>1, <2>2, RowsKept, OnlySavesIsGood
  <2>3. CASE CanEnter(t) /\ Saves(i, x) /\ trips' = [trips EXCEPT ![w] = u]
    <3>1. Same(s, x)
      BY <1>1, RowsKept
    <3>2. w \in DOMAIN trips =>
            /\ Harmless(trips[w], u) /\ u.gross = Root(i, s) /\ u.tare = trips[w].tare
            /\ trips[w].state # "deleted"
      BY <2>3, TripsAreWell, TripFieldsAre DEF WellTrip, Harmless, CanEnter, Entered
    <3> HIDE DEF u
    <3>3. /\ KeptIn(trips')
          /\ \A v \in DOMAIN trips : trips'[v] = IF v = w THEN u ELSE trips[v]
      BY <2>3, <3>2, WithTripKept
    <3>4. RowsSame(stops')
      BY <1>1, <2>3, <3>1, <3>3, SavesSame
    <3>5. ASSUME NEW v \in DOMAIN trips PROVE Fits(v, trips'[v], stops')
      <4>1. CASE v # w
        BY <3>3, <3>4, <4>1, CalmFits DEF Calm
      <4>2. CASE v = w
        <5>1. \A j \in DOMAIN stops : stops[j].trip = w => u.gross = Root(j, stops[j])
          BY <1>1, <3>2, <4>2, StillItsTrip, SameRoot, TripsAreWell
        <5>2. Fits(w, trips[w], stops')
          BY <3>4, <4>2, CalmFits DEF Calm
        <5> QED BY <3>2, <3>3, <4>2, <5>1, <5>2 DEF Fits
      <4> QED BY <4>1, <4>2
    <3>6. BookedIn(trips', stops')
      BY <3>4, <3>5, FitsMakeBooked
    <3> QED BY <1>1, <2>1, <2>3, <3>1, <3>3, <3>6, SavesIsGood
  <2> QED BY <1>4, <2>2, <2>3
<1>5. \/ /\ DOMAIN mem' = {} /\ job' = Rest /\ todo' = {}
         /\ UNCHANGED <<stops, trips>>
      \/ Saves(i, Parked(s)) /\ Finish(i) /\ UNCHANGED trips
      \/ \E b \in BOOLEAN :
            LET t == [trips[s.trip] EXCEPT !.silo = @ \/ b] IN
            /\ IF CanEnter(t)
               THEN /\ Saves(i, [Cleared(s) EXCEPT !.entered = TRUE])
                    /\ trips' = [trips EXCEPT ![s.trip] = Entered(t, Root(i, s))]
               ELSE Saves(i, Blocked(s)) /\ UNCHANGED trips
            /\ Finish(i)
  BY DEF WeighEntry
<1> QED BY <1>2, <1>3, <1>4, <1>5

\* Weighing the last stop of a trip empty.
LEMMA ExitFits ==
  ASSUME IInv, NEW i \in DOMAIN stops, NEW w \in DOMAIN trips, stops[i].trip = w,
         \A j \in DOMAIN stops : i < j => stops[j].trip # w,
         NEW rows, RowsSame(rows), rows[i].status # "open",
         NEW u, u.gross = trips[w].gross, u.tare = i
  PROVE  Fits(w, u, rows)
<1> SUFFICES ASSUME NEW j \in DOMAIN stops, stops[j].trip = w
             PROVE  /\ u.gross > 0 => u.gross = Root(j, stops[j])
                    /\ j <= i /\ rows[j].status # "open"
  BY DEF Fits
<1>1. w # 0 /\ i \in Nat /\ j \in Nat
  BY TripsAreWell, RowsAreRows, ArchAssumption DEF ArchAssumption, Stops
<1>2. u.gross > 0 => u.gross = Root(j, stops[j])
  BY <1>1 DEF IInv, Booked
<1>3. j <= i
  BY <1>1
<1>4. rows[j].status # "open"
  <2>1. CASE j = i
    BY <2>1
  <2>2. CASE j # i
    <3>1. stops[j].status # "open"
      BY <1>1, <1>3, <2>2 DEF IInv, OneChainPerTrip
    <3> QED BY <3>1 DEF RowsSame, Same
  <2> QED BY <2>1, <2>2
<1> QED BY <1>2, <1>3, <1>4

LEMMA WeighExitIsGood ==
  ASSUME IInv, NEW i, WeighExit(i)
  PROVE  Good
<1> DEFINE s == mem[i]
           w == s.trip
           t == trips[w]
<1>1. i \in DOMAIN mem /\ IsRow(s) /\ phase = "departures"
  BY AtIsRead DEF WeighExit
<1>2. GoesOn(i)
  BY DEF WeighExit, GoesOn
<1>3. CASE Saves(i, TripDeleted(s)) /\ UNCHANGED trips
  BY <1>1, <1>2, <1>3, RowsKept, OnlySavesIsGood
<1>4. CASE \E o \in Exits(i, s, t) : Saves(i, o.row) /\ trips' = WithTrip(w, o.trip)
  <2>1. PICK o \in Exits(i, s, t) : Saves(i, o.row) /\ trips' = WithTrip(w, o.trip)
    BY <1>4
  <2>2. /\ Same(s, o.row)
        /\ \/ o.trip = t
           \/ o.trip \in Exited(t, i) /\ CanExit(t, s.exit) /\ o.row.status = "closed"
    BY <1>1, ExitsAre
  <2>3. w \in DOMAIN trips => WellTrip(t) /\ w # 0
    BY TripsAreWell
  <2>4. w \in DOMAIN trips => Harmless(t, o.trip)
    BY <1>1, <2>3, ExitsAreHarmless
  <2> HIDE DEF w
  <2>5. /\ KeptIn(trips')
        /\ \A v \in DOMAIN trips : trips'[v] = IF v = w THEN o.trip ELSE trips[v]
    <3>1. CASE w = 0
      BY <2>1, <3>1, TripsKept, TripsAreWell DEF WithTrip
    <3>2. CASE w # 0
      BY <2>1, <2>4, <3>2, WithTripKept DEF WithTrip
    <3> QED BY <3>1, <3>2
  <2>6. /\ RowsSame(stops') /\ mem' = [mem EXCEPT ![i] = o.row]
        /\ Faithful(mem'[i], stops'[i], trips')
    BY <1>1, <2>1, <2>2, <2>5, SavesSame DEF Saves
  <2>7. ASSUME NEW v \in DOMAIN trips PROVE Fits(v, trips'[v], stops')
    <3>1. CASE trips'[v] = trips[v]
      BY <2>6, <3>1, CalmFits DEF Calm
    <3>2. CASE v = w /\ o.trip \in Exited(t, i) /\ CanExit(t, s.exit) /\ o.row.status = "closed"
      <4>1. /\ o.trip.gross = t.gross /\ o.trip.tare = i /\ t.state # "deleted"
        BY <2>3, <3>2, ExitIsHarmless
      <4>2. i \in DOMAIN stops /\ stops[i].trip = w
        BY <1>1, <3>2, <4>1, StillItsTrip DEF w
      <4>3. \A j \in DOMAIN stops : i < j => stops[j].trip # w
        BY <1>1, <2>3, <3>2, <4>2 DEF IInv, LastOfTrip
      <4>4. stops'[i].status # "open"
        BY <1>1, <2>6, <3>2 DEF Faithful
      <4>5. Fits(w, o.trip, stops')
        BY <2>6, <3>2, <4>1, <4>2, <4>3, <4>4, ExitFits
      <4> QED BY <2>5, <3>2, <4>5
    <3> QED BY <2>2, <2>5, <3>1, <3>2
  <2>8. BookedIn(trips', stops')
    BY <2>6, <2>7, FitsMakeBooked
  <2> QED BY <1>1, <1>2, <2>1, <2>2, <2>5, <2>8, SavesIsGood
<1> QED BY <1>3, <1>4 DEF WeighExit

-----------------------------------------------------------------------------
(* The importer: a new wagon, or the same one moved. *)

LEMMA PreviousWaits ==
  ASSUME IInv, NEW i \in Stops, Previous(i) # 0
  PROVE  LET p == Previous(i) IN
         /\ p \in DOMAIN stops /\ p \in Nat /\ p # 0 /\ p < i
         /\ stops[p].status = "open"
<1>1. i \in Nat
  BY ArchAssumption DEF ArchAssumption, Stops
<1>2. Waiting(i) \subseteq 0..i
  BY <1>1, RowsAreRows, ArchAssumption DEF Waiting, Stops, ArchAssumption
<1>3. Waiting(i) # {} /\ Previous(i) = Max(Waiting(i))
  BY DEF Previous
<1>4. Previous(i) \in Waiting(i)
  BY <1>1, <1>2, <1>3, MaxIsLargest
<1> QED BY <1>1, <1>2, <1>4 DEF Waiting

LEMMA ContinueTripIsGood ==
  ASSUME IInv, NEW i \in Stops, ContinueTrip(i)
  PROVE  Good
<1> DEFINE p == Previous(i)
           w == stops[p].trip
           s == [mem[i] EXCEPT !.trip = w, !.opened = w, !.root = Root(p, stops[p]),
                               !.entered = stops[p].entered]
           db == Save(stops, i, s)
<1>1. /\ i \in DOMAIN mem /\ i \in DOMAIN stops /\ IsRow(mem[i]) /\ phase # "departures"
      /\ Faithful(mem[i], stops[i], trips)
  BY AtIsRead DEF ContinueTrip
<1>2. /\ stops' = [db EXCEPT ![p].status = "superseded"]
      /\ mem' = [mem EXCEPT ![i] = s]
      /\ Turn("enter", i) /\ trips' = trips
      /\ mem[i].trip = 0 /\ mem[i].opened = 0
      /\ p # 0 /\ w # 0
  BY DEF ContinueTrip, WithoutTrip, Continues
<1>3. p \in DOMAIN stops /\ p \in Nat /\ p < i /\ stops[p].status = "open"
  BY <1>2, PreviousWaits
<1>4. IsRow(s) /\ s.trip = w /\ s.opened = w /\ s.root = Root(p, stops[p])
      /\ s.status = mem[i].status
  BY <1>1, RowFieldsAre DEF IsRow
<1>5. stops[i].opened = 0 /\ stops[i].trip = 0 /\ stops[i].root = 0 /\ mem[i].root = 0
  BY <1>1, <1>2 DEF Faithful, IInv, Linked
<1>6. /\ stops[p].root \in 0..(p - 1) /\ w \in DOMAIN trips
      /\ trips[w].state # "expected"
  BY <1>2, <1>3 DEF IInv, Linked
<1>7. i \in Nat /\ \A j \in DOMAIN stops : j \in Nat
  BY RowsAreRows, ArchAssumption DEF ArchAssumption, Stops
<1> HIDE DEF s
<1>8. /\ DOMAIN db = DOMAIN stops /\ IsRow(db[i])
      /\ \A j \in DOMAIN stops : j # i => db[j] = stops[j]
      /\ db[i].opened = w /\ db[i].trip = w /\ db[i].root = Root(p, stops[p])
      /\ db[i].status = stops[i].status
  <2>1. /\ DOMAIN db = DOMAIN stops /\ IsRow(db[i])
        /\ \A j \in DOMAIN stops : j # i => db[j] = stops[j]
    BY <1>1, <1>4, SavedRows
  <2>2. /\ db[i].opened = IF s.opened # mem[i].opened THEN s.opened ELSE stops[i].opened
        /\ db[i].root = IF s.root # mem[i].root THEN s.root ELSE stops[i].root
        /\ db[i].trip = IF s.trip # mem[i].trip THEN s.trip ELSE stops[i].trip
        /\ db[i].status = IF s.status # mem[i].status THEN s.status ELSE stops[i].status
    BY <1>1, <1>4, SavedFields
  <2> HIDE DEF db, w, p
  <2> QED BY <1>2, <1>4, <1>5, <2>1, <2>2
<1> HIDE DEF db, p, w
<1>9. /\ DOMAIN stops' = DOMAIN stops
      /\ IsRow(stops'[i])
      /\ stops'[i].opened = w /\ stops'[i].trip = w /\ stops'[i].root = Root(p, stops[p])
      /\ stops'[i].status = stops[i].status
      /\ \A j \in DOMAIN stops : j # i => Same(stops[j], stops'[j]) /\ stops'[j].trip = stops[j].trip
      /\ stops'[p].status = "superseded"
  <2>1. stops'[i] = db[i] /\ DOMAIN stops' = DOMAIN stops
    BY <1>2, <1>3, <1>7, <1>8
  <2>2. ASSUME NEW j \in DOMAIN stops, j # i, j # p
        PROVE  stops'[j] = stops[j]
    BY <1>2, <1>8, <2>2
  <2>3. Same(stops[p], stops'[p]) /\ stops'[p].trip = stops[p].trip
        /\ stops'[p].status = "superseded"
    <3>1. stops'[p] = [stops[p] EXCEPT !.status = "superseded"]
      BY <1>2, <1>3, <1>7, <1>8
    <3>2. IsRow(stops[p])
      BY <1>3, RowsAreRows
    <3> QED BY <3>1, <3>2, RowFieldsAre DEF Same, IsRow
  <2>4. \A j \in DOMAIN stops : Same(stops[j], stops[j])
    BY RowsKept, RowsAreRows
  <2> QED BY <1>8, <2>1, <2>2, <2>3, <2>4
<1>10. Root(p, stops[p]) \in Nat /\ Root(p, stops[p]) # 0 /\ Root(p, stops[p]) < i
  BY <1>2, <1>3, <1>6, <1>7 DEF Root
<1>11. Root(i, stops'[i]) = Root(p, stops[p])
       /\ \A j \in DOMAIN stops : j # i => Root(j, stops'[j]) = Root(j, stops[j])
  BY <1>9, <1>10 DEF Root, Same
<1>12. \A j \in DOMAIN mem : Faithful(mem'[j], stops'[j], trips')
  <2> SUFFICES ASSUME NEW j \in DOMAIN mem PROVE Faithful(mem'[j], stops'[j], trips')
    OBVIOUS
  <2>1. CASE j = i
    BY <1>1, <1>2, <1>4, <1>9, <2>1 DEF Faithful
  <2>2. CASE j # i
    <3>1. /\ j \in DOMAIN stops /\ mem'[j] = mem[j]
          /\ Faithful(mem[j], stops[j], trips)
      BY <1>2, <2>2 DEF IInv, InMemory
    <3>2. KeptIn(trips')
      BY <1>2, TripsKept DEF KeptIn
    <3>3. Same(stops[j], stops'[j]) /\ stops'[j].trip = stops[j].trip
      BY <1>9, <2>2, <3>1
    <3> QED BY <3>1, <3>2, <3>3, StaysFaithful
  <2> QED BY <2>1, <2>2
<1>13. InMemory'
  BY <1>1, <1>2, <1>9, <1>12, InMemoryStays DEF GoesOn
<1>14. LastOfTrip'
  BY <1>1, <1>2 DEF LastOfTrip, Turn
<1>15. WellFormed'
  BY <1>2, <1>9 DEF IInv, WellFormed, Same
<1>16. Remembered' /\ OneTripPerStop' /\ NotWeighedYet' /\ NotWeighedTwice
  BY <1>2, <1>5, <1>9
     DEF IInv, Remembered, OneTripPerStop, NotWeighedYet, NotWeighedTwice, Same
<1>17. Linked'
  <2> SUFFICES ASSUME NEW j \in DOMAIN stops
               PROVE  LET r == stops'[j] IN
                      /\ r.root \in 0..(j - 1)
                      /\ r.opened = 0 => r.trip = 0 /\ r.root = 0
                      /\ r.trip # 0 => r.trip \in DOMAIN trips /\ trips[r.trip].state # "expected"
    BY <1>2, <1>9 DEF Linked
  <2>1. CASE j = i
    BY <1>2, <1>6, <1>7, <1>9, <1>10, <2>1
  <2>2. CASE j # i
    BY <1>9, <2>2 DEF IInv, Linked, Same
  <2> QED BY <2>1, <2>2
<1>18. /\ \A j \in DOMAIN stops : (j < p /\ stops[j].trip = w) =>
            Root(j, stops[j]) = Root(p, stops[p]) /\ stops[j].status # "open"
       /\ \A j \in DOMAIN stops : p < j => stops[j].trip # w
  BY <1>2, <1>3 DEF IInv, OneChainPerTrip, w
<1>19. OneChainPerTrip'
  <2> SUFFICES ASSUME NEW j \in DOMAIN stops, NEW k \in DOMAIN stops,
                      j < k, stops'[j].trip # 0, stops'[j].trip = stops'[k].trip
               PROVE  /\ Root(j, stops'[j]) = Root(k, stops'[k])
                      /\ stops'[j].status # "open"
    BY <1>9 DEF OneChainPerTrip, Root
  <2>1. CASE k = i
    <3>1. j # i /\ stops[j].trip = w /\ j \in Nat
      BY <1>7, <1>9, <2>1
    <3>2. CASE j = p
      BY <1>9, <1>11, <2>1, <3>1, <3>2
    <3>3. CASE j # p
      <4>1. j < p
        BY <1>3, <1>18, <3>1, <3>3
      <4> QED BY <1>9, <1>11, <1>18, <2>1, <3>1, <4>1 DEF Same
    <3> QED BY <3>2, <3>3
  <2>2. CASE j = i
    <3>1. k # i /\ stops[k].trip = w /\ p < k
      BY <1>3, <1>7, <1>9, <2>2
    <3> QED BY <1>18, <3>1
  <2>3. CASE j # i /\ k # i
    <3>1. stops[j].trip # 0 /\ stops[j].trip = stops[k].trip
      BY <1>9, <2>3
    <3>2. Root(j, stops[j]) = Root(k, stops[k]) /\ stops[j].status # "open"
      BY <3>1 DEF IInv, OneChainPerTrip
    <3> QED BY <1>9, <1>11, <2>3, <3>2 DEF Same
  <2> QED BY <2>1, <2>2, <2>3
<1>20. Booked'
  <2> SUFFICES ASSUME NEW j \in DOMAIN stops, stops'[j].trip # 0
               PROVE  LET t == trips[stops'[j].trip] IN
                      /\ t.gross > 0 => t.gross = Root(j, stops'[j])
                      /\ t.tare > 0 => j <= t.tare /\ stops'[j].status # "open"
    BY <1>2, <1>9 DEF Booked, Root
  <2>1. CASE j = i
    <3>1. /\ trips[w].gross > 0 => trips[w].gross = Root(p, stops[p])
          /\ ~ (trips[w].tare > 0)
      BY <1>2, <1>3 DEF IInv, Booked, w
    <3> QED BY <1>9, <1>11, <2>1, <3>1
  <2>2. CASE j # i
    <3>1. LET t == trips[stops[j].trip] IN
          /\ t.gross > 0 => t.gross = Root(j, stops[j])
          /\ t.tare > 0 => j <= t.tare /\ stops[j].status # "open"
      BY <1>9, <2>2 DEF IInv, Booked
    <3> QED BY <1>9, <1>11, <2>2, <3>1 DEF Same
  <2> QED BY <2>1, <2>2
<1> QED BY <1>13, <1>14, <1>15, <1>16, <1>17, <1>19, <1>20 DEF IInv, Good

\* The departure that waited leaves rows and trips that still fit.
LEMMA SettledIsKept ==
  ASSUME IInv, NEW i \in Stops, NEW o \in Settled(Previous(i))
  PROVE  /\ RowsSame(o.rows) /\ KeptIn(o.trips) /\ BookedIn(o.trips, o.rows)
         /\ Detached(o.rows, o.trips)
<1> DEFINE p == Previous(i)
<1>1. CASE o = [rows |-> stops, trips |-> trips]
  BY <1>1, RowsStay, TripsKept, TripsStayBooked DEF Detached
<1>2. CASE /\ p # 0
           /\ \E d \in Departed(p, stops[p]) :
                o = [rows |-> [stops EXCEPT ![p] = d.row],
                     trips |-> WithTrip(stops[p].trip, d.trip)]
  <2> DEFINE s == stops[p]
             w == s.trip
             t == TripOf(w)
  <2>1. PICK d \in Departed(p, s) :
               o = [rows |-> [stops EXCEPT ![p] = d.row], trips |-> WithTrip(w, d.trip)]
    BY <1>2
  <2>2. p \in DOMAIN stops /\ p \in Nat /\ s.status = "open" /\ IsRow(s)
    BY <1>2, PreviousWaits, RowsAreRows
  <2>3. /\ Same(s, d.row)
        /\ d.row.trip = w \/ (d.row.trip = 0 /\ t.state = "deleted")
        /\ \/ d.trip = t
           \/ d.trip \in Exited(t, p) /\ CanExit(t, s.exit) /\ d.row.status = "closed"
    BY <2>2, DepartedIs
  <2>4. w = 0 \/ w \in DOMAIN trips
    BY <2>2 DEF IInv, Linked
  <2>5. w \in DOMAIN trips => w # 0 /\ t = trips[w] /\ WellTrip(t)
    BY TripsAreWell DEF TripOf
  <2>6. w \in DOMAIN trips => Harmless(t, d.trip)
    BY <2>3, <2>5, SameTrip, ExitIsHarmless
  <2>7. o.rows = [stops EXCEPT ![p] = d.row] /\ o.trips = WithTrip(w, d.trip)
    BY <2>1
  <2> HIDE DEF s, w, t, p
  <2>8. /\ KeptIn(o.trips)
        /\ \A v \in DOMAIN trips : o.trips[v] = IF v = w THEN d.trip ELSE trips[v]
    <3>1. CASE w = 0
      BY <2>7, <3>1, TripsKept, TripsAreWell DEF WithTrip
    <3>2. CASE w # 0
      BY <2>4, <2>5, <2>6, <2>7, <3>2, WithTripKept DEF WithTrip
    <3> QED BY <3>1, <3>2
  <2>9. RowsSame(o.rows)
    BY <2>2, <2>3, <2>7, RowsStay DEF RowsSame, s
  <2>10. Detached(o.rows, o.trips)
    <3>1. CASE d.row.trip = w
      BY <2>2, <2>7, <3>1 DEF Detached, s, w
    <3>2. CASE d.row.trip = 0 /\ t.state = "deleted" /\ w # 0
      <4>1. w \in DOMAIN o.trips /\ o.trips[w].state = "deleted"
        BY <2>4, <2>5, <2>8, <3>2 DEF KeptIn, Harmless
      <4> QED BY <2>2, <2>7, <3>2, <4>1 DEF Detached, s, w
    <3> QED BY <2>3, <3>1, <3>2
  <2>11. ASSUME NEW v \in DOMAIN trips PROVE Fits(v, o.trips[v], o.rows)
    <3>1. CASE o.trips[v] = trips[v]
      BY <2>9, <3>1, CalmFits DEF Calm
    <3>2. CASE v = w /\ d.trip \in Exited(t, p) /\ CanExit(t, s.exit) /\ d.row.status = "closed"
      <4>1. d.trip.gross = trips[w].gross /\ d.trip.tare = p
        BY <2>5, <3>2, ExitIsHarmless
      <4>2. \A j \in DOMAIN stops : p < j => stops[j].trip # w
        BY <2>2, <2>5, <3>2 DEF IInv, OneChainPerTrip, s, w
      <4>3. o.rows[p].status # "open" /\ stops[p].trip = w
        BY <2>2, <2>7, <3>2 DEF s, w
      <4>4. Fits(w, d.trip, o.rows)
        BY <2>2, <2>9, <3>2, <4>1, <4>2, <4>3, ExitFits
      <4> QED BY <2>8, <3>2, <4>4
    <3> QED BY <2>3, <2>5, <2>8, <3>1, <3>2
  <2>12. BookedIn(o.trips, o.rows)
    BY <2>9, <2>11, FitsMakeBooked
  <2> QED BY <2>8, <2>9, <2>10, <2>12
<1> QED BY <1>1, <1>2 DEF Settled

\* The stop opens trip w, which no stop has.
LEMMA OpenedIsGood ==
  ASSUME IInv, NEW i \in DOMAIN mem, i # 0, WithoutTrip(i), phase # "departures",
         NEW rows, RowsSame(rows), NEW ts, KeptIn(ts), BookedIn(ts, rows),
         Detached(rows, ts),
         NEW w, w # 0, \A j \in DOMAIN stops : stops[j].trip # w,
         Opened(i, rows, w),
         Listed(trips'), DOMAIN trips' = DOMAIN ts \cup {w},
         \A v \in DOMAIN ts : v # w => trips'[v] = ts[v],
         trips'[w].by = i, trips'[w].state = "arrived",
         trips'[w].gross = 0, trips'[w].tare = 0, DOMAIN trips'[w] = TripFields,
         w \in DOMAIN trips => trips[w].gross = 0 /\ trips[w].state = "expected"
  PROVE  Good
<1> DEFINE s == [mem[i] EXCEPT !.trip = w, !.opened = w]
           db == Save(rows, i, s)
<1>1. /\ stops' = db /\ mem' = [mem EXCEPT ![i] = s] /\ Turn("enter", i)
  BY DEF Opened
<1>2. /\ i \in DOMAIN stops /\ IsRow(mem[i]) /\ Faithful(mem[i], stops[i], trips)
      /\ mem[i].trip = 0 /\ mem[i].opened = 0
  BY RowsAreRows DEF WithoutTrip, IInv, InMemory
<1>3. IsRow(s) /\ s.trip = w /\ s.opened = w /\ s.root = mem[i].root /\ s.status = mem[i].status
  BY <1>2, RowFieldsAre DEF IsRow
<1>4. /\ stops[i].opened = 0 /\ stops[i].trip = 0 /\ stops[i].root = 0 /\ mem[i].root = 0
      /\ rows[i].opened = 0 /\ rows[i].trip = 0 /\ rows[i].root = 0
      /\ DOMAIN rows = DOMAIN stops
      /\ rows[i].status = "open" => stops[i].status = "open"
  BY <1>2 DEF Faithful, IInv, Linked, RowsSame, Same
<1> HIDE DEF s
<1>5. /\ DOMAIN db = DOMAIN stops /\ IsRow(db[i])
      /\ \A j \in DOMAIN stops : j # i => db[j] = rows[j]
  BY <1>2, <1>3, <1>4, SavedRows
<1>6. /\ db[i].opened = IF s.opened # mem[i].opened THEN s.opened ELSE rows[i].opened
      /\ db[i].root = IF s.root # mem[i].root THEN s.root ELSE rows[i].root
      /\ db[i].trip = IF s.trip # mem[i].trip THEN s.trip ELSE rows[i].trip
      /\ db[i].status = IF s.status # mem[i].status THEN s.status ELSE rows[i].status
  BY <1>2, <1>3, <1>4, SavedFields
<1> HIDE DEF db
<1>7. /\ DOMAIN stops' = DOMAIN stops /\ IsRow(stops'[i])
      /\ stops'[i].opened = w /\ stops'[i].trip = w /\ stops'[i].root = 0
      /\ stops'[i].status = rows[i].status
      /\ \A j \in DOMAIN stops : j # i => stops'[j] = rows[j] /\ Same(stops[j], stops'[j])
  BY <1>1, <1>2, <1>3, <1>4, <1>5, <1>6 DEF RowsSame
<1>8. \A j \in DOMAIN stops : j # i => stops'[j].trip # w
  BY <1>7 DEF Same
<1>9. /\ DOMAIN ts = DOMAIN trips
      /\ \A v \in DOMAIN trips : v # w => Harmless(trips[v], trips'[v])
      /\ \A v \in DOMAIN trips' : v # w => v \in DOMAIN trips
  BY DEF KeptIn
<1>10. \A j \in DOMAIN mem : Faithful(mem'[j], stops'[j], trips')
  <2> SUFFICES ASSUME NEW j \in DOMAIN mem PROVE Faithful(mem'[j], stops'[j], trips')
    OBVIOUS
  <2>1. CASE j = i
    <3>1. mem'[j] = s /\ (s.status # "open" => stops'[i].status # "open")
      <4>1. s.status # "open" => stops[i].status # "open"
        BY <1>2, <1>3 DEF Faithful
      <4> QED BY <1>1, <1>4, <1>7, <2>1, <4>1
    <3> QED BY <1>3, <1>4, <1>7, <2>1, <3>1 DEF Faithful
  <2>2. CASE j # i
    <3>1. /\ j \in DOMAIN stops /\ mem'[j] = mem[j] /\ stops'[j] = rows[j]
          /\ Faithful(mem[j], stops[j], trips) /\ Same(stops[j], rows[j])
      BY <1>1, <1>7, <2>2 DEF IInv, InMemory
    <3>2. \/ rows[j].trip = stops[j].trip
          \/ /\ rows[j].trip = 0 /\ stops[j].trip \in DOMAIN ts
             /\ ts[stops[j].trip].state = "deleted"
      BY <3>1 DEF Detached
    <3>3. \A v \in DOMAIN trips : trips[v].state = "deleted" =>
            v \in DOMAIN trips' /\ trips'[v].state = "deleted"
      BY <1>9 DEF Harmless
    <3>4. \A v \in DOMAIN ts : ts[v].state = "deleted" /\ v # w =>
            v \in DOMAIN trips' /\ trips'[v].state = "deleted"
      OBVIOUS
    <3>5. stops[j].trip # w
      BY <3>1
    <3> QED BY <3>1, <3>2, <3>3, <3>4, <3>5 DEF Faithful, Same
  <2> QED BY <2>1, <2>2
<1>11. InMemory'
  BY <1>1, <1>7, <1>10, InMemoryStays DEF GoesOn
<1>12. LastOfTrip'
  BY <1>1 DEF LastOfTrip, Turn
<1>13. WellFormed'
  BY <1>7, <1>9 DEF IInv, WellFormed, Listed, Same, Harmless
<1>14. \A v \in DOMAIN trips' : v # w => trips'[v].by = trips[v].by
  BY <1>9 DEF Harmless
<1>15. Remembered'
  <2> SUFFICES ASSUME NEW v \in DOMAIN trips', trips'[v].by # 0
               PROVE  trips'[v].by \in DOMAIN stops /\ stops'[trips'[v].by].opened # 0
    BY <1>7 DEF Remembered
  <2>1. CASE v = w
    BY <1>2, <1>7, <2>1
  <2>2. CASE v # w
    <3> DEFINE j == trips[v].by
    <3>1. trips'[v].by = j /\ j \in DOMAIN stops /\ stops[j].opened # 0
      BY <1>9, <1>14, <2>2 DEF IInv, Remembered
    <3> HIDE DEF j
    <3> QED BY <1>7, <3>1 DEF Same
  <2> QED BY <2>1, <2>2
<1>16. OneTripPerStop'
  <2>1. \A v \in DOMAIN trips' : v # w => trips'[v].by # i
    <3> SUFFICES ASSUME NEW v \in DOMAIN trips', v # w, trips'[v].by = i
                 PROVE  FALSE
      OBVIOUS
    <3>1. v \in DOMAIN trips /\ trips[v].by = i
      BY <1>9, <1>14
    <3> QED BY <1>4, <3>1 DEF IInv, Remembered
  <2> QED BY <1>9, <1>14, <2>1 DEF IInv, OneTripPerStop
<1>17. NotWeighedYet'
  BY <1>9 DEF NotWeighedYet, Harmless
<1>18. NotWeighedTwice
  BY <1>9 DEF NotWeighedTwice, Harmless
<1>19. Linked'
  <2> SUFFICES ASSUME NEW j \in DOMAIN stops
               PROVE  LET r == stops'[j] IN
                      /\ r.root \in 0..(j - 1)
                      /\ r.opened = 0 => r.trip = 0 /\ r.root = 0
                      /\ r.trip # 0 => r.trip \in DOMAIN trips' /\ trips'[r.trip].state # "expected"
    BY <1>7 DEF Linked
  <2>1. stops[j].root \in 0..(j - 1)
    BY DEF IInv, Linked
  <2>2. CASE j = i
    <3>1. 0 \in 0..(i - 1)
      BY <1>4, <2>1, <2>2
    <3> QED BY <1>7, <2>2, <3>1
  <2>3. CASE j # i
    <3>1. /\ stops[j].opened = 0 => stops[j].trip = 0 /\ stops[j].root = 0
          /\ stops[j].trip # 0 =>
               stops[j].trip \in DOMAIN trips /\ trips[stops[j].trip].state # "expected"
      BY DEF IInv, Linked
    <3>2. \A v \in DOMAIN trips : v # w =>
            v \in DOMAIN trips' /\ (trips'[v].state = "expected" => trips[v].state = "expected")
      BY <1>9 DEF Harmless
    <3> QED BY <1>7, <2>1, <2>3, <3>1, <3>2 DEF Same
  <2> QED BY <2>2, <2>3
<1>20. OneChainPerTrip'
  <2> SUFFICES ASSUME NEW j \in DOMAIN stops, NEW k \in DOMAIN stops,
                      j < k, stops'[j].trip # 0, stops'[j].trip = stops'[k].trip
               PROVE  /\ Root(j, stops'[j]) = Root(k, stops'[k])
                      /\ stops'[j].status # "open"
    BY <1>7 DEF OneChainPerTrip, Root
  <2>1. j \in Nat /\ k \in Nat
    BY RowsAreRows, ArchAssumption DEF ArchAssumption, Stops
  <2>2. j # i /\ k # i
    BY <1>7, <1>8, <2>1
  <2>3. stops[j].trip # 0 /\ stops[j].trip = stops[k].trip
    BY <1>7, <2>2 DEF Same
  <2>4. Root(j, stops[j]) = Root(k, stops[k]) /\ stops[j].status # "open"
    BY <2>3 DEF IInv, OneChainPerTrip
  <2> QED BY <1>7, <2>2, <2>4 DEF Same, Root
<1>21. Booked'
  <2> SUFFICES ASSUME NEW j \in DOMAIN stops, stops'[j].trip # 0
               PROVE  LET t == trips'[stops'[j].trip] IN
                      /\ t.gross > 0 => t.gross = Root(j, stops'[j])
                      /\ t.tare > 0 => j <= t.tare /\ stops'[j].status # "open"
    BY <1>7 DEF Booked, Root
  <2>1. CASE j = i
    BY <1>7, <2>1
  <2>2. CASE j # i
    <3>1. stops'[j] = rows[j] /\ j \in DOMAIN rows
      BY <1>4, <1>7, <2>2
    <3>2. rows[j].trip # w /\ rows[j].trip \in DOMAIN ts
      BY <1>7, <1>8, <1>9, <2>2, <3>1 DEF Same, IInv, Linked
    <3>3. trips'[rows[j].trip] = ts[rows[j].trip]
      BY <3>2
    <3> QED BY <3>1, <3>3 DEF BookedIn
  <2> QED BY <2>1, <2>2
<1> QED BY <1>11, <1>12, <1>13, <1>15, <1>16, <1>17, <1>18, <1>19, <1>20, <1>21
        DEF IInv, Good

LEMMA OpenTripIsGood ==
  ASSUME IInv, NEW i \in Stops, OpenTrip(i)
  PROVE  Good
<1>1. /\ i \in DOMAIN mem /\ IsRow(mem[i]) /\ i # 0
      /\ WithoutTrip(i) /\ phase # "departures"
  BY AtIsRead DEF OpenTrip, Stops
<1>2. PICK o \in Settled(Previous(i)) :
        LET expected == Numbered(o.trips, mem[i].number, {"expected"})
            present == Numbered(o.trips, mem[i].number, OnSite)
        IN
        \/ \E w \in expected :
             /\ trips' = [o.trips EXCEPT ![w].state = "arrived", ![w].by = i]
             /\ Opened(i, o.rows, w)
        \/ /\ expected = {} /\ present = {}
           /\ trips' = Append(o.trips, Trip(mem[i].number, "arrived", i))
           /\ Opened(i, o.rows, Len(o.trips) + 1)
        \/ /\ expected = {} /\ present # {}
           /\ Saves(i, Blocked(mem[i]))
           /\ Finish(i)
           /\ UNCHANGED trips
  BY DEF OpenTrip
<1> DEFINE ts == o.trips
           rows == o.rows
<1>3. RowsSame(rows) /\ KeptIn(ts) /\ BookedIn(ts, rows) /\ Detached(rows, ts)
  BY SettledIsKept
<1>4. /\ Listed(ts) /\ DOMAIN ts = DOMAIN trips
      /\ \A v \in DOMAIN trips : Harmless(trips[v], ts[v])
  BY <1>3 DEF KeptIn
<1>5. DOMAIN trips = 1..Len(trips) /\ Len(trips) \in Nat
  BY TripsAreWell DEF Listed
<1>6. \A j \in DOMAIN stops : stops[j].trip # 0 =>
        stops[j].trip \in DOMAIN trips /\ trips[stops[j].trip].state # "expected"
  BY DEF IInv, Linked
<1>7. ASSUME NEW w \in Numbered(ts, mem[i].number, {"expected"}),
             trips' = [ts EXCEPT ![w].state = "arrived", ![w].by = i],
             Opened(i, rows, w)
      PROVE  Good
  <2> DEFINE u == [ts[w] EXCEPT !.state = "arrived", !.by = i]
  <2>1. w \in DOMAIN trips /\ ts[w].state = "expected" /\ w # 0
    BY <1>4, <1>5 DEF Numbered
  <2>2. /\ DOMAIN ts[w] = TripFields /\ ts[w].gross = 0 /\ ts[w].tare = 0
        /\ trips[w].state = "expected"
    BY <1>4, <2>1 DEF Harmless
  <2>3. /\ u.by = i /\ u.state = "arrived" /\ u.gross = 0 /\ u.tare = 0
        /\ DOMAIN u = TripFields
    BY <2>2, TripFieldsAre
  <2>4. trips' = [ts EXCEPT ![w] = u]
    BY <1>4, <1>7, <2>1
  <2> HIDE DEF u, ts, rows
  <2>5. /\ Listed(trips') /\ DOMAIN trips' = DOMAIN ts
        /\ \A v \in DOMAIN ts : trips'[v] = IF v = w THEN u ELSE ts[v]
    BY <1>4, <2>4, Replaced
  <2>6. trips[w].gross = 0
    BY <2>1, <2>2, TripsAreWell DEF WellTrip
  <2>7. \A j \in DOMAIN stops : stops[j].trip # w
    BY <1>6, <2>1, <2>2
  <2>8. /\ trips'[w] = u /\ DOMAIN trips' = DOMAIN ts \cup {w}
        /\ \A v \in DOMAIN ts : v # w => trips'[v] = ts[v]
    BY <1>4, <2>1, <2>5
  <2>9. /\ trips'[w].by = i /\ trips'[w].state = "arrived"
        /\ trips'[w].gross = 0 /\ trips'[w].tare = 0 /\ DOMAIN trips'[w] = TripFields
    BY <2>3, <2>8
  <2>10. Opened(i, rows, w) /\ Listed(trips') /\ w # 0
    BY <1>7, <2>1, <2>5 DEF rows
  <2> QED BY <1>1, <1>3, <2>2, <2>6, <2>7, <2>8, <2>9, <2>10, OpenedIsGood
<1>8. ASSUME trips' = Append(ts, Trip(mem[i].number, "arrived", i)),
             Opened(i, rows, Len(ts) + 1)
      PROVE  Good
  <2> DEFINE u == Trip(mem[i].number, "arrived", i)
             w == Len(ts) + 1
  <2>1. /\ u.by = i /\ u.state = "arrived" /\ u.gross = 0 /\ u.tare = 0
        /\ DOMAIN u = TripFields
    BY DEF Trip, TripFields
  <2> HIDE DEF u
  <2>2. /\ Listed(trips') /\ DOMAIN ts = 1..Len(ts) /\ DOMAIN trips' = 1..(Len(ts) + 1)
        /\ \A v \in DOMAIN ts : trips'[v] = ts[v]
        /\ trips'[w] = u
    BY <1>4, <1>8, Appended DEF u
  <2>3. Len(ts) \in Nat
    BY <1>4 DEF Listed
  <2> HIDE DEF ts, rows
  <2>4. w # 0 /\ w \notin DOMAIN trips /\ DOMAIN trips' = DOMAIN ts \cup {w}
    BY <1>4, <2>2, <2>3
  <2>5. Opened(i, rows, w)
    BY <1>8
  <2>6. \A j \in DOMAIN stops : stops[j].trip # w
    BY <1>6, <2>4
  <2> HIDE DEF w
  <2> QED BY <1>1, <1>3, <2>1, <2>2, <2>4, <2>5, <2>6, OpenedIsGood
<1>9. CASE Saves(i, Blocked(mem[i])) /\ Finish(i) /\ UNCHANGED trips
  BY <1>1, <1>9, RowsKept, OnlySavesIsGood DEF GoesOn
<1> QED BY <1>2, <1>7, <1>8, <1>9

-----------------------------------------------------------------------------
(* Operators. *)

LEMMA TripChangeIsGood ==
  ASSUME IInv, NEW w \in DOMAIN trips, NEW u, Harmless(trips[w], u), Calm(trips[w], u),
         trips' = [trips EXCEPT ![w] = u], UNCHANGED <<stops, importer>>
  PROVE  Good
<1>1. /\ KeptIn(trips')
      /\ \A v \in DOMAIN trips : trips'[v] = IF v = w THEN u ELSE trips[v]
  BY WithTripKept
<1>2. RowsSame(stops') /\ Detached(stops', trips')
  BY RowsStay DEF RowsSame, Detached
<1>3. \A v \in DOMAIN trips : Calm(trips[v], trips'[v])
  BY <1>1 DEF Calm
<1>4. BookedIn(trips', stops')
  BY <1>2, <1>3, CalmStaysBooked
<1> QED BY <1>1, <1>2, <1>4, BesideIsGood

LEMMA RegisterArrivalIsGood ==
  ASSUME IInv, NEW w \in DOMAIN trips, NEW number, RegisterArrival(w, number)
  PROVE  Good
<1> DEFINE u == [trips[w] EXCEPT !.state = "arrived", !.number = number]
<1>1. Harmless(trips[w], u) /\ Calm(trips[w], u)
  BY TripsAreWell, TripFieldsAre DEF RegisterArrival, WellTrip, Harmless, Calm
<1>2. trips' = [trips EXCEPT ![w] = u] /\ UNCHANGED <<stops, importer>>
  BY TripsAreWell DEF RegisterArrival, Intervenes
<1> HIDE DEF u
<1> QED BY <1>1, <1>2, TripChangeIsGood

LEMMA AssignSiloIsGood ==
  ASSUME IInv, NEW w \in DOMAIN trips, AssignSilo(w)
  PROVE  Good
<1> DEFINE u == [trips[w] EXCEPT !.silo = TRUE]
<1>1. Harmless(trips[w], u) /\ Calm(trips[w], u)
  BY TripsAreWell, TripFieldsAre DEF AssignSilo, WellTrip, Harmless, Calm
<1>2. trips' = [trips EXCEPT ![w] = u] /\ UNCHANGED <<stops, importer>>
  BY TripsAreWell DEF AssignSilo, Intervenes
<1> HIDE DEF u
<1> QED BY <1>1, <1>2, TripChangeIsGood

LEMMA WeighByHandIsGood ==
  ASSUME IInv, NEW w \in DOMAIN trips, WeighByHand(w)
  PROVE  Good
<1>1. UNCHANGED <<stops, importer>> /\ WellTrip(trips[w])
  BY TripsAreWell DEF WeighByHand, Intervenes
<1>2. CASE CanEnter(trips[w]) /\ trips' = [trips EXCEPT ![w] = Entered(trips[w], Hand)]
  <2>1. Harmless(trips[w], Entered(trips[w], Hand)) /\ Calm(trips[w], Entered(trips[w], Hand))
    BY <1>1, <1>2, TripFieldsAre DEF WellTrip, Harmless, Calm, CanEnter, Entered, Hand
  <2> QED BY <1>1, <1>2, <2>1, TripChangeIsGood
<1>3. CASE /\ CanExit(trips[w], HandTare)
           /\ \E t \in Exited(trips[w], Hand) : trips' = [trips EXCEPT ![w] = t]
  <2>1. PICK t \in Exited(trips[w], Hand) : trips' = [trips EXCEPT ![w] = t]
    BY <1>3
  <2>2. Harmless(trips[w], t) /\ t.gross = trips[w].gross /\ t.tare = Hand
    BY <1>1, <1>3, ExitIsHarmless
  <2>3. Calm(trips[w], t)
    BY <2>2 DEF Calm, Hand
  <2> QED BY <1>1, <2>1, <2>2, <2>3, TripChangeIsGood
<1> QED BY <1>2, <1>3 DEF WeighByHand

LEMMA ResolveIsGood ==
  ASSUME IInv, NEW w \in DOMAIN trips, Resolve(w)
  PROVE  Good
<1> DEFINE u == [trips[w] EXCEPT !.state = "completed"]
           v == [trips[w] EXCEPT !.state = "at_silo", !.tare = 0]
<1>1. /\ Harmless(trips[w], u) /\ Calm(trips[w], u)
      /\ Harmless(trips[w], v) /\ Calm(trips[w], v)
  BY TripsAreWell, TripFieldsAre DEF Resolve, WellTrip, Harmless, Calm
<1>2. UNCHANGED <<stops, importer>>
  BY DEF Resolve, Intervenes
<1>3. trips' = [trips EXCEPT ![w] = u] \/ trips' = [trips EXCEPT ![w] = v]
  BY TripsAreWell DEF Resolve
<1> HIDE DEF u, v
<1> QED BY <1>1, <1>2, <1>3, TripChangeIsGood

LEMMA DeleteTripIsGood ==
  ASSUME IInv, NEW w \in DOMAIN trips, DeleteTrip(w)
  PROVE  Good
<1> DEFINE u == [trips[w] EXCEPT !.state = "deleted"]
<1>1. Harmless(trips[w], u) /\ Calm(trips[w], u) /\ u.state = "deleted"
  BY TripsAreWell, TripFieldsAre DEF WellTrip, Harmless, Calm
<1>2. trips' = [trips EXCEPT ![w] = u] /\ UNCHANGED importer
  BY TripsAreWell DEF DeleteTrip, Intervenes
<1> HIDE DEF u
<1>3. /\ KeptIn(trips')
      /\ \A v \in DOMAIN trips : trips'[v] = IF v = w THEN u ELSE trips[v]
  BY <1>1, <1>2, WithTripKept
<1>4. stops' = [j \in DOMAIN stops |->
                  IF stops[j].trip = w THEN [stops[j] EXCEPT !.trip = 0] ELSE stops[j]]
  BY DEF DeleteTrip
<1>5. \A j \in DOMAIN stops :
        /\ Same(stops[j], [stops[j] EXCEPT !.trip = 0]) /\ Same(stops[j], stops[j])
        /\ [stops[j] EXCEPT !.trip = 0].trip = 0
  BY RowsAreRows, RowFieldsAre DEF Same, IsRow
<1>6. RowsSame(stops')
  BY <1>4, <1>5 DEF RowsSame
<1>7. Detached(stops', trips')
  BY <1>1, <1>3, <1>4, <1>5 DEF Detached, KeptIn
<1>8. \A v \in DOMAIN trips : Calm(trips[v], trips'[v])
  BY <1>1, <1>3 DEF Calm
<1>9. BookedIn(trips', stops')
  BY <1>6, <1>8, CalmStaysBooked
<1> QED BY <1>2, <1>3, <1>6, <1>7, <1>9, BesideIsGood

LEMMA DismissIsGood ==
  ASSUME IInv, NEW i, Dismiss(i)
  PROVE  Good
<1>1. trips' = trips /\ UNCHANGED importer
  BY DEF Dismiss, Intervenes
<1>2. i \in DOMAIN stops /\ stops' = [stops EXCEPT ![i] = Closed(stops[i])]
  BY DEF Dismiss
<1>3. Same(stops[i], Closed(stops[i])) /\ Closed(stops[i]).trip = stops[i].trip
  BY <1>2, RowsKept, RowsAreRows, RowFieldsAre DEF Closed, IsRow
<1>4. RowsSame(stops') /\ Detached(stops', trips')
  BY <1>2, <1>3, RowsStay DEF RowsSame, Detached
<1>5. KeptIn(trips') /\ BookedIn(trips', stops')
  BY <1>1, <1>4, TripsKept, TripsStayBooked DEF KeptIn
<1> QED BY <1>1, <1>4, <1>5, BesideIsGood

-----------------------------------------------------------------------------
(* The theorems. *)

\* Events name stops there have been.
LEMMA ReportedStays ==
  ASSUME Reported, [Next]_vars
  PROVE  Reported'
<1>1. CASE Arrive
  <2>1. seen' = seen + 1 /\ seen' \in 0..MaxStops /\ seen' \in Stops
    BY <1>1, ArchAssumption DEF Arrive, Reported, Stops, ArchAssumption
  <2>2. CASE \E e \in Arrivals :
               feed' = Append(feed, [kind |-> "arrival", stop |-> seen + 1,
                                     number |-> e.number, full |-> e.full,
                                     since |-> IF e.soon THEN 1 ELSE seen + 1])
    <3>1. PICK e \in Arrivals :
                 feed' = Append(feed, [kind |-> "arrival", stop |-> seen + 1,
                                       number |-> e.number, full |-> e.full,
                                       since |-> IF e.soon THEN 1 ELSE seen + 1])
      BY <2>2
    <3>2. e.number \in Nat /\ e.full \in Nat
      BY ArchAssumption DEF ArchAssumption
    <3>3. [kind |-> "arrival", stop |-> seen + 1, number |-> e.number, full |-> e.full,
           since |-> IF e.soon THEN 1 ELSE seen + 1] \in Events
      BY <2>1, <3>2, ArchAssumption DEF Events, Stops, ArchAssumption
    <3> QED BY <2>1, <3>1, <3>3, AppendProperties DEF Reported
  <2>3. CASE feed' = feed
    BY <2>1, <2>3 DEF Reported
  <2> QED BY <1>1, <2>2, <2>3 DEF Arrive
<1>2. CASE Depart
  <2>1. PICK e \in Departures :
               feed' = Append(feed, [kind |-> "departure", stop |-> seen,
                                     exit |-> e.exit, gap |-> e.gap])
    BY <1>2 DEF Depart
  <2>2. seen' = seen /\ seen \in Stops
    BY <1>2, ArchAssumption DEF Depart, Reported, Stops, ArchAssumption
  <2>3. [kind |-> "departure", stop |-> seen, exit |-> e.exit, gap |-> e.gap] \in Events
    BY <2>2, ArchAssumption DEF Events, ArchAssumption
  <2> QED BY <2>1, <2>2, <2>3, AppendProperties DEF Reported
<1>3. CASE Ack
  <2>1. feed # <<>> => Tail(feed) \in Seq(Events)
    BY HeadTailProperties DEF Reported
  <2>2. feed = <<>> => Tail(feed) \in Seq(Events)
    BY DEF Reported
  <2> QED BY <1>3, <2>1, <2>2 DEF Ack, Reported
<1>4. CASE UNCHANGED <<seen, feed>>
  BY <1>4 DEF Reported
<1>5. \/ Arrive \/ Depart \/ Ack \/ UNCHANGED <<seen, feed>>
  BY DEF Next, Import, vars, world, GraceOver, Dismiss, ImportArrival, ImportDeparture,
     ReadArrivals, ReadDepartures, EndTick, OpenNothing, OpenedBefore, ContinueTrip,
     OpenTrip, Enter, WeighEntry, Leave, WeighExit, TickDies, Intervenes, AssignSilo,
     WeighByHand, Resolve, DeleteTrip, RegisterArrival
<1> QED BY <1>1, <1>2, <1>3, <1>4, <1>5

LEMMA InitIsGood == Init => IInv /\ Reported
<1> SUFFICES ASSUME Init PROVE IInv /\ Reported
  OBVIOUS
<1>1. trips \in Seq(ExpectedTrips)
  BY ArchAssumption DEF ArchAssumption, Init
<1>2. Len(trips) \in Nat /\ trips \in [1..Len(trips) -> ExpectedTrips]
  BY <1>1, LenProperties
<1>3. \A w \in DOMAIN trips :
        /\ DOMAIN trips[w] = TripFields
        /\ trips[w].by = 0 /\ trips[w].gross = 0 /\ trips[w].tare = 0
  <2>1. ASSUME NEW t \in ExpectedTrips
        PROVE  DOMAIN t = TripFields /\ t.by = 0 /\ t.gross = 0 /\ t.tare = 0
    BY TripFieldsAre DEF ExpectedTrips
  <2> QED BY <1>2, <2>1
<1>4. DOMAIN stops = {} /\ DOMAIN mem = {} /\ todo = {} /\ job = Rest
  BY DEF Init
<1>5. WellFormed
  BY <1>2, <1>3, <1>4 DEF WellFormed
<1>6. InMemory /\ LastOfTrip
  BY <1>4 DEF InMemory, JobOfPhase, LastOfTrip, Rest
<1>7. Reported
  BY ArchAssumption DEF Init, Reported, ArchAssumption
<1> QED BY <1>3, <1>4, <1>5, <1>6, <1>7
        DEF IInv, Remembered, OneTripPerStop, NotWeighedYet, Linked, OneChainPerTrip, Booked

LEMMA StepIsGood ==
  ASSUME IInv, Reported, [Next]_vars
  PROVE  Good
<1>1. CASE Arrive \/ Depart \/ \E i \in Stops : GraceOver(i)
  BY <1>1, NothingIsGood DEF Arrive, Depart, GraceOver
<1>2. CASE \E i \in Stops : Dismiss(i)
  BY <1>2, DismissIsGood
<1>3. CASE Import
  <2>1. CASE ImportArrival \/ ImportDeparture \/ Ack
    BY <2>1, ImportArrivalIsGood, ImportDepartureIsGood, AckIsGood
  <2>2. CASE ReadArrivals \/ ReadDepartures \/ EndTick
    BY <2>2, LoopsAreGood
  <2>3. CASE \E i \in Stops :
               \/ OpenNothing(i) \/ OpenedBefore(i) \/ ContinueTrip(i) \/ OpenTrip(i)
               \/ Enter(i) \/ WeighEntry(i) \/ Leave(i) \/ WeighExit(i)
    BY <2>3, OpenNothingIsGood, OpenedBeforeIsGood, ContinueTripIsGood, OpenTripIsGood,
       EnterIsGood, WeighEntryIsGood, LeaveIsGood, WeighExitIsGood
  <2> QED BY <1>3, <2>1, <2>2, <2>3 DEF Import
<1>4. CASE TickDies
  BY <1>4, LoopsAreGood
<1>5. CASE \E w \in DOMAIN trips :
             \/ AssignSilo(w) \/ WeighByHand(w) \/ Resolve(w) \/ DeleteTrip(w)
             \/ \E e \in Arrivals : RegisterArrival(w, e.number)
  BY <1>5, AssignSiloIsGood, WeighByHandIsGood, ResolveIsGood, DeleteTripIsGood,
     RegisterArrivalIsGood
<1>6. CASE UNCHANGED vars
  BY <1>6, NothingIsGood DEF vars
<1> QED BY <1>1, <1>2, <1>3, <1>4, <1>5, <1>6 DEF Next

\* The inductive invariant holds for any number of stops, trips, deaths of the
\* importer and interventions: rows, trips and the importer's objects agree
\* wherever a later step relies on it (wagon_arch.py).
THEOREM Invariance == Spec => [](IInv /\ Reported)
<1>1. IInv /\ Reported /\ [Next]_vars => (IInv /\ Reported)'
  BY StepIsGood, ReportedStays DEF Good
<1> QED BY InitIsGood, <1>1, PTL DEF Spec

\* No stop opens two trips, whoever deletes the first and wherever the tick
\* dies, and the stops of a trip are one wagon moved under the arch (open_trip;
\* models.py opened_wagon_id).
THEOREM OneWagon == Spec => []OneWagonPerTrip
<1>1. IInv => OneWagonPerTrip
  BY DEF IInv, OneWagonPerTrip
<1> QED BY Invariance, <1>1, PTL

\* The full weight of a trip is that of its first stop and the empty one that of
\* its last (entry_weight_kg of _root, apply_departure).
THEOREM RightWeights == Spec => []WeightsOfTheTrip
<1>1. IInv => WeightsOfTheTrip
  <2> SUFFICES ASSUME IInv, NEW i \in DOMAIN stops, stops[i].trip # 0
               PROVE  LET t == TripOf(stops[i].trip) IN
                      /\ t.gross > 0 => t.gross <= i
                      /\ t.tare > 0 => i <= t.tare
    BY DEF WeightsOfTheTrip
  <2>1. LET t == trips[stops[i].trip] IN
        /\ t.gross > 0 => t.gross = Root(i, stops[i])
        /\ t.tare > 0 => i <= t.tare
    BY DEF IInv, Booked
  <2>2. i \in Nat /\ stops[i].root \in 0..(i - 1)
    BY RowsAreRows, ArchAssumption DEF ArchAssumption, Stops, IInv, Linked
  <2>3. Root(i, stops[i]) <= i
    BY <2>2 DEF Root
  <2> QED BY <2>1, <2>3 DEF TripOf
<1> QED BY Invariance, <1>1, PTL

\* Whatever the importer's tick has read before and whoever weighs beside it, a
\* full weight is booked over another only in a discrepancy, and a completed or
\* deleted trip keeps its weights (record_simple_entry_weight,
\* record_simple_exit_weight).  The empty weight of a trip in a discrepancy is
\* not covered: a tick may book its own over it.
THEOREM SettledStays == Spec => SettledWeightsStay
<1>1. IInv /\ Reported /\ [Next]_vars =>
        [\A w \in DOMAIN trips :
           /\ (trips[w].gross # 0 /\ trips[w].state # "discrepancy") =>
                trips'[w].gross = trips[w].gross
           /\ trips[w].state \in {"completed", "deleted"} =>
                trips'[w].gross = trips[w].gross /\ trips'[w].tare = trips[w].tare]_vars
  BY StepIsGood DEF Good, NotWeighedTwice
<1> QED BY Invariance, <1>1, PTL DEF Spec, SettledWeightsStay
=============================================================================
