------------------------------- MODULE WagonArch -------------------------------
(***************************************************************************)
(* From wagon stops to intake trips (backend/apps/grain/wagon_arch.py with *)
(* the trip operations of grain/services.py).                              *)
(*                                                                         *)
(* The importer takes the events of WeighbridgeOutbox one by one and then  *)
(* goes through its open stops: an arrival opens or continues a trip and   *)
(* records its full weight, a departure its empty weight, once the wagon   *)
(* is not merely being moved under the arch.  It works on rows it has read *)
(* before, while operators weigh by hand, settle discrepancies, delete     *)
(* trips and dismiss stops.  It may die between any two transactions.      *)
(*                                                                         *)
(* Abstracted: a departure applied from inside open_trip is one step with  *)
(* it; a full silo and a weight off the expected one are free choices.     *)
(***************************************************************************)
EXTENDS Integers, Sequences, FiniteSets, FiniteSetsExt

CONSTANTS
  Arrivals,    \* what an arrival event may say: [number, full, soon], number 0:
               \* not read, soon: the stops before it left not long ago
  Departures,  \* what a departure event may say: [exit, gap], 0: no weight
  Begin,       \* trips there may be at the start: a set of sequences
  HandGross,   \* what an operator reads from the scale, full and empty
  HandTare,
  MaxStops,    \* bound: stops under the arch
  MaxUpsets    \* bound: interventions of operators and ticks that die

VARIABLES
  seen,    \* stops made so far, numbered in the order of arrival
  gone,    \* those whose wagon has left
  feed,    \* events not acknowledged, in order
  stops,   \* WagonArchStop rows
  graced,  \* stops past WAGON_ARCH_EXIT_GRACE_SECONDS since their departure
  trips,   \* Wagon rows
  phase,   \* what the tick is at: taking events, the arrivals, the departures;
           \* the next one follows on
  todo,    \* stops its loop has still to process
  mem,     \* its WagonArchStop objects, as they were read
  job,     \* the stop it is processing and the transaction that comes next
  upsets

world == <<seen, gone, feed, graced>>
importer == <<phase, todo, mem, job>>
vars == <<world, stops, trips, importer, upsets>>

Hand == -1
Stops == 1..MaxStops
StopStatuses == {"open", "closed", "attention", "superseded"}
OnSite == {"arrived", "at_silo", "discrepancy"}
TripStates == OnSite \cup {"expected", "completed", "deleted"}
Rest == [step |-> "rest", stop |-> 0]
Job(step, i) == [step |-> step, stop |-> i]

Row(number, full, since) ==
  [number |-> number, full |-> full, since |-> since,
   trip |-> 0, opened |-> 0, root |-> 0, entered |-> FALSE,
   left |-> FALSE, exit |-> 0, gap |-> FALSE, out |-> FALSE,
   status |-> "open", blocked |-> FALSE]
Trip(number, state, by) ==
  [number |-> number, state |-> state, by |-> by, planned |-> FALSE, silo |-> FALSE,
   gross |-> 0, tare |-> 0]

ExpectedTrips ==
  [number : Nat, state : {"expected"}, by : {0}, planned : BOOLEAN, silo : BOOLEAN,
   gross : {0}, tare : {0}]

ASSUME ArchAssumption ==
  /\ Arrivals \subseteq [number : Nat, full : Nat \ {0}, soon : BOOLEAN]
  /\ Begin \subseteq Seq(ExpectedTrips)
  /\ Departures \subseteq [exit : Nat, gap : BOOLEAN]
  /\ HandGross \in Nat /\ HandTare \in Nat
  /\ MaxStops \in Nat /\ MaxUpsets \in Nat

TypeOK ==
  /\ seen \in 0..MaxStops /\ gone \subseteq Stops /\ graced \subseteq Stops
  /\ DOMAIN stops \subseteq Stops
  /\ \A i \in DOMAIN stops :
       LET s == stops[i] IN
       /\ s.trip \in 0..Len(trips) /\ s.opened \in 0..Len(trips) /\ s.root \in 0..(i - 1)
       /\ s.status \in StopStatuses
       /\ {s.entered, s.left, s.gap, s.out, s.blocked} \subseteq BOOLEAN
  /\ \A w \in DOMAIN trips :
       LET t == trips[w] IN
       /\ t.state \in TripStates /\ t.by \in 0..MaxStops
       /\ t.gross \in Stops \cup {0, Hand} /\ t.tare \in Stops \cup {0, Hand}
  /\ phase \in {"import", "arrivals", "departures"}
  /\ todo \subseteq DOMAIN stops /\ DOMAIN mem \subseteq DOMAIN stops
  /\ job.step \in {"rest", "open", "enter", "weigh", "exit", "ack"}

Init ==
  /\ seen = 0 /\ gone = {} /\ feed = <<>> /\ graced = {}
  /\ stops = [i \in {} |-> 0]
  /\ trips \in Begin
  /\ phase = "import" /\ todo = {} /\ mem = stops /\ job = Rest
  /\ upsets = 0

-----------------------------------------------------------------------------
(* The collector and the clock. *)

\* A wagon stops under the arch: another one, or the same one moved.  Stops
\* before since left more than twice the grace period ago.  The event is lost
\* with a collector that dies.
Arrive ==
  /\ seen < MaxStops
  /\ seen' = seen + 1
  /\ \/ \E e \in Arrivals :
          feed' = Append(feed, [kind |-> "arrival", stop |-> seen + 1,
                                number |-> e.number, full |-> e.full,
                              since |-> IF e.soon THEN 1 ELSE seen + 1])
     \/ feed' = feed
  /\ gone' = gone \cup (1..seen)
  /\ UNCHANGED <<graced, stops, trips, importer, upsets>>

Depart ==
  /\ seen > 0 /\ seen \notin gone
  /\ gone' = gone \cup {seen}
  /\ \E e \in Departures :
       feed' = Append(feed, [kind |-> "departure", stop |-> seen,
                             exit |-> e.exit, gap |-> e.gap])
  /\ UNCHANGED <<seen, graced, stops, trips, importer, upsets>>

CertainByNext(i) == \E j \in DOMAIN stops : j > i   \* a mutant, for StopsSettle

\* A later arrival proves that the wagon was not moved.
Certain(i) == i \in graced \/ \E j \in DOMAIN stops : j > i

\* Told only where it makes a difference.
GraceOver(i) ==
  /\ i \in DOMAIN stops /\ stops[i].left /\ ~Certain(i)
  /\ graced' = graced \cup {i}
  /\ UNCHANGED <<seen, gone, feed, stops, trips, importer, upsets>>

-----------------------------------------------------------------------------
(* Rows and objects. *)

NoTrip == Trip(0, "deleted", 0)
TripOf(w) == IF w = 0 THEN NoTrip ELSE trips[w]
WithTrip(w, t) == IF w = 0 THEN trips ELSE [trips EXCEPT ![w] = t]

\* stop.save(update_fields): only what the object has changed is written.
Save(db, i, s) ==
  [db EXCEPT ![i] = [f \in DOMAIN s |-> IF s[f] # mem[i][f] THEN s[f] ELSE db[i][f]]]
Saves(i, s) == stops' = Save(stops, i, s) /\ mem' = [mem EXCEPT ![i] = s]

Cleared(s) == [s EXCEPT !.blocked = FALSE]
Blocked(s) == [s EXCEPT !.blocked = TRUE]
Parked(s) == [s EXCEPT !.blocked = TRUE, !.status = "attention"]
TripDeleted(s) == [Parked(s) EXCEPT !.trip = 0]
Closed(s) == [s EXCEPT !.blocked = FALSE, !.status = "closed"]

IsNext(i) == i \in todo /\ \A j \in todo : i <= j
Turn(step, i) == job' = Job(step, i) /\ UNCHANGED <<phase, todo>>
Finish(i) ==
  /\ job' = IF phase = "import" THEN Job("ack", i) ELSE Rest
  /\ todo' = todo \ {i}
  /\ UNCHANGED phase

-----------------------------------------------------------------------------
(* Weights. *)

RootOfItself(i, s) == i                      \* a mutant, for WeightsOfTheTrip
Root(i, s) == IF s.root = 0 THEN i ELSE s.root
Gross(t) == IF t.gross = Hand THEN HandGross ELSE stops[t.gross].full

\* record_simple_entry_weight, once it has locked the trip.  The statuses let a
\* trip out of a discrepancy be weighed again, full or empty.
CanEnterAgain(t) == t.silo                   \* a mutant, for SettledWeightsStay
CanEnter(t) == t.state \in {"arrived", "discrepancy"} /\ t.silo
Entered(t, by) == [t EXCEPT !.gross = by, !.state = "at_silo"]

\* record_simple_exit_weight: completed, or off the expected weight.
CanExit(t, kg) ==
  t.state \in {"at_silo", "discrepancy"} /\ t.gross # 0 /\ kg < Gross(t)
Exited(t, by) ==
  {[t EXCEPT !.tare = by, !.state = state] :
     state \in IF t.planned THEN {"completed", "discrepancy"} ELSE {"completed"}}

\* The exit weighing of a stop and its refusals, a full silo among them.
Exits(i, s, t) ==
  {[row |-> Parked(s), trip |-> t]} \cup
  (IF CanExit(t, s.exit)
   THEN {[row |-> [Closed(s) EXCEPT !.out = TRUE], trip |-> x] : x \in Exited(t, i)}
   ELSE {})

\* apply_departure until it locks the trip.
WeighedByHand(t) == t.tare # 0 \/ t.state \in {"completed", "discrepancy"}
Decided(s, t) ==
  IF t.state = "deleted" THEN {TripDeleted(s)}
  ELSE IF WeighedByHand(t) THEN {Closed(s)}
  ELSE IF s.gap \/ s.exit = 0 THEN {Parked(s)}
  ELSE {}

\* The whole of it, on a row that is locked.
Departed(i, s) ==
  LET t == TripOf(s.trip) IN
  IF ~s.entered THEN {[row |-> s, trip |-> t]}
  ELSE IF Decided(s, t) # {} THEN {[row |-> r, trip |-> t] : r \in Decided(s, t)}
  ELSE Exits(i, s, t)

-----------------------------------------------------------------------------
(* The importer: events. *)

ImportArrival ==
  /\ phase = "import" /\ job = Rest
  /\ feed # <<>> /\ Head(feed).kind = "arrival"
  /\ LET e == Head(feed) IN
     IF e.stop \in DOMAIN stops
     THEN Turn("ack", e.stop) /\ UNCHANGED <<stops, mem>>
     ELSE LET s == Row(e.number, e.full, e.since) IN
          /\ stops' = [i \in DOMAIN stops \cup {e.stop} |-> IF i = e.stop THEN s ELSE stops[i]]
          /\ mem' = [i \in {e.stop} |-> s]
          /\ Turn("open", e.stop)
  /\ UNCHANGED <<world, trips, upsets>>

\* A departure of a stop that is unknown is dropped.
ImportDeparture ==
  /\ phase = "import" /\ job = Rest
  /\ feed # <<>> /\ Head(feed).kind = "departure"
  /\ LET e == Head(feed) IN
     /\ stops' = IF e.stop \in DOMAIN stops /\ ~stops[e.stop].left
                 THEN [stops EXCEPT ![e.stop].left = TRUE, ![e.stop].exit = e.exit,
                                    ![e.stop].gap = e.gap]
                 ELSE stops
     /\ Turn("ack", e.stop)
  /\ UNCHANGED <<world, trips, mem, upsets>>

Ack ==
  /\ job.step = "ack"
  /\ feed' = Tail(feed)
  /\ job' = Rest /\ mem' = [i \in {} |-> 0]
  /\ UNCHANGED <<seen, gone, graced, stops, trips, phase, todo, upsets>>

-----------------------------------------------------------------------------
(* The importer: arrivals (_open_and_apply). *)

At(i, step) ==
  \/ job = Job(step, i)
  \/ step = "open" /\ phase = "arrivals" /\ job = Rest /\ IsNext(i)

\* _previous_pending: the last earlier stop whose departure still waits.
Waiting(i) ==
  {p \in DOMAIN stops :
     /\ p < i /\ p >= mem[i].since
     /\ stops[p].left /\ ~stops[p].out /\ stops[p].status = "open"}
Previous(i) == IF Waiting(i) = {} THEN 0 ELSE Max(Waiting(i))

\* _continues: the same number, if it was read, and no more weight.
Continues(i, p) ==
  /\ p # 0 /\ stops[p].trip # 0
  /\ stops[p].exit = 0 \/ mem[i].full <= stops[p].exit
  /\ mem[i].number \in {0, stops[p].number}

\* The stop had a trip, and it was deleted.
OpenNothing(i) ==
  /\ At(i, "open")
  /\ mem[i].trip = 0 /\ mem[i].opened # 0
  /\ Saves(i, Parked(mem[i]))
  /\ Finish(i)
  /\ UNCHANGED <<world, trips, upsets>>

OpenedBefore(i) ==
  /\ At(i, "open")
  /\ mem[i].trip # 0
  /\ Turn("enter", i)
  /\ UNCHANGED <<world, stops, mem, trips, upsets>>

WithoutTripNow(i) == mem[i].trip = 0         \* a mutant, for OneWagonPerTrip
WithoutTrip(i) == mem[i].trip = 0 /\ mem[i].opened = 0

ContinueTrip(i) ==
  LET p == Previous(i)
      s == [mem[i] EXCEPT !.trip = stops[p].trip, !.opened = stops[p].trip,
                          !.root = Root(p, stops[p]), !.entered = stops[p].entered]
  IN
  /\ At(i, "open") /\ WithoutTrip(i)
  /\ Continues(i, p)
  /\ stops' = [Save(stops, i, s) EXCEPT ![p].status = "superseded"]
  /\ mem' = [mem EXCEPT ![i] = s]
  /\ Turn("enter", i)
  /\ UNCHANGED <<world, trips, upsets>>

\* What becomes of the trips first: the departure that waited is applied.
Settled(p) ==
  IF p = 0 THEN {[rows |-> stops, trips |-> trips]}
  ELSE {[rows |-> [stops EXCEPT ![p] = o.row], trips |-> WithTrip(stops[p].trip, o.trip)] :
          o \in Departed(p, stops[p])}
Numbered(ts, number, states) ==
  {w \in DOMAIN ts : number # 0 /\ ts[w].number = number /\ ts[w].state \in states}

Opened(i, rows, w) ==
  LET s == [mem[i] EXCEPT !.trip = w, !.opened = w] IN
  /\ stops' = Save(rows, i, s)
  /\ mem' = [mem EXCEPT ![i] = s]
  /\ Turn("enter", i)

\* The trip expected with that number (which of several: a free choice), or a
\* new one, unless the number is on the site: then all of it is undone.
OpenTrip(i) ==
  /\ At(i, "open") /\ WithoutTrip(i)
  /\ ~Continues(i, Previous(i))
  /\ \E o \in Settled(Previous(i)) :
       LET expected == Numbered(o.trips, mem[i].number, {"expected"})
           present == Numbered(o.trips, mem[i].number, OnSite)
       IN
       \/ \E w \in expected :
            /\ trips' = [o.trips EXCEPT ![w].state = "arrived", ![w].by = i]
            /\ Opened(i, o.rows, w)
       \/ /\ expected = {} /\ present = {}
          /\ trips' = Append(o.trips, Trip(mem[i].number, "arrived", i))
          /\ Opened(i, o.rows, Len(o.trips) + 1)
       \/ /\ expected = {} /\ present # {}
          /\ Saves(i, Blocked(mem[i]))
          /\ Finish(i)
          /\ UNCHANGED trips
  /\ UNCHANGED <<world, upsets>>

\* apply_entry until it locks the trip.
Enter(i) ==
  LET s == mem[i]  t == TripOf(s.trip) IN
  /\ At(i, "enter")
  /\ IF s.entered THEN Saves(i, Cleared(s)) /\ Finish(i)
     ELSE IF t.state = "deleted" THEN Saves(i, Cleared(TripDeleted(s))) /\ Finish(i)
     ELSE IF t.gross # 0 THEN Saves(i, [Cleared(s) EXCEPT !.entered = TRUE]) /\ Finish(i)
     ELSE Turn("weigh", i) /\ UNCHANGED <<stops, mem>>
  /\ UNCHANGED <<world, trips, upsets>>

\* Under the lock: the silo of the main route, then the weight of the first
\* stop of the chain.  A trip deleted meanwhile fails the tick, or the stop.
WeighEntry(i) ==
  LET s == mem[i] IN
  /\ At(i, "weigh")
  /\ IF trips[s.trip].state = "deleted"
     THEN /\ IF phase = "import"
             THEN phase' = "import" /\ todo' = {} /\ job' = Rest /\ mem' = [j \in {} |-> 0]
                  /\ UNCHANGED stops
             ELSE Saves(i, Parked(s)) /\ Finish(i)
          /\ UNCHANGED trips
     ELSE \E routed \in IF trips[s.trip].planned THEN BOOLEAN ELSE {FALSE} :
            LET t == [trips[s.trip] EXCEPT !.silo = @ \/ routed] IN
            /\ IF CanEnter(t)
               THEN /\ Saves(i, [Cleared(s) EXCEPT !.entered = TRUE])
                    /\ trips' = [trips EXCEPT ![s.trip] = Entered(t, Root(i, s))]
               ELSE Saves(i, Blocked(s)) /\ UNCHANGED trips
            /\ Finish(i)
  /\ UNCHANGED <<world, upsets>>

-----------------------------------------------------------------------------
(* The importer: its two loops (apply_pending), and its end. *)

Reads(S) == todo' = S /\ mem' = [i \in S |-> stops[i]]

\* With events still to take: a tick takes a limited number of them, and more
\* come after its last look.
ReadArrivals ==
  /\ phase = "import" /\ job = Rest
  /\ phase' = "arrivals"
  /\ Reads({i \in DOMAIN stops : stops[i].status = "open" /\ ~stops[i].entered})
  /\ UNCHANGED <<world, stops, trips, job, upsets>>

ReadDepartures ==
  /\ phase = "arrivals" /\ job = Rest /\ todo = {}
  /\ phase' = "departures"
  /\ Reads({i \in DOMAIN stops : stops[i].status = "open" /\ stops[i].left /\ ~stops[i].out})
  /\ UNCHANGED <<world, stops, trips, job, upsets>>

Leave(i) ==
  LET s == mem[i]  t == TripOf(s.trip) IN
  /\ phase = "departures" /\ job = Rest /\ IsNext(i)
  /\ IF ~s.entered \/ ~Certain(i) THEN Finish(i) /\ UNCHANGED <<stops, mem>>
     ELSE IF Decided(s, t) = {} THEN Turn("exit", i) /\ UNCHANGED <<stops, mem>>
     ELSE (\E r \in Decided(s, t) : Saves(i, r)) /\ Finish(i)
  /\ UNCHANGED <<world, trips, upsets>>

WeighExit(i) ==
  LET s == mem[i]  t == trips[s.trip] IN
  /\ At(i, "exit")
  /\ IF t.state = "deleted" THEN Saves(i, TripDeleted(s)) /\ UNCHANGED trips
     ELSE \E o \in Exits(i, s, t) : Saves(i, o.row) /\ trips' = WithTrip(s.trip, o.trip)
  /\ Finish(i)
  /\ UNCHANGED <<world, upsets>>

EndTick ==
  /\ phase = "departures" /\ job = Rest /\ todo = {}
  /\ phase' = "import" /\ mem' = [i \in {} |-> 0]
  /\ UNCHANGED <<world, stops, trips, todo, job, upsets>>

TickDies ==
  /\ (phase # "import" \/ job # Rest) /\ upsets < MaxUpsets
  /\ upsets' = upsets + 1
  /\ phase' = "import" /\ todo' = {} /\ mem' = [i \in {} |-> 0] /\ job' = Rest
  /\ UNCHANGED <<world, stops, trips>>

-----------------------------------------------------------------------------
(* Operators. *)

Intervenes ==
  /\ upsets < MaxUpsets
  /\ upsets' = upsets + 1
  /\ UNCHANGED <<world, importer>>

\* register_arrival: the number of the wagon under the arch, for a trip
\* that is expected without one.
RegisterArrival(w, number) ==
  /\ Intervenes
  /\ trips[w].state = "expected" /\ trips[w].number = 0
  /\ number # 0 /\ seen > 0 /\ seen \notin gone
  /\ Numbered(trips, number, OnSite) = {}
  /\ trips' = [trips EXCEPT ![w].state = "arrived", ![w].number = number]
  /\ UNCHANGED stops

\* The silo a trip lacks: nothing in the program assigns it to a trip without
\* a supply, somebody does it in the database.
AssignSilo(w) ==
  /\ Intervenes
  /\ trips[w].state = "arrived" /\ ~trips[w].silo
  /\ trips' = [trips EXCEPT ![w].silo = TRUE]
  /\ UNCHANGED stops

WeighByHand(w) ==
  /\ Intervenes
  /\ \/ CanEnter(trips[w]) /\ trips' = [trips EXCEPT ![w] = Entered(trips[w], Hand)]
     \/ /\ CanExit(trips[w], HandTare)
        /\ \E t \in Exited(trips[w], Hand) : trips' = [trips EXCEPT ![w] = t]
  /\ UNCHANGED stops

\* resolve_simple_discrepancy: confirmed, or sent back to the scale.
Resolve(w) ==
  /\ Intervenes
  /\ trips[w].state = "discrepancy"
  /\ \/ trips' = [trips EXCEPT ![w].state = "completed"]
     \/ trips' = [trips EXCEPT ![w].state = "at_silo", ![w].tare = 0]
  /\ UNCHANGED stops

DeleteTrip(w) ==
  /\ Intervenes
  /\ trips[w].state \in OnSite \cup {"completed"}
  /\ trips' = [trips EXCEPT ![w].state = "deleted"]
  /\ stops' = [i \in DOMAIN stops |->
                 IF stops[i].trip = w THEN [stops[i] EXCEPT !.trip = 0] ELSE stops[i]]

Dismiss(i) ==
  /\ Intervenes
  /\ i \in DOMAIN stops /\ stops[i].status # "closed"
  /\ stops' = [stops EXCEPT ![i] = Closed(stops[i])]
  /\ UNCHANGED trips

-----------------------------------------------------------------------------
Import ==
  \/ ImportArrival \/ ImportDeparture \/ Ack
  \/ ReadArrivals \/ ReadDepartures \/ EndTick
  \/ \E i \in Stops :
       \/ OpenNothing(i) \/ OpenedBefore(i) \/ ContinueTrip(i) \/ OpenTrip(i)
       \/ Enter(i) \/ WeighEntry(i) \/ Leave(i) \/ WeighExit(i)

Next ==
  \/ Arrive \/ Depart \/ \E i \in Stops : GraceOver(i) \/ Dismiss(i)
  \/ Import \/ TickDies
  \/ \E w \in DOMAIN trips :
       \/ AssignSilo(w) \/ WeighByHand(w) \/ Resolve(w) \/ DeleteTrip(w)
       \/ \E e \in Arrivals : RegisterArrival(w, e.number)

Spec == Init /\ [][Next]_vars

\* The monitor starts a tick every few seconds; time passes.
FairSpec ==
  /\ Spec
  /\ WF_vars(Import) /\ WF_vars(\E i \in Stops : GraceOver(i))

-----------------------------------------------------------------------------
(* Properties *)

\* A stop opens one trip in its life, however often the tick dies between
\* its transactions and whoever deletes the trip (models.py
\* opened_wagon_id: the importer must not open a deleted trip again).
OneTripPerStop ==
  \A v, w \in DOMAIN trips : trips[v].by = trips[w].by /\ trips[v].by # 0 => v = w

\* Stops of one trip are one wagon moved under the arch: they have one root,
\* and only the last of them still waits for the importer.
OneChainPerTrip ==
  \A i, j \in DOMAIN stops :
    (i < j /\ stops[i].trip # 0 /\ stops[i].trip = stops[j].trip) =>
      Root(i, stops[i]) = Root(j, stops[j]) /\ stops[i].status # "open"

\* "One stop = one wagon under the arch" (the head of wagon_arch.py).
OneWagonPerTrip == OneTripPerStop /\ OneChainPerTrip

\* The full weight of a trip is that of its first stop, the empty one that of
\* its last: a weight taken in the middle of unloading is never booked.
WeightsOfTheTrip ==
  \A i \in DOMAIN stops :
    LET t == TripOf(stops[i].trip) IN
    stops[i].trip # 0 => /\ t.gross > 0 => t.gross <= i
                         /\ t.tare > 0 => i <= t.tare

\* A tick that read the trip before, or an operator who weighs beside it, books
\* no full weight over another ("there must be no second record", apply_entry),
\* and a completed or deleted trip keeps both its weights.  Out of a discrepancy
\* a trip may be weighed again: HandTareStays is about that.
SettledWeightsStay ==
  [][\A w \in DOMAIN trips :
       /\ (trips[w].gross # 0 /\ trips[w].state # "discrepancy") =>
            trips'[w].gross = trips[w].gross
       /\ trips[w].state \in {"completed", "deleted"} =>
            trips'[w].gross = trips[w].gross /\ trips'[w].tare = trips[w].tare]_vars

\* A wagon that left does not wait for the importer for ever: in the end its
\* stop is settled, or tells the operator why its entry is not.
StopsSettle ==
  <>[](\A i \in DOMAIN stops :
         stops[i].left => \/ stops[i].status # "open"
                          \/ ~stops[i].entered /\ stops[i].blocked)

-----------------------------------------------------------------------------
(* Why: the inductive invariant behind the first three.                    *)

RowFields == DOMAIN Row(0, 1, 1)
TripFields == DOMAIN Trip(0, "expected", 0)
Events ==
  [kind : {"arrival"}, stop : Stops, number : Nat, full : Nat, since : Nat]
  \cup [kind : {"departure"}, stop : Stops, exit : Nat, gap : BOOLEAN]

Reported == seen \in 0..MaxStops /\ feed \in Seq(Events)

IsRow(s) == DOMAIN s = RowFields
WellFormed ==
  /\ Len(trips) \in Nat /\ trips = [w \in 1..Len(trips) |-> trips[w]]
  /\ \A w \in DOMAIN trips : DOMAIN trips[w] = TripFields
  /\ \A i \in DOMAIN stops : i \in Stops /\ IsRow(stops[i])

\* The importer is the only one that gives a stop its trip: its objects know,
\* but for a trip that was deleted.
Faithful(s, r, ts) ==
  /\ IsRow(s) /\ s.opened = r.opened /\ s.root = r.root
  /\ s.status # "open" => r.status # "open"
  /\ \/ s.trip = r.trip
     \/ r.trip = 0 /\ s.trip \in DOMAIN ts /\ ts[s.trip].state = "deleted"
JobOfPhase ==
  /\ job.step \in {"rest", "open", "enter", "weigh", "exit", "ack"}
  /\ job.step = "ack" => phase = "import"
  /\ job.step # "rest" => (job.step = "exit" <=> phase = "departures")
InMemory ==
  /\ DOMAIN mem \subseteq DOMAIN stops
  /\ \A i \in DOMAIN mem : Faithful(mem[i], stops[i], trips)
  /\ todo \subseteq DOMAIN mem /\ (phase = "import" => todo = {})
  /\ job.step \notin {"rest", "ack"} => job.stop \in DOMAIN mem
  /\ JobOfPhase

\* The stop that opened a trip remembers it, deleted or not.
Remembered ==
  \A w \in DOMAIN trips :
    trips[w].by # 0 => trips[w].by \in DOMAIN stops /\ stops[trips[w].by].opened # 0

NotWeighedYet ==
  \A w \in DOMAIN trips :
    trips[w].state \in {"expected", "arrived"} => trips[w].gross = 0 /\ trips[w].tare = 0

Linked ==
  \A i \in DOMAIN stops :
    LET s == stops[i] IN
    /\ s.root \in 0..(i - 1)
    /\ s.opened = 0 => s.trip = 0 /\ s.root = 0
    /\ s.trip # 0 => s.trip \in DOMAIN trips /\ trips[s.trip].state # "expected"

\* The departures are read when no stop can join a trip any more.
LastOfTrip ==
  phase = "departures" =>
    \A i \in DOMAIN mem : \A j \in DOMAIN stops :
      i < j /\ stops[i].trip # 0 => stops[j].trip # stops[i].trip

\* The full weight is that of the root, and no stop joins after the empty one.
Booked ==
  \A i \in DOMAIN stops :
    LET t == trips[stops[i].trip] IN
    stops[i].trip # 0 => /\ t.gross > 0 => t.gross = Root(i, stops[i])
                         /\ t.tare > 0 => i <= t.tare /\ stops[i].status # "open"

IInv ==
  /\ WellFormed /\ InMemory /\ Remembered /\ OneTripPerStop /\ NotWeighedYet
  /\ Linked /\ OneChainPerTrip /\ LastOfTrip /\ Booked

-----------------------------------------------------------------------------
(* What the code does not keep; the README says how.                       *)

\* "The operator has settled it: the stop is closed and waits for the
\* automation no more" (dismiss, views.py).
DismissalHolds ==
  [][\A i \in DOMAIN stops : stops[i].status = "closed" => stops'[i].status = "closed"]_vars

\* "The operator has closed the trip by hand: the automation has nothing to
\* add" (apply_departure).
HandTareStays ==
  [][\A w \in DOMAIN trips : trips[w].tare = Hand => trips'[w].tare \in {Hand, 0}]_vars

\* The operator is told why a stop waits for them.
AttentionHasReason ==
  \A i \in DOMAIN stops : stops[i].status = "attention" => stops[i].blocked
=============================================================================
