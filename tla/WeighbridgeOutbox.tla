--------------------------- MODULE WeighbridgeOutbox ---------------------------
(***************************************************************************)
(* A weighing on its way from the scale to the CRM (backend/weighbridge/   *)
(* outbox.py, writer.py, collector.py, wagon_collector.py, runtime.py and  *)
(* the importers apps/grain/outbox_importer.py, wagon_arch.py).            *)
(*                                                                         *)
(* The collector keeps writes in memory and one thread commits them, in    *)
(* order, to a SQLite file; the importer replays the file into the CRM and *)
(* acknowledges after its commit.  Only rows and standing survive a crash  *)
(* of the collector, only rows and taken a crash of the importer.          *)
(* Site "truck" records one event per truck with two evidence workers;     *)
(* site "wagon" records the arrival and the departure of every stop under  *)
(* the arch and remembers the stop that stands there.                      *)
(***************************************************************************)
EXTENDS Naturals, Sequences, FiniteSets

CONSTANTS
  Sites,       \* sites to model, a subset of {"truck", "wagon"}
  MaxStops,    \* bound: trucks weighed, or stops made under the arch
  MaxEpoch     \* bound: starts of the collector

ASSUME OutboxAssumption ==
  /\ Sites \subseteq {"truck", "wagon"} /\ Sites # {}
  /\ MaxStops \in Nat /\ MaxEpoch \in Nat \ {0}

VARIABLES
  site,       \* which collector this is
  epoch,      \* how many times it has been started
  up,         \* whether it runs
  under,      \* stops (or trucks) made so far: the last of them is the present
  still,      \* whether that last one still stands there
  made,       \* events made, in order: [kind, stop, visit, epoch]
  tracker,    \* StopTracker.standing: the arrival of the present stop, or 0
  saving,     \* where the wagon poll stands with remember_standing
  pending,    \* OutboxWriter.pending_writes
  workers,    \* evidence jobs that have not finished: <<event, part>>
  rows,       \* table events, by seq
  standing,   \* row "standing" of table state: an arrival, or 0
  taken,      \* events the CRM committed (or refused), in order
  importing,  \* the event committed in the CRM and not yet acknowledged, or 0
  missed      \* history: arrivals whose remember_standing met a locked file

collector == <<up, tracker, saving, pending, workers>>
world == <<under, still, missed>>
disk == <<rows, standing>>
crm == <<taken, importing>>
vars == <<site, epoch, world, made, collector, disk, crm>>

Kinds == {"capture", "arrival", "departure"}
Parts == {"photo", "ocr", "both"}
MaxEvents == 2 * MaxStops * MaxEpoch
Ids == 1..MaxEvents

Events == [kind : Kinds, stop : Ids, visit : 0..MaxStops, epoch : 1..MaxEpoch]
Writes == [op : {"put"}, id : Ids] \cup [op : {"finish"}, id : Ids, part : {"photo", "ocr"}]
Rows == [id : Ids, photo : BOOLEAN, ocr : BOOLEAN, ready : BOOLEAN, acked : BOOLEAN]

\* The variables stay within the values the code gives them.
TypeOK ==
  /\ site \in Sites /\ epoch \in 1..MaxEpoch
  /\ up \in BOOLEAN /\ still \in BOOLEAN
  /\ under \in 0..MaxStops
  /\ made \in Seq(Events)
  /\ tracker \in 0..MaxEvents /\ standing \in 0..MaxEvents /\ importing \in 0..MaxEvents
  /\ saving \in {"no", "arrival", "departure"}
  /\ pending \in Seq(Writes)
  /\ workers \subseteq Ids \X Parts
  /\ rows \in Seq(Rows)
  /\ taken \in Seq(Ids)
  /\ missed \subseteq Ids

Init ==
  /\ site \in Sites
  /\ epoch = 1 /\ up = TRUE
  /\ under = 0 /\ still = FALSE
  /\ made = <<>> /\ tracker = 0 /\ saving = "no"
  /\ pending = <<>> /\ workers = {}
  /\ rows = <<>> /\ standing = 0
  /\ taken = <<>> /\ importing = 0
  /\ missed = {}

-----------------------------------------------------------------------------
(* The vehicles. *)

Comes ==
  /\ ~still /\ under < MaxStops
  /\ still' = TRUE /\ under' = under + 1
  /\ UNCHANGED <<site, epoch, missed, made, collector, disk, crm>>

Leaves ==
  /\ still
  /\ still' = FALSE
  /\ UNCHANGED <<site, epoch, under, missed, made, collector, disk, crm>>

-----------------------------------------------------------------------------
(* The collector.  NewId is the uuid4() of the next event. *)

Put(i) == [op |-> "put", id |-> i]
Finish(i, part) == [op |-> "finish", id |-> i, part |-> part]
NewId == Len(made) + 1
Event(kind, stop, visit) == [kind |-> kind, stop |-> stop, visit |-> visit, epoch |-> epoch]

\* OutboxWriter.enqueue: the write joins the end of the line.
\* Mutant: the newest event first.
EnqueueInFront(writes) == pending' = writes \o pending
Enqueue(writes) == pending' = pending \o writes

\* start_evidence: two photo jobs and one recognition may run; a job that
\* finds no slot is finished at once without evidence.
PhotoBusy == Cardinality({w \in workers : w[2] = "photo"}) >= 2
OcrBusy == \E w \in workers : w[2] = "ocr"
Refused(i) ==
  (IF PhotoBusy THEN <<Finish(i, "photo")>> ELSE <<>>)
    \o (IF OcrBusy THEN <<Finish(i, "ocr")>> ELSE <<>>)
Started(i) ==
  (IF PhotoBusy THEN {} ELSE {<<i, "photo">>}) \cup (IF OcrBusy THEN {} ELSE {<<i, "ocr">>})

\* The lane reports the truck on the scale, once while it stands there.
CaptureTruck ==
  /\ site = "truck" /\ up /\ still
  /\ \A i \in DOMAIN made : made[i].visit # under
  /\ made' = Append(made, Event("capture", NewId, under))
  /\ Enqueue(<<Put(NewId)>> \o Refused(NewId))
  /\ workers' = workers \cup Started(NewId)
  /\ UNCHANGED <<site, epoch, world, up, tracker, saving, disk, crm>>

\* The tracker, holding no stop, sees the zone still and a stable weight:
\* the stop is adopted first, then remembered on disk.
WagonArrives ==
  /\ site = "wagon" /\ up /\ saving = "no"
  /\ still /\ tracker = 0
  /\ Len(made) < MaxEvents
  /\ made' = Append(made, Event("arrival", NewId, under))
  /\ tracker' = NewId
  /\ saving' = "arrival"
  /\ UNCHANGED <<site, epoch, world, up, pending, workers, disk, crm>>

\* Mutant: remember_standing first, and the event forgotten when evidence
\* already runs.
ArrivalForgotten ==
  /\ up /\ saving = "arrival"
  /\ standing' = tracker
  /\ IF workers = {} THEN Enqueue(<<Put(tracker)>>) ELSE UNCHANGED pending
  /\ workers' = workers \cup {<<tracker, "both">>}
  /\ saving' = "no"
  /\ UNCHANGED <<site, epoch, world, made, up, tracker, rows, crm>>

\* remember_standing committed: the arrival is queued and evidence starts.
ArrivalRemembered ==
  /\ up /\ saving = "arrival"
  /\ standing' = tracker
  /\ Enqueue(<<Put(tracker)>>)
  /\ workers' = workers \cup {<<tracker, "both">>}
  /\ saving' = "no"
  /\ UNCHANGED <<site, epoch, world, made, up, tracker, rows, crm>>

\* The wagon of the tracker is no longer the one that stands: it moved, or a
\* heavier one took its place.  The departure is complete as it is queued.
WagonDeparts ==
  /\ site = "wagon" /\ up /\ saving = "no" /\ tracker # 0
  /\ ~still \/ under # made[tracker].visit
  /\ Len(made) < MaxEvents
  /\ made' = Append(made, Event("departure", tracker, made[tracker].visit))
  /\ Enqueue(<<Put(NewId), Finish(NewId, "photo"), Finish(NewId, "ocr")>>)
  /\ tracker' = 0
  /\ saving' = "departure"
  /\ UNCHANGED <<site, epoch, world, up, workers, disk, crm>>

DepartureRemembered ==
  /\ up /\ saving = "departure"
  /\ standing' = 0
  /\ saving' = "no"
  /\ UNCHANGED <<site, epoch, world, made, up, tracker, pending, workers, rows, crm>>

\* The importer holds the file longer than the 5 seconds remember_standing waits
\* for it: the rest of the poll is skipped.  The tracker holds the arrival by
\* then, so no later poll queues it.
StandingBusy ==
  /\ up /\ saving # "no"
  /\ saving' = "no"
  /\ missed' = IF saving = "arrival" THEN missed \cup {tracker} ELSE missed
  /\ UNCHANGED <<site, epoch, under, still, made, up, tracker, pending, workers, disk, crm>>

\* A new stable reading of the standing wagon: the state is written again,
\* which changes it only after a write that met a locked file.
StableReading ==
  /\ site = "wagon" /\ up /\ saving = "no" /\ tracker # 0 /\ still
  /\ standing # tracker
  /\ standing' = tracker
  /\ UNCHANGED <<site, epoch, world, made, collector, rows, crm>>

\* snapshot, recognize, evidence: whatever the camera answered, the part is
\* finished.  The wagon pool has one thread, so its stops finish in order.
WorkerDone(w) ==
  /\ up /\ w \in workers
  /\ w[2] = "both" => \A v \in workers : w[1] <= v[1]
  /\ workers' = workers \ {w}
  /\ Enqueue(IF w[2] = "both" THEN <<Finish(w[1], "photo"), Finish(w[1], "ocr")>>
                              ELSE <<Finish(w[1], w[2])>>)
  /\ UNCHANGED <<site, epoch, world, made, up, tracker, saving, disk, crm>>

-----------------------------------------------------------------------------
(* The SQLite file and its writer. *)

\* Outbox.put: an id that is there already is left alone.
PutRow(i) ==
  IF \E n \in DOMAIN rows : rows[n].id = i THEN rows
  ELSE Append(rows, [id |-> i, photo |-> FALSE, ocr |-> FALSE, ready |-> FALSE, acked |-> FALSE])

\* Mutant: either part makes the event ready.
FinishAny(i, part) ==
  [n \in DOMAIN rows |->
    IF rows[n].id # i \/ rows[n].ready THEN rows[n]
    ELSE [rows[n] EXCEPT !.photo = @ \/ part = "photo", !.ocr = @ \/ part = "ocr",
                         !.ready = TRUE]]

\* Outbox.finish: only a row that is not ready takes a part; with both parts
\* it becomes ready.
FinishRow(i, part) ==
  [n \in DOMAIN rows |->
    IF rows[n].id # i \/ rows[n].ready THEN rows[n]
    ELSE LET photo == rows[n].photo \/ part = "photo"
             ocr == rows[n].ocr \/ part = "ocr"
         IN [rows[n] EXCEPT !.photo = photo, !.ocr = ocr, !.ready = photo /\ ocr]]

\* OutboxWriter.flush commits the write at the head of the line, and only
\* then drops it; a locked file leaves it there for the next try.
Flush ==
  /\ up /\ pending # <<>>
  /\ LET w == Head(pending) IN
       rows' = IF w.op = "put" THEN PutRow(w.id) ELSE FinishRow(w.id, w.part)
  /\ pending' = Tail(pending)
  /\ UNCHANGED <<site, epoch, world, made, up, tracker, saving, workers, standing, crm>>

\* The collector dies: what it held in memory is gone.
Crash ==
  /\ up /\ epoch < MaxEpoch
  /\ up' = FALSE
  /\ tracker' = 0 /\ saving' = "no" /\ pending' = <<>> /\ workers' = {}
  /\ UNCHANGED <<site, epoch, world, made, disk, crm>>

\* Mutant: the tracker starts empty, without restore_standing.
RestartEmpty ==
  /\ ~up
  /\ up' = TRUE /\ epoch' = epoch + 1
  /\ rows' = [n \in DOMAIN rows |-> [rows[n] EXCEPT !.ready = TRUE]]
  /\ tracker' = 0
  /\ UNCHANGED <<site, world, made, saving, pending, workers, standing, crm>>

\* Mutant: what the last collector left unfinished stays so.
RecoveredNone == rows

\* runtime.run, under the exclusive lock: recover, then restore_standing.
Recovered == [n \in DOMAIN rows |-> [rows[n] EXCEPT !.ready = TRUE]]

Restart ==
  /\ ~up
  /\ up' = TRUE /\ epoch' = epoch + 1
  /\ rows' = Recovered
  /\ tracker' = standing
  /\ UNCHANGED <<site, world, made, saving, pending, workers, standing, crm>>

-----------------------------------------------------------------------------
(* The importer. *)

Unacked == {n \in DOMAIN rows : ~rows[n].acked}

\* Mutant: the oldest ready row, past one that still waits for evidence.
FirstReady ==
  LET ready == {n \in Unacked : rows[n].ready} IN {n \in ready : \A m \in ready : n <= m}

\* Outbox.next: the oldest unacknowledged row, if it is ready.
HeadRow == {n \in Unacked : rows[n].ready /\ \A m \in Unacked : n <= m}

Known(i) == \E n \in DOMAIN taken : taken[n] = i

\* Mutant: an import that failed is acknowledged like one that committed.
ImportSwallowed ==
  /\ importing = 0
  /\ \E n \in HeadRow :
       /\ importing' = rows[n].id
       /\ taken' \in {taken, Append(taken, rows[n].id)}
  /\ UNCHANGED <<site, epoch, world, made, collector, disk>>

\* import_event commits: what was committed before is recognised by its id.
\* A departure whose stop the CRM does not know is refused, and acknowledged
\* all the same.
Import ==
  /\ importing = 0
  /\ \E n \in HeadRow :
       /\ importing' = rows[n].id
       /\ taken' = IF Known(rows[n].id) THEN taken ELSE Append(taken, rows[n].id)
  /\ UNCHANGED <<site, epoch, world, made, collector, disk>>

\* Outbox.ack: only a ready row.
Ack ==
  /\ importing # 0
  /\ rows' = [n \in DOMAIN rows |->
                IF rows[n].id = importing /\ rows[n].ready
                THEN [rows[n] EXCEPT !.acked = TRUE] ELSE rows[n]]
  /\ importing' = 0
  /\ UNCHANGED <<site, epoch, world, made, collector, standing, taken>>

\* The importer dies, or finds the file locked, before it acknowledges.
ImporterDies ==
  /\ importing # 0
  /\ importing' = 0
  /\ UNCHANGED <<site, epoch, world, made, collector, disk, taken>>

-----------------------------------------------------------------------------
Next ==
  \/ Comes \/ Leaves
  \/ CaptureTruck
  \/ WagonArrives \/ ArrivalRemembered \/ WagonDeparts \/ DepartureRemembered
  \/ StandingBusy \/ StableReading
  \/ \E w \in workers : WorkerDone(w)
  \/ Flush \/ Crash \/ Restart
  \/ Import \/ Ack \/ ImporterDies

Spec == Init /\ [][Next]_vars

(* Workers are bounded by timeouts, the writer is restarted on every poll,  *)
(* the service manager restarts the collector, the monitor calls the        *)
(* importer every tick.  The importer may die before an acknowledgement,    *)
(* but not before every one of them.                                        *)
Fairness ==
  /\ WF_vars(\E w \in workers : WorkerDone(w))
  /\ WF_vars(Flush) /\ WF_vars(Restart)
  /\ WF_vars(Import) /\ SF_vars(Ack)
  /\ WF_vars(ArrivalRemembered) /\ WF_vars(DepartureRemembered)

FairSpec == Spec /\ Fairness

-----------------------------------------------------------------------------
(* Properties *)

\* The promise to the CRM: the rows of the file, each taken once, in the
\* order of recording, and every one of them in the end.
Queue == INSTANCE WeighingQueue WITH
  Weighings <- Ids,
  recorded <- [n \in DOMAIN rows |-> rows[n].id],
  taken <- taken

ImplementsQueue == Queue!Spec

\* What the importer acknowledged it has taken before: a crash at any step
\* loses no weighing (outbox_importer.py: "then acknowledge after DB commit").
AckedIsTaken == \A n \in DOMAIN rows : rows[n].acked => Known(rows[n].id)

\* A weighing reaches the CRM without its evidence only when the collector
\* that was collecting it died.
EvidenceTravels ==
  \A n \in DOMAIN rows :
    Known(rows[n].id) => \/ rows[n].photo /\ rows[n].ocr
                         \/ made[rows[n].id].epoch < epoch

\* Rows are committed in the order of capture, whatever delays the writer
\* (writer.py: "it never reorders, drops or replaces a value").
CaptureOrder == \A m, n \in DOMAIN rows : m < n => rows[m].id < rows[n].id

OnDisk(i) == \E n \in DOMAIN rows : rows[n].id = i
InLine(i) == \E n \in DOMAIN pending : pending[n] = Put(i)

\* While the collector lives, a weighing it made is on disk or in the line; only
\* an arrival that met a locked state file is in neither.
NothingDropped ==
  (up /\ saving = "no") =>
    \A i \in DOMAIN made :
      made[i].epoch = epoch => OnDisk(i) \/ InLine(i) \/ i \in missed

\* A stop under the arch is recorded as one arrival, even when the collector
\* restarts while the wagon stands there.
OneArrivalPerStop ==
  \A m, n \in DOMAIN rows :
    LET a == made[rows[m].id]  b == made[rows[n].id] IN
    (a.kind = "arrival" /\ b.kind = "arrival" /\ a.visit = b.visit) => m = n

\* The arrival of the departure in row n is recorded before it.
ArrivalBefore(n) == \E m \in 1..(n - 1) : rows[m].id = made[rows[n].id].stop

\* Without a restart between them, the departure of a stop finds its arrival
\* recorded before it, and the importer does not refuse it: unless the state
\* file was locked when the arrival was remembered.
DepartureFindsArrival ==
  \A n \in DOMAIN rows :
    LET d == made[rows[n].id] IN
    (d.kind = "departure" /\ made[d.stop].epoch = d.epoch /\ d.stop \notin missed)
      => ArrivalBefore(n)

\* runtime.py of a locked file: "The next tick retries with the same state" - so
\* by the time a collector records a departure it has recorded the arrival.
EveryDepartureFindsArrival ==
  \A n \in DOMAIN rows :
    LET d == made[rows[n].id] IN
    (d.kind = "departure" /\ made[d.stop].epoch = d.epoch) => ArrivalBefore(n)

-----------------------------------------------------------------------------
(* What makes them inductive. *)

\* Event numbers never run out, and what the collector remembers it has made.
Counted ==
  /\ ~up => epoch < MaxEpoch /\ saving = "no" /\ pending = <<>>
  /\ Len(made) <= MaxEvents /\ tracker <= Len(made) /\ standing <= Len(made)
  /\ saving = "arrival" => site = "wagon" /\ tracker = Len(made) /\ tracker # 0
  /\ saving = "departure" => tracker = 0
  /\ still => under # 0
  /\ \A i \in DOMAIN made :
       /\ made[i].visit <= under /\ made[i].epoch <= epoch
       /\ site = "truck" => i <= made[i].visit
       /\ made[i].kind = "departure" => made[i].stop < i

\* The file, the line and the arrival about to be queued follow one another in
\* the order of capture.
LineInOrder ==
  \A m, n \in DOMAIN pending :
    m < n /\ pending[m].op = "put" /\ pending[n].op = "put" => pending[m].id < pending[n].id

DiskBeforeLine ==
  \A m \in DOMAIN rows, n \in DOMAIN pending :
    pending[n].op = "put" => rows[m].id < pending[n].id

Recorded(i) == OnDisk(i) \/ InLine(i)

RecordedIsMade ==
  \A i \in Ids : Recorded(i) => i <= Len(made) /\ (saving = "arrival" => i < tracker)

InOrder == CaptureOrder /\ LineInOrder /\ DiskBeforeLine /\ RecordedIsMade

\* What this collector made is on its way to the file; the file never skips
\* an event of the collector that made it.
LineIsFresh ==
  /\ \A i \in Ids : InLine(i) => made[i].epoch = epoch
  /\ saving = "arrival" => made[tracker].epoch = epoch

OnItsWay ==
  up => \A i \in DOMAIN made :
          made[i].epoch = epoch =>
            Recorded(i) \/ i \in missed \/ (saving = "arrival" /\ i = tracker)

NoGaps ==
  \A n \in DOMAIN rows, i \in DOMAIN made :
    i < rows[n].id /\ made[i].epoch = made[rows[n].id].epoch => OnDisk(i) \/ i \in missed

Kept == LineIsFresh /\ OnItsWay /\ NoGaps

Arrived(i) == made[i].kind = "arrival" /\ Recorded(i)

\* A recorded arrival whose wagon still stands there is remembered, on disk
\* and by the tracker.
OneStop ==
  /\ \A i, j \in DOMAIN made :
       Arrived(i) /\ Arrived(j) /\ made[i].visit = made[j].visit => i = j
  /\ \A i \in DOMAIN made :
       Arrived(i) /\ still /\ made[i].visit = under => standing = i /\ (up => tracker = i)
  /\ saving = "arrival" => \A i \in DOMAIN made :
       Arrived(i) => made[i].visit # made[tracker].visit

\* The CRM has taken a prefix of the file, of complete rows, and all of it but
\* its last is acknowledged.
Taken ==
  /\ Len(taken) <= Len(rows)
  /\ \A n \in DOMAIN taken : taken[n] = rows[n].id /\ rows[n].ready
  /\ \A n \in DOMAIN rows :
       /\ rows[n].acked => n <= Len(taken)
       /\ n < Len(taken) => rows[n].acked
       /\ rows[n].ready => \/ rows[n].photo /\ rows[n].ocr
                           \/ made[rows[n].id].epoch < epoch
  /\ importing # 0 => Len(taken) # 0 /\ importing = taken[Len(taken)]

IInv == TypeOK /\ Counted /\ InOrder /\ Kept /\ OneStop /\ Taken
=============================================================================
