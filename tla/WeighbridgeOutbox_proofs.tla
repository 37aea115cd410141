------------------------ MODULE WeighbridgeOutbox_proofs ------------------------
(* Theorems about WeighbridgeOutbox, for any number of stops and restarts. *)
EXTENDS WeighbridgeOutbox, SequenceTheorems, TLAPS

-----------------------------------------------------------------------------
(* The numbers of events and what joins the line. *)

LEMMA EventBound == MaxEvents \in Nat /\ MaxStops <= MaxEvents /\ Ids \subseteq Nat \ {0}
<1>1. MaxStops \in Nat /\ MaxEpoch \in Nat /\ MaxEpoch >= 1
  BY OutboxAssumption
<1>2. MaxStops * MaxEpoch \in Nat /\ MaxStops * MaxEpoch >= MaxStops
  BY <1>1
<1>3. MaxEvents = 2 * (MaxStops * MaxEpoch)
  BY <1>1 DEF MaxEvents
<1> QED BY <1>1, <1>2, <1>3 DEF Ids

LEMMA WriteTypes ==
  ASSUME NEW i \in Ids
  PROVE  /\ Put(i) \in Writes
         /\ Finish(i, "photo") \in Writes /\ Finish(i, "ocr") \in Writes
BY DEF Put, Finish, Writes

LEMMA RefusedIsEvidence ==
  ASSUME NEW i \in Ids
  PROVE  /\ Refused(i) \in Seq(Writes)
         /\ \A n \in DOMAIN Refused(i) : Refused(i)[n].op = "finish"
<1> DEFINE F == {w \in Writes : w.op = "finish"}
<1>1. Finish(i, "photo") \in F /\ Finish(i, "ocr") \in F
  BY WriteTypes DEF Finish
<1>2. \A w \in F : <<w>> \in Seq(F)
  OBVIOUS
<1>3. <<>> \in Seq(F)
  OBVIOUS
<1> DEFINE P == IF PhotoBusy THEN <<Finish(i, "photo")>> ELSE <<>>
           O == IF OcrBusy THEN <<Finish(i, "ocr")>> ELSE <<>>
<1>4. P \in Seq(F) /\ O \in Seq(F)
  BY <1>1, <1>2, <1>3
<1>5. Refused(i) = P \o O
  BY DEF Refused
<1> HIDE DEF F, P, O
<1>6. Refused(i) \in Seq(F)
  BY <1>4, <1>5, ConcatProperties
<1>7. \A n \in DOMAIN Refused(i) : Refused(i)[n] \in F
  BY <1>6, LenProperties, ElementOfSeq
<1>8. F \subseteq Writes
  BY DEF F
<1>9. Refused(i) \in Seq(Writes)
  BY <1>6, <1>8, SeqMonotonic
<1> QED BY <1>7, <1>9 DEF F

\* What a step does to the line: it stays, takes evidence, or takes event i.
EvidenceJoins ==
  /\ Len(pending') >= Len(pending)
  /\ \A n \in DOMAIN pending : pending'[n] = pending[n]
  /\ \A n \in DOMAIN pending' : n > Len(pending) => pending'[n].op = "finish"

EventJoins(i) ==
  /\ Len(pending') > Len(pending)
  /\ \A n \in DOMAIN pending : pending'[n] = pending[n]
  /\ pending'[Len(pending) + 1] = Put(i)
  /\ \A n \in DOMAIN pending' : n > Len(pending) + 1 => pending'[n].op = "finish"

LEMMA EnqueueEvidence ==
  ASSUME pending \in Seq(Writes), NEW ws \in Seq(Writes), Enqueue(ws),
         \A n \in DOMAIN ws : ws[n].op = "finish"
  PROVE  pending' \in Seq(Writes) /\ EvidenceJoins
<1>1. pending' = pending \o ws
  BY DEF Enqueue
<1>2. /\ pending' \in Seq(Writes) /\ Len(pending') = Len(pending) + Len(ws)
      /\ \A n \in 1..Len(pending) + Len(ws) :
           pending'[n] = IF n <= Len(pending) THEN pending[n] ELSE ws[n - Len(pending)]
  BY <1>1, ConcatProperties
<1>3. /\ Len(pending) \in Nat /\ Len(ws) \in Nat
      /\ DOMAIN pending = 1..Len(pending) /\ DOMAIN ws = 1..Len(ws)
      /\ DOMAIN pending' = 1..Len(pending')
  BY <1>2, LenProperties
<1>4. \A n \in DOMAIN pending' : n > Len(pending) => pending'[n].op = "finish"
  <2> TAKE n \in DOMAIN pending'
  <2> HAVE n > Len(pending)
  <2>1. n - Len(pending) \in DOMAIN ws /\ pending'[n] = ws[n - Len(pending)]
    BY <1>2, <1>3
  <2> QED BY <2>1
<1>5. Len(pending') >= Len(pending) /\ \A n \in DOMAIN pending : pending'[n] = pending[n]
  BY <1>2, <1>3
<1> QED BY <1>2, <1>4, <1>5 DEF EvidenceJoins

LEMMA EnqueueEvent ==
  ASSUME pending \in Seq(Writes), NEW i \in Ids, NEW ws \in Seq(Writes), Enqueue(<<Put(i)>> \o ws),
         \A n \in DOMAIN ws : ws[n].op = "finish"
  PROVE  pending' \in Seq(Writes) /\ EventJoins(i)
<1> DEFINE all == <<Put(i)>> \o ws
<1>1. <<Put(i)>> \in Seq(Writes) /\ Len(<<Put(i)>>) = 1 /\ <<Put(i)>>[1] = Put(i)
  BY WriteTypes
<1> DEFINE one == <<Put(i)>>
<1>2. one \in Seq(Writes) /\ Len(one) = 1 /\ one[1] = Put(i) /\ all = one \o ws
  BY <1>1
<1> HIDE DEF one
<1>3. /\ all \in Seq(Writes) /\ Len(all) = 1 + Len(ws)
      /\ \A n \in 1..1 + Len(ws) : all[n] = IF n <= 1 THEN one[n] ELSE ws[n - 1]
  BY <1>2, ConcatProperties
<1>4. pending' = pending \o all
  BY DEF Enqueue
<1> HIDE DEF all
<1>5. /\ pending' \in Seq(Writes) /\ Len(pending') = Len(pending) + Len(all)
      /\ \A n \in 1..Len(pending) + Len(all) :
           pending'[n] = IF n <= Len(pending) THEN pending[n] ELSE all[n - Len(pending)]
  BY <1>3, <1>4, ConcatProperties
<1>6. /\ Len(pending) \in Nat /\ Len(ws) \in Nat
      /\ DOMAIN pending = 1..Len(pending) /\ DOMAIN ws = 1..Len(ws)
      /\ DOMAIN pending' = 1..Len(pending')
  BY <1>5, LenProperties
<1>7. pending'[Len(pending) + 1] = Put(i)
  BY <1>2, <1>3, <1>5, <1>6
<1>8. \A n \in DOMAIN pending' : n > Len(pending) + 1 => pending'[n].op = "finish"
  <2> TAKE n \in DOMAIN pending'
  <2> HAVE n > Len(pending) + 1
  <2>1. n - Len(pending) \in 1..1 + Len(ws) /\ n - Len(pending) > 1 /\ n \in Int
    BY <1>3, <1>5, <1>6
  <2>2. pending'[n] = ws[n - Len(pending) - 1]
    BY <2>1, <1>3, <1>5, <1>6
  <2>3. n - Len(pending) - 1 \in DOMAIN ws
    BY <2>1, <1>6
  <2> QED BY <2>2, <2>3
<1>9. Len(pending') > Len(pending) /\ \A n \in DOMAIN pending : pending'[n] = pending[n]
  BY <1>3, <1>5, <1>6
<1> QED BY <1>5, <1>7, <1>8, <1>9 DEF EventJoins

-----------------------------------------------------------------------------
(* Types and numbers. *)

LEMMA Growth ==
  ASSUME made \in Seq(Events), NEW e \in Events, made' = Append(made, e)
  PROVE  /\ made' \in Seq(Events) /\ Len(made) \in Nat /\ Len(made') = Len(made) + 1
         /\ DOMAIN made = 1..Len(made) /\ DOMAIN made' = 1..Len(made')
         /\ \A i \in DOMAIN made : made'[i] = made[i] /\ made[i] \in Events
         /\ made'[Len(made) + 1] = e
BY AppendProperties, LenProperties, ElementOfSeq

LEMMA Sizes ==
  ASSUME TypeOK
  PROVE  /\ Len(made) \in Nat /\ DOMAIN made = 1..Len(made)
         /\ \A i \in DOMAIN made : made[i] \in Events
         /\ Len(rows) \in Nat /\ DOMAIN rows = 1..Len(rows)
         /\ \A n \in DOMAIN rows : rows[n] \in Rows
         /\ Len(pending) \in Nat /\ DOMAIN pending = 1..Len(pending)
         /\ \A n \in DOMAIN pending : pending[n] \in Writes
         /\ Len(taken) \in Nat /\ DOMAIN taken = 1..Len(taken)
         /\ \A n \in DOMAIN taken : taken[n] \in Ids
BY LenProperties, ElementOfSeq DEF TypeOK

LEMMA NumbersLast ==
  ASSUME TypeOK, Counted, site = "truck", still \in BOOLEAN,
         \A i \in DOMAIN made : made[i].visit # under
  PROVE  Len(made) < under \/ Len(made) = 0
<1>1. CASE Len(made) = 0
  BY <1>1
<1>2. CASE Len(made) # 0
  <2>1. Len(made) \in DOMAIN made
    BY <1>2, Sizes
  <2>2. made[Len(made)].visit \in Nat
    BY <2>1, Sizes, OutboxAssumption DEF Events
  <2>3. /\ Len(made) <= made[Len(made)].visit /\ made[Len(made)].visit <= under
        /\ made[Len(made)].visit # under
    BY <2>1 DEF Counted
  <2> QED BY <2>2, <2>3, Sizes DEF TypeOK
<1> QED BY <1>1, <1>2

LEMMA PutRowType ==
  ASSUME rows \in Seq(Rows), NEW i \in Ids
  PROVE  PutRow(i) \in Seq(Rows)
<1> DEFINE new == [id |-> i, photo |-> FALSE, ocr |-> FALSE, ready |-> FALSE, acked |-> FALSE]
<1>1. new \in Rows
  BY DEF Rows
<1> HIDE DEF new
<1>2. Append(rows, new) \in Seq(Rows)
  BY <1>1, AppendProperties
<1> QED BY <1>2 DEF PutRow, new

\* A step that changes rows only inside keeps their number and their events.
SameRows(new) ==
  /\ new \in Seq(Rows) /\ Len(new) = Len(rows) /\ DOMAIN new = DOMAIN rows
  /\ \A n \in DOMAIN rows : new[n].id = rows[n].id

LEMMA RowsInside ==
  ASSUME rows \in Seq(Rows), NEW new, new = [n \in DOMAIN rows |-> new[n]],
         \A n \in DOMAIN rows : new[n] \in Rows /\ new[n].id = rows[n].id
  PROVE  SameRows(new)
<1>1. Len(rows) \in Nat /\ DOMAIN rows = 1..Len(rows)
  BY LenProperties
<1>2. new \in [1..Len(rows) -> Rows]
  BY <1>1
<1>3. new \in Seq(Rows)
  BY <1>1, <1>2, SeqDef
<1>4. Len(new) = Len(rows)
  BY <1>1, <1>2, <1>3, LenProperties
<1> QED BY <1>1, <1>2, <1>3, <1>4 DEF SameRows

LEMMA FinishRowKeeps ==
  ASSUME rows \in Seq(Rows), NEW i \in Ids, NEW part \in {"photo", "ocr"}
  PROVE  SameRows(FinishRow(i, part))
<1> DEFINE new == FinishRow(i, part)
<1>1. \A n \in DOMAIN rows : rows[n] \in Rows
  BY LenProperties, ElementOfSeq
<1>2. ASSUME NEW n \in DOMAIN rows
      PROVE  new[n] \in Rows /\ new[n].id = rows[n].id
  <2>1. CASE rows[n].id # i \/ rows[n].ready
    BY <1>1, <2>1 DEF FinishRow
  <2>2. CASE ~(rows[n].id # i \/ rows[n].ready)
    <3> DEFINE photo == rows[n].photo \/ part = "photo"
               ocr == rows[n].ocr \/ part = "ocr"
    <3>1. new[n] = [rows[n] EXCEPT !.photo = photo, !.ocr = ocr, !.ready = photo /\ ocr]
      BY <2>2 DEF FinishRow
    <3>2. photo \in BOOLEAN /\ ocr \in BOOLEAN
      OBVIOUS
    <3> HIDE DEF photo, ocr
    <3> QED BY <1>1, <3>1, <3>2 DEF Rows
  <2> QED BY <2>1, <2>2
<1>3. new = [n \in DOMAIN rows |-> new[n]]
  BY DEF FinishRow
<1> HIDE DEF new
<1>4. SameRows(new)
  BY <1>2, <1>3, RowsInside
<1> QED BY <1>4 DEF new

LEMMA RecoveredKeeps ==
  ASSUME rows \in Seq(Rows)
  PROVE  SameRows(Recovered)
<1>1. \A n \in DOMAIN rows : rows[n] \in Rows
  BY LenProperties, ElementOfSeq
<1>2. \A n \in DOMAIN rows : Recovered[n] \in Rows /\ Recovered[n].id = rows[n].id
  BY <1>1 DEF Recovered, Rows
<1>3. Recovered = [n \in DOMAIN rows |-> Recovered[n]]
  BY DEF Recovered
<1> QED BY <1>2, <1>3, RowsInside

LEMMA AckKeeps ==
  ASSUME rows \in Seq(Rows), Ack
  PROVE  SameRows(rows')
<1>1. \A n \in DOMAIN rows : rows[n] \in Rows
  BY LenProperties, ElementOfSeq
<1>2. \A n \in DOMAIN rows : rows'[n] \in Rows /\ rows'[n].id = rows[n].id
  BY <1>1 DEF Ack, Rows
<1>3. rows' = [n \in DOMAIN rows |-> rows'[n]]
  BY DEF Ack
<1> QED BY <1>2, <1>3, RowsInside

LEMMA FlushedHead ==
  ASSUME pending \in Seq(Writes), pending # <<>>
  PROVE  /\ Head(pending) \in Writes /\ Head(pending) = pending[1] /\ 1 \in DOMAIN pending
         /\ Tail(pending) \in Seq(Writes) /\ Len(Tail(pending)) = Len(pending) - 1
         /\ \A n \in DOMAIN Tail(pending) :
              n + 1 \in DOMAIN pending /\ Tail(pending)[n] = pending[n + 1]
<1>1. /\ Head(pending) \in Writes /\ Tail(pending) \in Seq(Writes)
      /\ Len(Tail(pending)) = Len(pending) - 1
      /\ \A n \in 1..Len(Tail(pending)) : Tail(pending)[n] = pending[n + 1]
  BY HeadTailProperties
<1>2. Len(pending) \in Nat \ {0} /\ DOMAIN pending = 1..Len(pending)
      /\ DOMAIN Tail(pending) = 1..Len(Tail(pending))
  BY <1>1, LenProperties, EmptySeq
<1>3. Head(pending) = pending[1]
  OBVIOUS
<1> QED BY <1>1, <1>2, <1>3

LEMMA InitTypes ==
  ASSUME Init
  PROVE  TypeOK /\ Counted
<1>1. 1 \in 1..MaxEpoch /\ 0 \in 0..MaxStops /\ 0 \in 0..MaxEvents /\ MaxEvents \in Nat
  BY EventBound, OutboxAssumption
<1>2. TypeOK
  BY <1>1, EmptySeq DEF Init, TypeOK
<1>3. Counted
  BY <1>1 DEF Init, Counted
<1> QED BY <1>2, <1>3

\* A new event of this collector.
LEMMA NewEvent ==
  ASSUME TypeOK, Counted, NEW kind \in Kinds, NEW stop \in Ids, NEW visit \in 0..MaxStops,
         Len(made) < MaxEvents, visit <= under, under' = under, epoch' = epoch, site' = site,
         kind = "departure" => stop < Len(made) + 1,
         site = "truck" => Len(made) + 1 <= visit,
         made' = Append(made, Event(kind, stop, visit))
  PROVE  /\ NewId \in Ids /\ made' \in Seq(Events) /\ Len(made') <= MaxEvents
         /\ Len(made') = Len(made) + 1
         /\ DOMAIN made' = 1..Len(made')
         /\ \A i \in DOMAIN made : i \in DOMAIN made' /\ made'[i] = made[i]
         /\ made'[NewId] = Event(kind, stop, visit)
         /\ \A i \in DOMAIN made' :
              /\ made'[i].visit <= under' /\ made'[i].epoch <= epoch'
              /\ site' = "truck" => i <= made'[i].visit
              /\ made'[i].kind = "departure" => made'[i].stop < i
<1> DEFINE e == Event(kind, stop, visit)
<1>1. e \in Events
  BY DEF Event, Events, TypeOK
<1>2. /\ made' \in Seq(Events) /\ Len(made) \in Nat /\ Len(made') = Len(made) + 1
      /\ DOMAIN made = 1..Len(made) /\ DOMAIN made' = 1..Len(made')
      /\ \A i \in DOMAIN made : made'[i] = made[i] /\ made[i] \in Events
      /\ made'[Len(made) + 1] = e
  BY <1>1, Growth DEF TypeOK
<1>3. e.visit <= under /\ e.epoch <= epoch /\ (site = "truck" => Len(made) + 1 <= e.visit)
      /\ (e.kind = "departure" => e.stop < Len(made) + 1)
  BY DEF Event, TypeOK
<1> HIDE DEF e
<1>4. \A i \in DOMAIN made' :
        /\ made'[i].visit <= under' /\ made'[i].epoch <= epoch'
        /\ site' = "truck" => i <= made'[i].visit
        /\ made'[i].kind = "departure" => made'[i].stop < i
  <2> TAKE i \in DOMAIN made'
  <2>1. CASE i \in DOMAIN made
    BY <2>1, <1>2 DEF Counted
  <2>2. CASE i = Len(made) + 1
    BY <2>2, <1>2, <1>3
  <2> QED BY <2>1, <2>2, <1>2
<1>5. NewId \in Ids /\ Len(made') <= MaxEvents
  BY <1>2, EventBound DEF NewId, Ids
<1> QED BY <1>2, <1>4, <1>5 DEF e, NewId

LEMMA CaptureTypes ==
  ASSUME TypeOK, Counted, CaptureTruck
  PROVE  /\ TypeOK' /\ Counted' /\ NewId \in Ids /\ EventJoins(NewId)
         /\ made' = Append(made, Event("capture", NewId, under))
<1>1. site = "truck" /\ still \in BOOLEAN /\ \A i \in DOMAIN made : made[i].visit # under
  BY DEF CaptureTruck, TypeOK
<1>2. under \in 0..MaxStops /\ under \in Nat /\ Len(made) \in Nat
  BY Sizes, OutboxAssumption DEF TypeOK
<1>3. Len(made) < under \/ Len(made) = 0
  BY <1>1, NumbersLast
<1>4. Len(made) < MaxEvents /\ Len(made) + 1 <= under
  <2>1. under # 0
    BY DEF CaptureTruck, Counted
  <2> QED BY <2>1, <1>2, <1>3, EventBound, OutboxAssumption
<1>5. NewId \in Ids
  BY <1>2, <1>4, EventBound DEF NewId, Ids
<1>6. /\ made' \in Seq(Events) /\ Len(made') <= MaxEvents /\ Len(made') = Len(made) + 1
      /\ \A i \in DOMAIN made' :
           /\ made'[i].visit <= under' /\ made'[i].epoch <= epoch'
           /\ site' = "truck" => i <= made'[i].visit
           /\ made'[i].kind = "departure" => made'[i].stop < i
  BY <1>2, <1>4, <1>5, NewEvent DEF CaptureTruck, Kinds, world
<1>7. pending' \in Seq(Writes) /\ EventJoins(NewId)
  BY <1>5, RefusedIsEvidence, EnqueueEvent DEF CaptureTruck, TypeOK
<1>8. workers' \subseteq Ids \X Parts
  BY <1>5 DEF CaptureTruck, Started, Parts, TypeOK
<1>9. TypeOK'
  BY <1>6, <1>7, <1>8 DEF TypeOK, CaptureTruck, world, disk, crm
<1>10. Counted'
  BY <1>6, <1>2, <1>1, EventBound DEF Counted, CaptureTruck, world, disk, crm, TypeOK
<1> QED BY <1>5, <1>7, <1>9, <1>10 DEF CaptureTruck

LEMMA ArrivesTypes ==
  ASSUME TypeOK, Counted, WagonArrives
  PROVE  /\ TypeOK' /\ Counted' /\ NewId \in Ids
         /\ made' = Append(made, Event("arrival", NewId, under))
<1>1. under \in 0..MaxStops /\ Len(made) \in Nat /\ site # "truck" /\ Len(made) < MaxEvents
  BY Sizes DEF WagonArrives, TypeOK
<1>2. NewId \in Ids
  BY <1>1, EventBound DEF NewId, Ids
<1>3. under <= under
  BY <1>1, OutboxAssumption
<1>4. /\ made' \in Seq(Events) /\ Len(made') <= MaxEvents /\ Len(made') = Len(made) + 1
      /\ \A i \in DOMAIN made' :
           /\ made'[i].visit <= under' /\ made'[i].epoch <= epoch'
           /\ site' = "truck" => i <= made'[i].visit
           /\ made'[i].kind = "departure" => made'[i].stop < i
  BY <1>1, <1>2, <1>3, NewEvent DEF WagonArrives, Kinds, world
<1>5. TypeOK'
  BY <1>2, <1>4, EventBound DEF TypeOK, WagonArrives, world, disk, crm, Ids
<1>6. Counted'
  BY <1>1, <1>4, EventBound DEF Counted, WagonArrives, world, disk, crm, TypeOK, NewId
<1> QED BY <1>2, <1>5, <1>6 DEF WagonArrives

LEMMA DepartsTypes ==
  ASSUME TypeOK, Counted, WagonDeparts
  PROVE  /\ TypeOK' /\ Counted' /\ NewId \in Ids /\ EventJoins(NewId)
         /\ tracker \in DOMAIN made
         /\ made' = Append(made, Event("departure", tracker, made[tracker].visit))
<1>1. Len(made) \in Nat /\ site # "truck" /\ Len(made) < MaxEvents
  BY Sizes DEF WagonDeparts, TypeOK
<1>2. tracker \in DOMAIN made /\ tracker \in Ids /\ tracker < Len(made) + 1
  BY Sizes, EventBound DEF WagonDeparts, TypeOK, Counted, Ids
<1>3. made[tracker].visit \in 0..MaxStops /\ made[tracker].visit <= under
  BY <1>2, Sizes DEF Events, Counted
<1>4. NewId \in Ids
  BY <1>1, EventBound DEF NewId, Ids
<1>5. /\ made' \in Seq(Events) /\ Len(made') <= MaxEvents /\ Len(made') = Len(made) + 1
      /\ \A i \in DOMAIN made' :
           /\ made'[i].visit <= under' /\ made'[i].epoch <= epoch'
           /\ site' = "truck" => i <= made'[i].visit
           /\ made'[i].kind = "departure" => made'[i].stop < i
  BY <1>1, <1>2, <1>3, NewEvent DEF WagonDeparts, Kinds, world
<1>6. pending' \in Seq(Writes) /\ EventJoins(NewId)
  <2> DEFINE ws == <<Finish(NewId, "photo"), Finish(NewId, "ocr")>>
  <2>1. ws \in Seq(Writes) /\ \A n \in DOMAIN ws : ws[n].op = "finish"
    BY <1>4, WriteTypes DEF Finish
  <2>2. <<Put(NewId), Finish(NewId, "photo"), Finish(NewId, "ocr")>> = <<Put(NewId)>> \o ws
    BY <1>4, WriteTypes
  <2>3. Enqueue(<<Put(NewId)>> \o ws)
    BY <2>2 DEF WagonDeparts
  <2> HIDE DEF ws
  <2> QED BY <2>1, <2>3, <1>4, EnqueueEvent DEF TypeOK
<1>7. TypeOK'
  <2>1. 0 \in 0..MaxEvents
    BY EventBound
  <2> QED BY <1>5, <1>6, <2>1 DEF TypeOK, WagonDeparts, world, disk, crm
<1>8. Counted'
  <2>1. /\ up /\ up' = up /\ saving' = "departure" /\ tracker' = 0 /\ standing' = standing
        /\ still' = still /\ under' = under
    BY DEF WagonDeparts, world, disk
  <2>2. tracker' <= Len(made') /\ standing' <= Len(made')
    BY <1>1, <1>5, <2>1, EventBound DEF Counted, TypeOK
  <2>3. still' => under' # 0
    BY <2>1 DEF Counted
  <2> QED BY <1>5, <2>1, <2>2, <2>3 DEF Counted
<1> QED BY <1>2, <1>4, <1>6, <1>7, <1>8 DEF WagonDeparts

LEMMA RememberedTypes ==
  ASSUME TypeOK, Counted, ArrivalRemembered
  PROVE  TypeOK' /\ Counted' /\ tracker \in Ids /\ EventJoins(tracker)
<1>1. tracker \in Ids
  BY Sizes, EventBound DEF ArrivalRemembered, TypeOK, Counted, Ids
<1>2. <<>> \in Seq(Writes) /\ \A n \in DOMAIN <<>> : <<>>[n].op = "finish"
  OBVIOUS
<1>3. <<Put(tracker)>> = <<Put(tracker)>> \o <<>>
  BY <1>1, WriteTypes
<1>4. pending' \in Seq(Writes) /\ EventJoins(tracker)
  <2>1. Enqueue(<<Put(tracker)>> \o <<>>)
    BY <1>3 DEF ArrivalRemembered
  <2> QED BY <2>1, <1>1, <1>2, EnqueueEvent DEF TypeOK
<1>5. workers' \subseteq Ids \X Parts
  BY <1>1 DEF ArrivalRemembered, Parts, TypeOK
<1>6. TypeOK'
  BY <1>4, <1>5 DEF TypeOK, ArrivalRemembered, world, crm
<1>7. Counted'
  BY DEF Counted, ArrivalRemembered, world, crm, TypeOK
<1> QED BY <1>1, <1>4, <1>6, <1>7

LEMMA WorkerTypes ==
  ASSUME TypeOK, Counted, NEW w \in workers, WorkerDone(w)
  PROVE  TypeOK' /\ Counted' /\ EvidenceJoins
<1>1. w[1] \in Ids /\ w[2] \in Parts
  BY DEF TypeOK
<1> DEFINE both == <<Finish(w[1], "photo"), Finish(w[1], "ocr")>>
           one == <<Finish(w[1], w[2])>>
<1>2. both \in Seq(Writes) /\ \A n \in DOMAIN both : both[n].op = "finish"
  BY <1>1, WriteTypes DEF Finish
<1>3. w[2] # "both" => one \in Seq(Writes) /\ \A n \in DOMAIN one : one[n].op = "finish"
  <2> HAVE w[2] # "both"
  <2>1. Finish(w[1], w[2]) \in Writes /\ Finish(w[1], w[2]).op = "finish"
    BY <1>1 DEF Finish, Writes, Parts
  <2> QED BY <2>1
<1>4. Enqueue(both) \/ (w[2] # "both" /\ Enqueue(one))
  BY DEF WorkerDone
<1> HIDE DEF both, one
<1>5. pending' \in Seq(Writes) /\ EvidenceJoins
  BY <1>2, <1>3, <1>4, EnqueueEvidence DEF TypeOK
<1>6. TypeOK'
  BY <1>5 DEF TypeOK, WorkerDone, world, disk, crm
<1>7. Counted'
  BY DEF Counted, WorkerDone, world, disk, crm, TypeOK
<1> QED BY <1>5, <1>6, <1>7

LEMMA FlushTypes ==
  ASSUME TypeOK, Counted, Flush
  PROVE  TypeOK' /\ Counted'
<1> DEFINE w == Head(pending)
<1>1. w \in Writes /\ Tail(pending) \in Seq(Writes)
  BY FlushedHead DEF Flush, TypeOK
<1>2. rows' \in Seq(Rows)
  <2>1. CASE w.op = "put"
    <3>1. w.id \in Ids
      BY <1>1, <2>1 DEF Writes
    <3> QED BY <2>1, <3>1, PutRowType DEF Flush, TypeOK
  <2>2. CASE w.op # "put"
    <3>1. w.id \in Ids /\ w.part \in {"photo", "ocr"}
      BY <1>1, <2>2 DEF Writes
    <3> QED BY <2>2, <3>1, FinishRowKeeps DEF Flush, TypeOK, SameRows
  <2> QED BY <2>1, <2>2
<1>3. TypeOK'
  BY <1>1, <1>2 DEF TypeOK, Flush, world, crm
<1>4. Counted'
  BY DEF Counted, Flush, world, crm, TypeOK
<1> QED BY <1>3, <1>4

LEMMA CrashTypes ==
  ASSUME TypeOK, Counted, Crash
  PROVE  TypeOK' /\ Counted'
<1>1. TypeOK'
  <2>1. pending' \in Seq(Writes)
    BY DEF Crash
  <2>2. tracker' \in 0..MaxEvents
    BY EventBound DEF Crash
  <2>3. workers' \subseteq Ids \X Parts
    BY DEF Crash
  <2>4. up' \in BOOLEAN
    BY DEF Crash
  <2>5. saving' \in {"no", "arrival", "departure"}
    BY DEF Crash
  <2> QED BY <2>1, <2>2, <2>3, <2>4, <2>5 DEF TypeOK, Crash, world, disk, crm
<1>2. Counted'
  BY Sizes DEF Counted, Crash, world, disk, crm, TypeOK
<1> QED BY <1>1, <1>2

LEMMA RestartTypes ==
  ASSUME TypeOK, Counted, Restart
  PROVE  TypeOK' /\ Counted'
<1>1. epoch' \in 1..MaxEpoch
  BY OutboxAssumption DEF Restart, Counted, TypeOK
<1>2. TypeOK'
  BY <1>1, RecoveredKeeps DEF TypeOK, Restart, world, crm, SameRows
<1>3. \A i \in DOMAIN made : made[i].epoch <= epoch'
  <2> TAKE i \in DOMAIN made
  <2>1. MaxEpoch \in Nat /\ epoch \in 1..MaxEpoch
    BY OutboxAssumption DEF TypeOK
  <2>2. made[i].epoch \in 1..MaxEpoch
    BY Sizes DEF Events
  <2>3. made[i].epoch <= epoch
    BY DEF Counted
  <2> QED BY <2>1, <2>2, <2>3 DEF Restart
<1>4. Counted'
  BY <1>3 DEF Counted, Restart, world, crm, TypeOK
<1> QED BY <1>2, <1>4

LEMMA ImportTypes ==
  ASSUME TypeOK, Counted, Import
  PROVE  TypeOK' /\ Counted'
<1>1. PICK n \in HeadRow :
        /\ importing' = rows[n].id
        /\ taken' = IF Known(rows[n].id) THEN taken ELSE Append(taken, rows[n].id)
  BY DEF Import
<1>2. rows[n].id \in Ids
  BY <1>1, Sizes DEF HeadRow, Unacked, Rows
<1>3. taken' \in Seq(Ids)
  BY <1>1, <1>2, AppendProperties DEF TypeOK
<1>4. importing' \in 0..MaxEvents
  BY <1>1, <1>2, EventBound DEF Ids
<1>5. TypeOK'
  BY <1>3, <1>4 DEF TypeOK, Import, world, collector, disk
<1>6. Counted'
  BY DEF Counted, Import, world, collector, disk
<1> QED BY <1>5, <1>6

LEMMA AckTypes ==
  ASSUME TypeOK, Counted, Ack
  PROVE  TypeOK' /\ Counted'
<1>1. rows' \in Seq(Rows)
  BY AckKeeps DEF SameRows, TypeOK
<1>2. TypeOK'
  BY <1>1, EventBound DEF TypeOK, Ack, world, collector
<1>3. Counted'
  BY DEF Counted, Ack, world, collector
<1> QED BY <1>2, <1>3

LEMMA ComesTypes ==
  ASSUME TypeOK, Counted, Comes
  PROVE  TypeOK' /\ Counted'
<1>1. under \in Nat /\ under' = under + 1 /\ under' \in 0..MaxStops
  BY OutboxAssumption DEF Comes, TypeOK
<1>2. TypeOK'
  BY <1>1 DEF TypeOK, Comes, collector, disk, crm
<1>3. \A i \in DOMAIN made : made[i].visit <= under'
  <2> TAKE i \in DOMAIN made
  <2>1. made[i].visit \in Nat /\ made[i].visit <= under
    BY Sizes, OutboxAssumption DEF Counted, Events
  <2> QED BY <2>1, <1>1
<1>4. Counted'
  BY <1>1, <1>3 DEF Counted, Comes, collector, disk, crm
<1> QED BY <1>2, <1>4

LEMMA BusyTypes ==
  ASSUME TypeOK, Counted, StandingBusy \/ StableReading
  PROVE  TypeOK' /\ Counted'
<1>1. CASE StandingBusy
  <2>1. saving = "arrival" => tracker \in Ids
    BY EventBound DEF TypeOK, Counted, Ids
  <2>2. missed' \subseteq Ids
    BY <1>1, <2>1 DEF StandingBusy, TypeOK
  <2>3. TypeOK'
    BY <1>1, <2>2, EventBound DEF StandingBusy, TypeOK, disk, crm
  <2>4. Counted'
    BY <1>1 DEF StandingBusy, Counted, disk, crm
  <2> QED BY <2>3, <2>4
<1>2. CASE StableReading
  <2>1. TypeOK'
    BY <1>2, EventBound DEF StableReading, TypeOK, world, collector, crm
  <2>2. Counted'
    BY <1>2 DEF StableReading, Counted, world, collector, crm
  <2> QED BY <2>1, <2>2
<1> QED BY <1>1, <1>2

LEMMA QuietTypes ==
  ASSUME TypeOK, Counted, Leaves \/ DepartureRemembered \/ ImporterDies \/ UNCHANGED vars
  PROVE  TypeOK' /\ Counted'
<1>1. CASE Leaves
  BY <1>1 DEF Leaves, TypeOK, Counted, collector, disk, crm
<1>2. CASE DepartureRemembered
  <2>1. TypeOK'
    BY <1>2, EventBound DEF DepartureRemembered, TypeOK, world, crm
  <2>2. Counted'
    BY <1>2, Sizes DEF DepartureRemembered, Counted, world, crm
  <2> QED BY <2>1, <2>2
<1>3. CASE ImporterDies
  <2>1. TypeOK'
    BY <1>3, EventBound DEF ImporterDies, TypeOK, world, collector, disk
  <2>2. Counted'
    BY <1>3 DEF ImporterDies, Counted, world, collector, disk
  <2> QED BY <2>1, <2>2
<1>4. CASE UNCHANGED vars
  BY <1>4 DEF vars, TypeOK, Counted, world, collector, disk, crm
<1> QED BY <1>1, <1>2, <1>3, <1>4

LEMMA StepTypes ==
  ASSUME TypeOK, Counted, [Next]_vars
  PROVE  TypeOK' /\ Counted'
BY CaptureTypes, ArrivesTypes, DepartsTypes, RememberedTypes, WorkerTypes, FlushTypes,
   CrashTypes, RestartTypes, ImportTypes, AckTypes, ComesTypes, BusyTypes, QuietTypes DEF Next

-----------------------------------------------------------------------------
(* The order of capture. *)

LEMMA PutShape ==
  /\ \A w \in Writes : w.op = "put" => w = Put(w.id) /\ w.id \in Ids
  /\ \A i : Put(i).op = "put" /\ Put(i).id = i
BY DEF Writes, Put

LEMMA LineAfter ==
  ASSUME TypeOK'
  PROVE  Len(pending') \in Nat /\ DOMAIN pending' = 1..Len(pending')
BY LenProperties DEF TypeOK

LEMMA EvidenceRecords ==
  ASSUME TypeOK, TypeOK', EvidenceJoins, NEW i
  PROVE  InLine(i)' <=> InLine(i)
<1>1. /\ Len(pending') \in Nat /\ DOMAIN pending' = 1..Len(pending')
      /\ DOMAIN pending \subseteq DOMAIN pending'
      /\ \A n \in DOMAIN pending' : n \in DOMAIN pending \/ n > Len(pending)
  BY Sizes, LineAfter DEF EvidenceJoins
<1>2. \A n \in DOMAIN pending' : n > Len(pending) => pending'[n] # Put(i)
  BY PutShape DEF EvidenceJoins
<1> QED BY <1>1, <1>2 DEF EvidenceJoins, InLine, Put

LEMMA EventRecords ==
  ASSUME TypeOK, TypeOK', NEW k, EventJoins(k), NEW i
  PROVE  InLine(i)' <=> InLine(i) \/ i = k
<1>1. /\ Len(pending') \in Nat /\ DOMAIN pending' = 1..Len(pending')
      /\ DOMAIN pending \subseteq DOMAIN pending'
      /\ Len(pending) + 1 \in DOMAIN pending'
      /\ \A n \in DOMAIN pending' : n \in DOMAIN pending \/ n = Len(pending) + 1 \/ n > Len(pending) + 1
  BY Sizes, LineAfter DEF EventJoins
<1>2. \A n \in DOMAIN pending' : n > Len(pending) + 1 => pending'[n] # Put(i)
  BY PutShape DEF EventJoins
<1>3. Put(i) = Put(k) => i = k
  BY PutShape
<1>4. InLine(i)' => InLine(i) \/ i = k
  BY <1>1, <1>2, <1>3 DEF EventJoins, InLine, Put
<1>5. InLine(i) \/ i = k => InLine(i)'
  BY <1>1 DEF EventJoins, InLine, Put
<1> QED BY <1>4, <1>5

LEMMA SameRowsRecords ==
  ASSUME SameRows(rows'), NEW i
  PROVE  OnDisk(i)' <=> OnDisk(i)
BY DEF SameRows, OnDisk

LEMMA EvidenceOrder ==
  ASSUME TypeOK, TypeOK', InOrder, EvidenceJoins, rows' = rows
  PROVE  CaptureOrder' /\ LineInOrder' /\ DiskBeforeLine'
<1>1. \A n \in DOMAIN pending' :
        pending'[n].op = "put" => n \in DOMAIN pending /\ pending'[n] = pending[n]
  <2>1. DOMAIN pending' = 1..Len(pending') /\ Len(pending') \in Nat
    BY LineAfter
  <2> QED BY <2>1, Sizes DEF EvidenceJoins
<1>2. LineInOrder'
  BY <1>1 DEF InOrder, LineInOrder
<1>3. DiskBeforeLine'
  BY <1>1 DEF InOrder, DiskBeforeLine
<1>4. CaptureOrder'
  BY DEF InOrder, CaptureOrder
<1> QED BY <1>2, <1>3, <1>4

LEMMA EventOrder ==
  ASSUME TypeOK, TypeOK', InOrder, NEW k \in Ids, EventJoins(k), rows' = rows,
         \A i \in Ids : Recorded(i) => i < k
  PROVE  CaptureOrder' /\ LineInOrder' /\ DiskBeforeLine'
<1>1. \A n \in DOMAIN pending' : pending'[n].op = "put" =>
        \/ n \in DOMAIN pending /\ pending'[n] = pending[n]
        \/ n = Len(pending) + 1 /\ pending'[n].id = k
  <2>1. DOMAIN pending' = 1..Len(pending') /\ Len(pending') \in Nat
    BY LineAfter
  <2> QED BY <2>1, Sizes, PutShape DEF EventJoins
<1>2. \A n \in DOMAIN pending : pending[n].op = "put" => pending[n].id < k /\ n < Len(pending) + 1
  <2> TAKE n \in DOMAIN pending
  <2> HAVE pending[n].op = "put"
  <2>1. pending[n] = Put(pending[n].id) /\ pending[n].id \in Ids
    BY Sizes, PutShape
  <2>2. Recorded(pending[n].id)
    BY <2>1 DEF Recorded, InLine
  <2> QED BY <2>1, <2>2, Sizes
<1>3. \A m \in DOMAIN rows : rows[m].id < k
  BY Sizes DEF Recorded, OnDisk, Rows
<1>4. LineInOrder'
  <2> SUFFICES ASSUME NEW m \in DOMAIN pending', NEW n \in DOMAIN pending', m < n,
                      pending'[m].op = "put", pending'[n].op = "put"
               PROVE  pending'[m].id < pending'[n].id
    BY DEF LineInOrder
  <2>1. CASE n \in DOMAIN pending /\ pending'[n] = pending[n]
    <3>1. m \in DOMAIN pending /\ pending'[m] = pending[m]
      BY <2>1, <1>1, Sizes
    <3> QED BY <2>1, <3>1 DEF InOrder, LineInOrder
  <2>2. CASE n = Len(pending) + 1 /\ pending'[n].id = k
    <3>1. m \in DOMAIN pending /\ pending'[m] = pending[m]
      BY <2>2, <1>1, Sizes
    <3> QED BY <2>2, <3>1, <1>2
  <2> QED BY <2>1, <2>2, <1>1
<1>5. DiskBeforeLine'
  BY <1>1, <1>3 DEF InOrder, DiskBeforeLine
<1>6. CaptureOrder'
  BY DEF InOrder, CaptureOrder
<1> QED BY <1>4, <1>5, <1>6

\* A step that leaves the line alone and changes rows inside.
LEMMA QuietOrder ==
  ASSUME TypeOK, TypeOK', InOrder, SameRows(rows'), pending' = pending
  PROVE  /\ CaptureOrder' /\ LineInOrder' /\ DiskBeforeLine'
         /\ \A i : Recorded(i)' <=> Recorded(i)
<1>1. CaptureOrder'
  BY DEF InOrder, CaptureOrder, SameRows
<1>2. LineInOrder' /\ DiskBeforeLine'
  BY DEF InOrder, LineInOrder, DiskBeforeLine, SameRows
<1>3. \A i : Recorded(i)' <=> Recorded(i)
  BY SameRowsRecords DEF Recorded, InLine
<1> QED BY <1>1, <1>2, <1>3

LEMMA UnchangedRows ==
  ASSUME TypeOK, rows' = rows
  PROVE  SameRows(rows')
BY DEF TypeOK, SameRows

\* The writer commits the event at the head of the line.
LEMMA PutAppends ==
  ASSUME TypeOK, InOrder, pending # <<>>, Head(pending).op = "put"
  PROVE  LET i == Head(pending).id  new == PutRow(i) IN
         /\ i \in Ids /\ Head(pending) = Put(i) /\ ~OnDisk(i) /\ new \in Seq(Rows)
         /\ Len(new) = Len(rows) + 1 /\ DOMAIN new = 1..Len(rows) + 1
         /\ \A n \in DOMAIN rows : new[n] = rows[n] /\ n < Len(rows) + 1 /\ rows[n].id < i
         /\ new[Len(rows) + 1].id = i
         /\ ~new[Len(rows) + 1].ready /\ ~new[Len(rows) + 1].acked
<1> DEFINE i == Head(pending).id
           row == [id |-> i, photo |-> FALSE, ocr |-> FALSE, ready |-> FALSE, acked |-> FALSE]
<1>1. Head(pending) = pending[1] /\ 1 \in DOMAIN pending /\ pending[1] \in Writes
  BY FlushedHead DEF TypeOK
<1>2. i \in Ids /\ i \in Nat /\ Head(pending) = Put(i)
  BY <1>1, PutShape, EventBound
<1>3. \A n \in DOMAIN rows : rows[n].id < i /\ rows[n].id \in Nat
  BY <1>1, Sizes, EventBound DEF InOrder, DiskBeforeLine, Rows
<1>4. ~OnDisk(i)
  BY <1>2, <1>3 DEF OnDisk
<1>5. row \in Rows /\ row.id = i /\ ~row.ready /\ ~row.acked
  BY <1>2 DEF Rows
<1>6. PutRow(i) = Append(rows, row)
  BY <1>4 DEF PutRow, OnDisk
<1> HIDE DEF row
<1>7. /\ PutRow(i) \in Seq(Rows) /\ Len(PutRow(i)) = Len(rows) + 1
      /\ \A n \in 1..Len(rows) : PutRow(i)[n] = rows[n]
      /\ PutRow(i)[Len(rows) + 1] = row
  <2>1. /\ Append(rows, row) \in Seq(Rows) /\ Len(Append(rows, row)) = Len(rows) + 1
        /\ \A n \in 1..Len(rows) : Append(rows, row)[n] = rows[n]
        /\ Append(rows, row)[Len(rows) + 1] = row
    BY <1>5, AppendProperties DEF TypeOK
  <2> QED BY <2>1, <1>6
<1>8. DOMAIN PutRow(i) = 1..Len(rows) + 1
  BY <1>7, LenProperties
<1> QED BY <1>2, <1>3, <1>4, <1>5, <1>7, <1>8, Sizes

\* A flush moves what is recorded from the line to the file.
LEMMA FlushRecords ==
  ASSUME TypeOK, TypeOK', InOrder, Flush, NEW i
  PROVE  Recorded(i)' <=> Recorded(i)
<1>1. /\ pending # <<>> /\ pending' = Tail(pending)
      /\ Head(pending) \in Writes /\ Head(pending) = pending[1] /\ 1 \in DOMAIN pending
      /\ Len(pending') = Len(pending) - 1
      /\ \A n \in DOMAIN pending' : n + 1 \in DOMAIN pending /\ pending'[n] = pending[n + 1]
  BY FlushedHead DEF Flush, TypeOK
<1>2. \A n \in DOMAIN pending : n = 1 \/ (n - 1 \in DOMAIN pending' /\ pending'[n - 1] = pending[n])
  <2> TAKE n \in DOMAIN pending
  <2> SUFFICES ASSUME n # 1 PROVE n - 1 \in DOMAIN pending' /\ pending'[n - 1] = pending[n]
    OBVIOUS
  <2>1. n - 1 \in DOMAIN pending' /\ (n - 1) + 1 = n
    BY <1>1, Sizes, LineAfter
  <2> QED BY <2>1, <1>1
<1>3. InLine(i) <=> InLine(i)' \/ Head(pending) = Put(i)
  <2>1. InLine(i) => InLine(i)' \/ Head(pending) = Put(i)
    <3> SUFFICES ASSUME NEW n \in DOMAIN pending, pending[n] = Put(i), n # 1
                 PROVE  InLine(i)'
      BY <1>1 DEF InLine
    <3>1. n - 1 \in DOMAIN pending' /\ pending'[n - 1] = Put(i)
      BY <1>2
    <3> QED BY <3>1 DEF InLine, Put
  <2>2. InLine(i)' => InLine(i)
    <3> SUFFICES ASSUME NEW n \in DOMAIN pending', pending'[n] = Put(i)
                 PROVE  InLine(i)
      BY DEF InLine, Put
    <3> QED BY <1>1 DEF InLine
  <2>3. Head(pending) = Put(i) => InLine(i)
    BY <1>1 DEF InLine
  <2> QED BY <2>1, <2>2, <2>3
<1>4. CASE Head(pending).op = "put"
  <2>1. rows' = PutRow(Head(pending).id)
    BY <1>4 DEF Flush
  <2>2. OnDisk(i)' <=> OnDisk(i) \/ i = Head(pending).id
    <3>1. /\ DOMAIN rows' = 1..Len(rows) + 1 /\ rows'[Len(rows) + 1].id = Head(pending).id
          /\ \A n \in DOMAIN rows : rows'[n] = rows[n]
      BY <1>1, <1>4, <2>1, PutAppends
    <3>2. DOMAIN rows' = DOMAIN rows \cup {Len(rows) + 1}
      BY <3>1, Sizes
    <3> QED BY <3>1, <3>2 DEF OnDisk
  <2>3. Head(pending) = Put(i) <=> i = Head(pending).id
    BY <1>1, <1>4, PutShape
  <2> QED BY <1>3, <2>2, <2>3 DEF Recorded
<1>5. CASE Head(pending).op # "put"
  <2>1. SameRows(rows')
    <3>1. Head(pending).id \in Ids /\ Head(pending).part \in {"photo", "ocr"}
      BY <1>1, <1>5 DEF Writes
    <3>2. rows' = FinishRow(Head(pending).id, Head(pending).part)
      BY <1>5 DEF Flush
    <3> QED BY <3>1, <3>2, FinishRowKeeps DEF TypeOK
  <2>2. Head(pending) # Put(i)
    BY <1>5, PutShape
  <2> QED BY <1>3, <2>1, <2>2, SameRowsRecords DEF Recorded
<1> QED BY <1>4, <1>5

LEMMA FlushOrder ==
  ASSUME TypeOK, TypeOK', InOrder, Flush
  PROVE  CaptureOrder' /\ LineInOrder' /\ DiskBeforeLine'
<1>1. /\ pending # <<>> /\ pending' = Tail(pending)
      /\ Head(pending) \in Writes /\ Head(pending) = pending[1] /\ 1 \in DOMAIN pending
      /\ \A n \in DOMAIN pending' :
           n + 1 \in DOMAIN pending /\ 1 < n + 1 /\ pending'[n] = pending[n + 1] /\ n \in Nat
  <2>1. \A n \in DOMAIN pending' : n \in Nat /\ 1 < n + 1
    BY LineAfter
  <2> QED BY <2>1, FlushedHead DEF Flush, TypeOK
<1>2. LineInOrder'
  <2> SUFFICES ASSUME NEW m \in DOMAIN pending', NEW n \in DOMAIN pending', m < n,
                      pending'[m].op = "put", pending'[n].op = "put"
               PROVE  pending'[m].id < pending'[n].id
    BY DEF LineInOrder
  <2>1. m + 1 \in DOMAIN pending /\ n + 1 \in DOMAIN pending /\ m + 1 < n + 1
    BY <1>1
  <2> QED BY <2>1, <1>1 DEF InOrder, LineInOrder
<1>3. CASE Head(pending).op = "put"
  <2> DEFINE i == Head(pending).id
  <2>1. /\ rows' = PutRow(i) /\ DOMAIN rows' = 1..Len(rows) + 1 /\ rows'[Len(rows) + 1].id = i
        /\ \A n \in DOMAIN rows : rows'[n] = rows[n] /\ n < Len(rows) + 1 /\ rows[n].id < i
    BY <1>1, <1>3, PutAppends DEF Flush
  <2>2. \A n \in DOMAIN rows' : n \in DOMAIN rows \/ n = Len(rows) + 1
    BY <2>1, Sizes
  <2>3. CaptureOrder'
    <3> SUFFICES ASSUME NEW m \in DOMAIN rows', NEW n \in DOMAIN rows', m < n
                 PROVE  rows'[m].id < rows'[n].id
      BY DEF CaptureOrder
    <3>1. m \in DOMAIN rows
      BY <2>1, <2>2, Sizes
    <3> QED BY <2>1, <2>2, <3>1 DEF InOrder, CaptureOrder
  <2>4. DiskBeforeLine'
    <3> SUFFICES ASSUME NEW m \in DOMAIN rows', NEW n \in DOMAIN pending', pending'[n].op = "put"
                 PROVE  rows'[m].id < pending'[n].id
      BY DEF DiskBeforeLine
    <3>1. n + 1 \in DOMAIN pending /\ 1 < n + 1 /\ pending'[n] = pending[n + 1]
      BY <1>1
    <3>2. i < pending'[n].id
      BY <1>1, <1>3, <3>1 DEF InOrder, LineInOrder
    <3> QED BY <2>1, <2>2, <3>1, <3>2 DEF InOrder, DiskBeforeLine
  <2> QED BY <1>2, <2>3, <2>4
<1>4. CASE Head(pending).op # "put"
  <2>1. Head(pending).id \in Ids /\ Head(pending).part \in {"photo", "ocr"}
    BY <1>1, <1>4 DEF Writes
  <2>2. rows' = FinishRow(Head(pending).id, Head(pending).part)
    BY <1>4 DEF Flush
  <2>3. SameRows(rows')
    BY <2>1, <2>2, FinishRowKeeps DEF TypeOK
  <2>4. CaptureOrder'
    BY <2>3 DEF InOrder, CaptureOrder, SameRows
  <2>5. DiskBeforeLine'
    BY <2>3, <1>1 DEF InOrder, DiskBeforeLine, SameRows
  <2> QED BY <1>2, <2>4, <2>5
<1> QED BY <1>3, <1>4

LEMMA StepOrder ==
  ASSUME TypeOK, TypeOK', Counted, Counted', InOrder, [Next]_vars
  PROVE  InOrder'
<1> DEFINE Parted == CaptureOrder' /\ LineInOrder' /\ DiskBeforeLine'
<1>a. Len(made) \in Nat /\ Ids \subseteq Nat
  BY Sizes, EventBound
<1>1. CASE CaptureTruck
  <2>1. NewId \in Ids /\ EventJoins(NewId) /\ rows' = rows /\ saving' # "arrival"
        /\ Len(made') = NewId /\ NewId = Len(made) + 1
    <3>1. saving # "arrival"
      BY <1>1 DEF CaptureTruck, Counted
    <3> QED BY <1>1, <3>1, CaptureTypes, AppendProperties DEF CaptureTruck, disk, NewId, TypeOK
  <2>2. \A i \in Ids : Recorded(i) => i < NewId
    BY <2>1, <1>a DEF InOrder, RecordedIsMade
  <2>3. Parted
    BY <2>1, <2>2, EventOrder
  <2>4. \A i : Recorded(i)' <=> Recorded(i) \/ i = NewId
    BY <2>1, EventRecords DEF Recorded, OnDisk
  <2>5. RecordedIsMade'
    BY <2>1, <2>2, <2>4, <1>a DEF RecordedIsMade
  <2> QED BY <2>3, <2>5 DEF InOrder
<1>2. CASE WagonDeparts
  <2>1. NewId \in Ids /\ EventJoins(NewId) /\ rows' = rows /\ saving' # "arrival"
        /\ Len(made') = NewId /\ NewId = Len(made) + 1
    <3>1. NewId \in Ids /\ EventJoins(NewId) /\ rows' = rows /\ saving' = "departure"
      BY <1>2, DepartsTypes DEF WagonDeparts, disk
    <3>2. Len(made') = Len(made) + 1
      <4>1. made \in Seq(Events) /\ made' = Append(made, Event("departure", tracker, made[tracker].visit))
        BY <1>2, DepartsTypes DEF TypeOK
      <4> QED BY <4>1
    <3> QED BY <3>1, <3>2 DEF NewId
  <2>2. \A i \in Ids : Recorded(i) => i < NewId
    BY <2>1, <1>a DEF InOrder, RecordedIsMade
  <2>3. Parted
    BY <2>1, <2>2, EventOrder
  <2>4. \A i : Recorded(i)' <=> Recorded(i) \/ i = NewId
    BY <2>1, EventRecords DEF Recorded, OnDisk
  <2>5. RecordedIsMade'
    BY <2>1, <2>2, <2>4, <1>a DEF RecordedIsMade
  <2> QED BY <2>3, <2>5 DEF InOrder
<1>3. CASE ArrivalRemembered
  <2>1. tracker \in Ids /\ EventJoins(tracker) /\ rows' = rows /\ saving' # "arrival"
        /\ made' = made /\ tracker = Len(made) /\ saving = "arrival"
    BY <1>3, RememberedTypes DEF ArrivalRemembered, Counted
  <2>2. \A i \in Ids : Recorded(i) => i < tracker
    BY <2>1 DEF InOrder, RecordedIsMade
  <2>3. Parted
    BY <2>1, <2>2, EventOrder
  <2>4. \A i : Recorded(i)' <=> Recorded(i) \/ i = tracker
    BY <2>1, EventRecords DEF Recorded, OnDisk
  <2>5. RecordedIsMade'
    BY <2>1, <2>2, <2>4, <1>a DEF RecordedIsMade
  <2> QED BY <2>3, <2>5 DEF InOrder
<1>4. ASSUME NEW w \in workers, WorkerDone(w) PROVE InOrder'
  <2>1. EvidenceJoins /\ rows' = rows /\ made' = made /\ saving' = saving /\ tracker' = tracker
    BY <1>4, WorkerTypes DEF WorkerDone, disk
  <2>2. Parted
    BY <2>1, EvidenceOrder
  <2>3. RecordedIsMade'
    BY <2>1, EvidenceRecords DEF InOrder, RecordedIsMade, Recorded, OnDisk
  <2> QED BY <2>2, <2>3 DEF InOrder
<1>5. CASE Flush
  <2>1. Parted
    BY <1>5, FlushOrder
  <2>2. RecordedIsMade'
    BY <1>5, FlushRecords DEF InOrder, RecordedIsMade, Flush
  <2> QED BY <2>1, <2>2 DEF InOrder
<1>6. CASE Crash
  <2>1. rows' = rows /\ made' = made /\ saving' # "arrival" /\ pending' = <<>> /\ DOMAIN pending' = {}
    BY <1>6 DEF Crash, disk
  <2>2. Parted
    BY <2>1 DEF InOrder, CaptureOrder, LineInOrder, DiskBeforeLine
  <2>3. RecordedIsMade'
    BY <2>1 DEF InOrder, RecordedIsMade, Recorded, OnDisk, InLine
  <2> QED BY <2>2, <2>3 DEF InOrder
<1>7. CASE WagonArrives
  <2>1. rows' = rows /\ pending' = pending /\ Len(made') = Len(made) + 1 /\ tracker' = Len(made) + 1
    BY <1>7, ArrivesTypes, AppendProperties DEF WagonArrives, disk, NewId, TypeOK
  <2>2. Parted /\ \A i : Recorded(i)' <=> Recorded(i)
    BY <2>1, UnchangedRows, QuietOrder
  <2>3. RecordedIsMade'
    BY <2>1, <2>2, <1>a DEF InOrder, RecordedIsMade
  <2> QED BY <2>2, <2>3 DEF InOrder
<1>8. ASSUME SameRows(rows'), pending' = pending, made' = made,
             saving' = "arrival" => saving = "arrival" /\ tracker' = tracker
      PROVE  InOrder'
  <2>1. Parted /\ \A i : Recorded(i)' <=> Recorded(i)
    BY <1>8, QuietOrder
  <2>2. RecordedIsMade'
    BY <1>8, <2>1 DEF InOrder, RecordedIsMade
  <2> QED BY <2>1, <2>2 DEF InOrder
<1>9. CASE Restart
  BY <1>8, <1>9, RecoveredKeeps DEF Restart, Counted, TypeOK
<1>10. CASE Ack
  BY <1>8, <1>10, AckKeeps DEF Ack, TypeOK, collector
<1>11. CASE Comes \/ Leaves \/ DepartureRemembered \/ Import \/ ImporterDies \/ UNCHANGED vars
  BY <1>8, <1>11, UnchangedRows
  DEF Comes, Leaves, DepartureRemembered, Import, ImporterDies, vars, collector, disk
<1>12. CASE StandingBusy \/ StableReading
  BY <1>8, <1>12, UnchangedRows DEF StandingBusy, StableReading, collector, disk
<1> QED
  BY <1>1, <1>2, <1>3, <1>4, <1>5, <1>6, <1>7, <1>9, <1>10, <1>11, <1>12 DEF Next

-----------------------------------------------------------------------------
(* Nothing is dropped. *)

\* The rows of the file are of events that were made.
LEMMA RowsAreMade ==
  ASSUME TypeOK, InOrder, NEW n \in DOMAIN rows
  PROVE  rows[n].id \in Ids /\ rows[n].id \in DOMAIN made /\ OnDisk(rows[n].id)
<1>1. rows[n].id \in Ids /\ OnDisk(rows[n].id)
  BY Sizes DEF Rows, OnDisk
<1>2. rows[n].id <= Len(made)
  BY <1>1 DEF InOrder, RecordedIsMade, Recorded
<1> QED BY <1>1, <1>2, Sizes, EventBound DEF Ids

\* Recorded events keep their description when another event is made.
LEMMA MadeStays ==
  ASSUME TypeOK, Counted, NEW kind, NEW stop, NEW visit,
         Event(kind, stop, visit) \in Events,
         made' = Append(made, Event(kind, stop, visit))
  PROVE  /\ DOMAIN made' = DOMAIN made \cup {NewId} /\ NewId \notin DOMAIN made
         /\ \A i \in DOMAIN made : made'[i] = made[i] /\ i < NewId
         /\ made'[NewId] = Event(kind, stop, visit)
BY Growth, Sizes DEF TypeOK, NewId

LEMMA EventTypes ==
  ASSUME TypeOK, NewId \in Ids
  PROVE  /\ Event("capture", NewId, under) \in Events
         /\ Event("arrival", NewId, under) \in Events
         /\ \A i \in Ids \cap DOMAIN made : Event("departure", i, made[i].visit) \in Events
<1>1. \A i \in DOMAIN made : made[i].visit \in 0..MaxStops
  BY Sizes DEF Events
<1> QED BY <1>1 DEF Event, Events, Kinds, TypeOK

\* What met a locked file is remembered as such.
LEMMA MissedGrows ==
  ASSUME [Next]_vars
  PROVE  missed \subseteq missed'
BY DEF Next, vars, world, Comes, Leaves, CaptureTruck, WagonArrives, ArrivalRemembered,
       WagonDeparts, DepartureRemembered, StandingBusy, StableReading, WorkerDone, Flush,
       Crash, Restart, Import, Ack, ImporterDies

\* What is recorded stays where it was made.
LEMMA GrowthKeeps ==
  ASSUME TypeOK, TypeOK', Counted, InOrder, Kept, rows' = rows, epoch' = epoch,
         missed \subseteq missed',
         NEW e, DOMAIN made' = DOMAIN made \cup {NewId},
         NewId \notin DOMAIN made, made'[NewId] = e, e.epoch = epoch,
         \A i \in DOMAIN made : made'[i] = made[i] /\ i < NewId,
         \A i \in Ids : InLine(i)' => InLine(i) \/ i = NewId
  PROVE  /\ \A i \in Ids : InLine(i)' => made'[i].epoch = epoch'
         /\ NoGaps'
<1>1. \A i \in Ids : InLine(i)' => made'[i].epoch = epoch'
  <2> SUFFICES ASSUME NEW i \in Ids, InLine(i)' PROVE made'[i].epoch = epoch
    OBVIOUS
  <2>1. CASE i = NewId
    BY <2>1
  <2>2. CASE InLine(i)
    <3>1. i <= Len(made)
      BY <2>2 DEF InOrder, RecordedIsMade, Recorded
    <3>2. i \in DOMAIN made
      BY <3>1, Sizes, EventBound DEF Ids
    <3> QED BY <2>2, <3>2 DEF Kept, LineIsFresh
  <2> QED BY <2>1, <2>2
<1>2. NoGaps'
  <2> SUFFICES ASSUME NEW n \in DOMAIN rows, NEW i \in DOMAIN made', i < rows[n].id,
                      made'[i].epoch = made'[rows[n].id].epoch
               PROVE  OnDisk(i) \/ i \in missed
    BY DEF NoGaps, OnDisk
  <2>1. rows[n].id \in DOMAIN made
    BY RowsAreMade
  <2>2. i # NewId
    BY <2>1, Sizes DEF NewId
  <2> QED BY <2>1, <2>2 DEF Kept, NoGaps
<1> QED BY <1>1, <1>2

\* The step that makes an event: it is described as above, and the line takes
\* at most that event.
MakesEvent(e) ==
  /\ e.epoch = epoch /\ NewId \in Ids
  /\ DOMAIN made' = DOMAIN made \cup {NewId} /\ NewId \notin DOMAIN made
  /\ \A i \in DOMAIN made : made'[i] = made[i] /\ i < NewId
  /\ made'[NewId] = e

LEMMA CaptureMakes ==
  ASSUME TypeOK, Counted, CaptureTruck
  PROVE  MakesEvent(Event("capture", NewId, under))
<1>1. NewId \in Ids /\ made' = Append(made, Event("capture", NewId, under))
  BY CaptureTypes
<1>2. Event("capture", NewId, under).epoch = epoch
  BY DEF Event
<1> QED BY <1>1, <1>2, EventTypes, MadeStays DEF MakesEvent

LEMMA ArrivesMakes ==
  ASSUME TypeOK, Counted, WagonArrives
  PROVE  MakesEvent(Event("arrival", NewId, under))
<1>1. NewId \in Ids /\ made' = Append(made, Event("arrival", NewId, under))
  BY ArrivesTypes
<1>2. Event("arrival", NewId, under).epoch = epoch
  BY DEF Event
<1> QED BY <1>1, <1>2, EventTypes, MadeStays DEF MakesEvent

LEMMA DepartsMakes ==
  ASSUME TypeOK, Counted, WagonDeparts
  PROVE  MakesEvent(Event("departure", tracker, made[tracker].visit))
<1>1. /\ NewId \in Ids /\ tracker \in Ids \cap DOMAIN made
      /\ made' = Append(made, Event("departure", tracker, made[tracker].visit))
  BY DepartsTypes, Sizes, EventBound DEF TypeOK, WagonDeparts, Ids
<1>2. Event("departure", tracker, made[tracker].visit).epoch = epoch
  BY DEF Event
<1> QED BY <1>1, <1>2, EventTypes, MadeStays DEF MakesEvent

\* A step that makes no event, keeps the epoch and records what was recorded.
LEMMA RecordsKeep ==
  ASSUME TypeOK, Counted, InOrder, Kept, made' = made, epoch' = epoch, SameRows(rows'),
         missed \subseteq missed',
         \A i \in Ids : InLine(i)' => InLine(i),
         saving' = "arrival" => saving = "arrival" /\ tracker' = tracker
  PROVE  LineIsFresh' /\ NoGaps'
<1>1. LineIsFresh'
  BY DEF Kept, LineIsFresh
<1>2. \A i : OnDisk(i)' <=> OnDisk(i)
  BY SameRowsRecords
<1>3. NoGaps'
  BY <1>2 DEF Kept, NoGaps, SameRows
<1> QED BY <1>1, <1>3

LEMMA FlushKeeps ==
  ASSUME TypeOK, TypeOK', Counted, InOrder, Kept, Flush
  PROVE  Kept'
<1>a. /\ Head(pending) \in Writes /\ Head(pending) = pending[1] /\ 1 \in DOMAIN pending
      /\ pending' = Tail(pending) /\ pending # <<>>
      /\ \A n \in DOMAIN pending' : n + 1 \in DOMAIN pending /\ pending'[n] = pending[n + 1]
  BY FlushedHead DEF Flush, TypeOK
<1>b. /\ made' = made /\ epoch' = epoch /\ saving' = saving /\ tracker' = tracker
      /\ up /\ up' = up /\ missed' = missed
  BY DEF Flush, world
<1>c. \A i : Recorded(i)' <=> Recorded(i)
  BY FlushRecords
<1>d. \A i : InLine(i)' => InLine(i)
  BY <1>a DEF InLine, Put
<1>1. LineIsFresh'
  BY <1>b, <1>d DEF Kept, LineIsFresh
<1>2. OnItsWay'
  BY <1>b, <1>c DEF Kept, OnItsWay
<1>3. CASE Head(pending).op = "put"
  <2> DEFINE w == Head(pending).id
  <2>1. /\ w \in Ids /\ Head(pending) = Put(w)
        /\ DOMAIN rows' = 1..Len(rows) + 1 /\ rows'[Len(rows) + 1].id = w
        /\ \A n \in DOMAIN rows : rows'[n] = rows[n] /\ n \in DOMAIN rows'
    <3>1. rows' = PutRow(w)
      BY <1>3 DEF Flush
    <3> QED BY <3>1, <1>a, <1>3, PutAppends, Sizes
  <2>2. DOMAIN rows' = DOMAIN rows \cup {Len(rows) + 1}
    BY <2>1, Sizes
  <2>3. InLine(w) /\ made[w].epoch = epoch
    BY <2>1, <1>a DEF InLine, Kept, LineIsFresh
  <2>4. \A i : OnDisk(i) => OnDisk(i)'
    BY <2>1 DEF OnDisk
  <2>5. \A i \in DOMAIN made : i < w /\ made[i].epoch = epoch => OnDisk(i) \/ i \in missed
    <3> SUFFICES ASSUME NEW i \in DOMAIN made, i < w, made[i].epoch = epoch
                 PROVE  OnDisk(i) \/ i \in missed
      OBVIOUS
    <3>1. i \in Nat /\ w \in Nat
      <4>1. DOMAIN made = 1..Len(made) /\ Len(made) \in Nat
        BY Sizes
      <4>2. Ids \subseteq Nat
        BY EventBound
      <4> HIDE DEF w
      <4> QED BY <2>1, <4>1, <4>2
    <3>2. ~(saving = "arrival" /\ i = tracker)
      BY <2>1, <2>3, <3>1 DEF InOrder, RecordedIsMade, Recorded
    <3>3. ~InLine(i)
      <4> SUFFICES ASSUME NEW n \in DOMAIN pending, pending[n] = Put(i) PROVE FALSE
        BY DEF InLine
      <4>1. pending[n].op = "put" /\ pending[n].id = i
        BY PutShape
      <4>2. n # 1
        BY <4>1, <1>a, <3>1
      <4>3. 1 < n
        BY <4>2, Sizes
      <4>4. w < i
        BY <4>1, <4>3, <1>a, <1>3 DEF InOrder, LineInOrder
      <4> QED BY <4>4, <3>1
    <3> QED BY <1>b, <3>2, <3>3 DEF Kept, OnItsWay, Recorded
  <2>6. NoGaps'
    <3> SUFFICES ASSUME NEW n \in DOMAIN rows', NEW i \in DOMAIN made, i < rows'[n].id,
                        made[i].epoch = made[rows'[n].id].epoch
                 PROVE  OnDisk(i) \/ i \in missed
      BY <1>b, <2>4 DEF NoGaps
    <3>1. CASE n \in DOMAIN rows
      BY <3>1, <2>1 DEF Kept, NoGaps
    <3>2. CASE n = Len(rows) + 1
      BY <3>2, <2>1, <2>3, <2>5
    <3> QED BY <3>1, <3>2, <2>2
  <2> QED BY <1>1, <1>2, <2>6 DEF Kept
<1>4. CASE Head(pending).op # "put"
  <2>1. Head(pending).id \in Ids /\ Head(pending).part \in {"photo", "ocr"}
    BY <1>a, <1>4 DEF Writes
  <2>2. rows' = FinishRow(Head(pending).id, Head(pending).part)
    BY <1>4 DEF Flush
  <2>3. SameRows(rows')
    BY <2>1, <2>2, FinishRowKeeps DEF TypeOK
  <2>4. NoGaps'
    BY <2>3, <1>b, <1>d, RecordsKeep
  <2> QED BY <1>1, <1>2, <2>4 DEF Kept
<1> QED BY <1>3, <1>4

LEMMA MakesRecords ==
  ASSUME TypeOK, TypeOK', Counted, InOrder, Kept, NEW e, MakesEvent(e), EventJoins(NewId),
         rows' = rows, epoch' = epoch, up, saving # "arrival", saving' # "arrival",
         missed \subseteq missed'
  PROVE  Kept'
<1>a. NewId \in Ids /\ NewId \in DOMAIN made' /\ DOMAIN made' = DOMAIN made \cup {NewId}
  BY DEF MakesEvent
<1>1. \A i : InLine(i)' <=> InLine(i) \/ i = NewId
  BY <1>a, EventRecords
<1>2. (\A i \in Ids : InLine(i)' => made'[i].epoch = epoch') /\ NoGaps'
  BY <1>1, GrowthKeeps DEF MakesEvent
<1>3. LineIsFresh'
  BY <1>2 DEF LineIsFresh
<1>4. \A i : Recorded(i)' <=> Recorded(i) \/ i = NewId
  BY <1>1 DEF Recorded, OnDisk
<1>5. \A i \in DOMAIN made' : made'[i].epoch = epoch => Recorded(i)' \/ i \in missed'
  <2> SUFFICES ASSUME NEW i \in DOMAIN made, made[i].epoch = epoch
               PROVE  Recorded(i) \/ i \in missed
    BY <1>4, <1>a DEF MakesEvent
  <2> QED BY DEF Kept, OnItsWay
<1> QED BY <1>2, <1>3, <1>5 DEF Kept, OnItsWay

LEMMA StepKept ==
  ASSUME TypeOK, TypeOK', Counted, Counted', InOrder, InOrder', Kept, [Next]_vars
  PROVE  Kept'
<1>a. missed \subseteq missed'
  BY MissedGrows
<1>1. CASE CaptureTruck
  <2>1. /\ EventJoins(NewId) /\ rows' = rows /\ epoch' = epoch
        /\ up /\ saving # "arrival" /\ saving' # "arrival"
    <3>1. saving # "arrival"
      BY <1>1 DEF CaptureTruck, Counted
    <3> QED BY <1>1, <3>1, CaptureTypes DEF CaptureTruck, disk
  <2> QED BY <1>a, <1>1, <2>1, CaptureMakes, MakesRecords
<1>2. CASE WagonDeparts
  <2>1. /\ EventJoins(NewId) /\ rows' = rows /\ epoch' = epoch
        /\ up /\ saving # "arrival" /\ saving' # "arrival"
    BY <1>2, DepartsTypes DEF WagonDeparts, disk
  <2> QED BY <1>a, <1>2, <2>1, DepartsMakes, MakesRecords
<1>3. CASE WagonArrives
  <2> DEFINE e == Event("arrival", NewId, under)
  <2>1. /\ rows' = rows /\ pending' = pending /\ epoch' = epoch /\ up' = up
        /\ saving = "no" /\ saving' = "arrival" /\ tracker' = NewId
    BY <1>3 DEF WagonArrives, disk
  <2>2. MakesEvent(e)
    BY <1>3, ArrivesMakes
  <2>3. \A i : (InLine(i)' <=> InLine(i)) /\ (Recorded(i)' <=> Recorded(i))
    BY <2>1 DEF InLine, Recorded, OnDisk
  <2>4. (\A i \in Ids : InLine(i)' => made'[i].epoch = epoch') /\ NoGaps'
    <3> HIDE DEF e
    <3> QED BY <1>a, <2>1, <2>2, <2>3, GrowthKeeps DEF MakesEvent
  <2>5. LineIsFresh'
    BY <2>1, <2>2, <2>4 DEF LineIsFresh, MakesEvent
  <2>6. OnItsWay'
    <3> SUFFICES ASSUME NEW i \in DOMAIN made', made'[i].epoch = epoch, i # NewId, up
                 PROVE  Recorded(i) \/ i \in missed
      BY <1>a, <2>1, <2>3 DEF OnItsWay
    <3>1. i \in DOMAIN made /\ made[i].epoch = epoch
      BY <2>2 DEF MakesEvent
    <3> QED BY <2>1, <3>1 DEF Kept, OnItsWay
  <2> QED BY <2>4, <2>5, <2>6 DEF Kept
<1>4. CASE ArrivalRemembered
  <2>1. /\ tracker \in Ids /\ EventJoins(tracker) /\ rows' = rows /\ epoch' = epoch
        /\ made' = made /\ up' = up /\ saving = "arrival" /\ saving' = "no"
    BY <1>4, RememberedTypes DEF ArrivalRemembered
  <2>2. \A i : InLine(i)' <=> InLine(i) \/ i = tracker
    BY <2>1, EventRecords
  <2>3. \A i : Recorded(i)' <=> Recorded(i) \/ i = tracker
    BY <2>1, <2>2 DEF Recorded, OnDisk
  <2>4. LineIsFresh'
    BY <2>1, <2>2 DEF Kept, LineIsFresh
  <2>5. OnItsWay'
    BY <1>a, <2>1, <2>3 DEF Kept, OnItsWay
  <2>6. NoGaps'
    BY <1>a, <2>1 DEF Kept, NoGaps, OnDisk
  <2> QED BY <2>4, <2>5, <2>6 DEF Kept
<1>5. ASSUME NEW w \in workers, WorkerDone(w) PROVE Kept'
  <2>1. /\ EvidenceJoins /\ SameRows(rows') /\ made' = made /\ epoch' = epoch /\ up' = up
        /\ saving' = saving /\ tracker' = tracker /\ rows' = rows
    BY <1>5, WorkerTypes, UnchangedRows DEF WorkerDone, disk
  <2>2. \A i \in Ids : InLine(i)' <=> InLine(i)
    BY <2>1, EvidenceRecords
  <2>3. LineIsFresh' /\ NoGaps'
    BY <1>a, <2>1, <2>2, RecordsKeep
  <2>4. OnItsWay'
    <3>1. DOMAIN made \subseteq Ids
      BY Sizes, EventBound DEF Counted, Ids
    <3> QED BY <1>a, <2>1, <2>2, <3>1 DEF Kept, OnItsWay, Recorded, OnDisk
  <2> QED BY <2>3, <2>4 DEF Kept
<1>6. CASE Flush
  BY <1>6, FlushKeeps
<1>7. CASE Crash
  <2>1. /\ pending' = <<>> /\ SameRows(rows') /\ made' = made /\ epoch' = epoch /\ ~up'
        /\ saving' = "no"
    BY <1>7, UnchangedRows DEF Crash, disk
  <2>2. \A i \in Ids : InLine(i)' => InLine(i)
    BY <2>1 DEF InLine
  <2> QED BY <1>a, <2>1, <2>2, RecordsKeep DEF Kept, OnItsWay
<1>8. CASE Restart
  <2>1. /\ pending = <<>> /\ pending' = <<>> /\ SameRows(rows') /\ made' = made
        /\ epoch' = epoch + 1 /\ saving' = "no"
    BY <1>8, RecoveredKeeps DEF Restart, Counted, TypeOK
  <2>2. LineIsFresh'
    BY <2>1 DEF LineIsFresh, InLine
  <2>3. OnItsWay'
    <3>1. epoch \in Nat /\ \A i \in DOMAIN made : made[i].epoch <= epoch /\ made[i].epoch \in Nat
      <4>1. MaxEpoch \in Nat /\ epoch \in 1..MaxEpoch
        BY OutboxAssumption DEF TypeOK
      <4>2. \A i \in DOMAIN made : made[i].epoch \in 1..MaxEpoch
        BY Sizes DEF Events
      <4>3. \A i \in DOMAIN made : made[i].epoch <= epoch
        BY DEF Counted
      <4> QED BY <4>1, <4>2, <4>3
    <3> QED BY <2>1, <3>1 DEF OnItsWay
  <2>4. \A i : OnDisk(i)' <=> OnDisk(i)
    BY <2>1, SameRowsRecords
  <2>5. NoGaps'
    BY <1>a, <2>1, <2>4 DEF Kept, NoGaps, SameRows
  <2> QED BY <2>2, <2>3, <2>5 DEF Kept
<1>9. ASSUME SameRows(rows'), pending' = pending, made' = made, epoch' = epoch, up' = up,
             saving' = saving \/ (saving = "departure" /\ saving' = "no"), tracker' = tracker
      PROVE  Kept'
  <2>1. \A i : InLine(i)' <=> InLine(i)
    BY <1>9 DEF InLine
  <2>2. LineIsFresh' /\ NoGaps'
    BY <1>a, <1>9, <2>1, RecordsKeep
  <2>3. \A i : Recorded(i)' <=> Recorded(i)
    BY <1>9, <2>1, SameRowsRecords DEF Recorded
  <2>4. OnItsWay'
    BY <1>a, <1>9, <2>3 DEF Kept, OnItsWay
  <2> QED BY <2>2, <2>4 DEF Kept
<1>10. CASE Ack
  BY <1>9, <1>10, AckKeeps DEF Ack, TypeOK, collector
<1>11. CASE Comes \/ Leaves \/ DepartureRemembered \/ Import \/ ImporterDies \/ UNCHANGED vars
  BY <1>9, <1>11, UnchangedRows
  DEF Comes, Leaves, DepartureRemembered, Import, ImporterDies, vars, collector, disk
<1>12. CASE StableReading
  BY <1>9, <1>12, UnchangedRows DEF StableReading, collector
<1>13. CASE StandingBusy
  <2>1. /\ SameRows(rows') /\ pending' = pending /\ made' = made /\ epoch' = epoch
        /\ up' = up /\ saving' = "no" /\ tracker' = tracker
        /\ saving = "arrival" => tracker \in missed'
    BY <1>13, UnchangedRows DEF StandingBusy, disk
  <2>2. \A i : InLine(i)' <=> InLine(i)
    BY <2>1 DEF InLine
  <2>3. LineIsFresh' /\ NoGaps'
    BY <1>a, <2>1, <2>2, RecordsKeep
  <2>4. \A i : Recorded(i)' <=> Recorded(i)
    BY <2>1, <2>2, SameRowsRecords DEF Recorded
  <2>5. OnItsWay'
    BY <1>a, <2>1, <2>4 DEF Kept, OnItsWay
  <2> QED BY <2>3, <2>5 DEF Kept
<1> QED
  BY <1>1, <1>2, <1>3, <1>4, <1>5, <1>6, <1>7, <1>8, <1>10, <1>11, <1>12, <1>13 DEF Next

-----------------------------------------------------------------------------
(* One arrival per stop. *)

\* A step that records no arrival, and neither moves the wagon on nor forgets
\* the stop that stands there.
LEMMA StopKeeps ==
  ASSUME OneStop,
         \A i \in DOMAIN made' :
           Arrived(i)' => i \in DOMAIN made /\ Arrived(i) /\ made'[i].visit = made[i].visit,
         still' => still /\ under' = under, standing' = standing, up' => up /\ tracker' = tracker,
         saving' = "arrival" =>
           saving = "arrival" /\ tracker' = tracker /\ made'[tracker] = made[tracker]
  PROVE  OneStop'
BY DEF OneStop

\* An arrival is recorded as it was made.
LEMMA ArrivedSame ==
  ASSUME TypeOK, Counted, made' = made, \A i \in Ids : Recorded(i)' => Recorded(i)
  PROVE  \A i \in DOMAIN made' :
           Arrived(i)' => i \in DOMAIN made /\ Arrived(i) /\ made'[i].visit = made[i].visit
<1>1. DOMAIN made \subseteq Ids
  BY Sizes, EventBound DEF Counted, Ids
<1> QED BY <1>1 DEF Arrived

\* A recorded event that is not an arrival is none.
LEMMA ArrivedBefore ==
  ASSUME TypeOK, Counted, InOrder, NEW e, MakesEvent(e), e.kind # "arrival",
         \A i \in Ids : Recorded(i)' => Recorded(i) \/ i = NewId
  PROVE  \A i \in DOMAIN made' :
           Arrived(i)' => i \in DOMAIN made /\ Arrived(i) /\ made'[i].visit = made[i].visit
<1>1. DOMAIN made \subseteq Ids
  BY Sizes, EventBound DEF Counted, Ids
<1> QED BY <1>1 DEF Arrived, MakesEvent

LEMMA StepOneStop ==
  ASSUME TypeOK, TypeOK', Counted, Counted', InOrder, InOrder', OneStop, [Next]_vars
  PROVE  OneStop'
<1>a. DOMAIN made \subseteq Ids /\ DOMAIN made \subseteq Nat \ {0}
  BY Sizes, EventBound DEF Counted, Ids
<1>1. CASE CaptureTruck
  <2>1. /\ EventJoins(NewId) /\ rows' = rows /\ up' = up /\ still' = still /\ under' = under
        /\ standing' = standing /\ tracker' = tracker /\ saving' = saving /\ saving # "arrival"
    <3>1. saving # "arrival"
      BY <1>1 DEF CaptureTruck, Counted
    <3> QED BY <1>1, <3>1, CaptureTypes DEF CaptureTruck, disk, world
  <2>2. \A i \in Ids : Recorded(i)' => Recorded(i) \/ i = NewId
    BY <2>1, EventRecords DEF Recorded, OnDisk
  <2>3. Event("capture", NewId, under).kind # "arrival"
    BY DEF Event
  <2>4. \A i \in DOMAIN made' :
          Arrived(i)' => i \in DOMAIN made /\ Arrived(i) /\ made'[i].visit = made[i].visit
    BY <1>1, <2>2, <2>3, CaptureMakes, ArrivedBefore
  <2> QED BY <2>1, <2>4, StopKeeps
<1>2. CASE WagonDeparts
  <2> DEFINE e == Event("departure", tracker, made[tracker].visit)
  <2>1. /\ EventJoins(NewId) /\ rows' = rows /\ up /\ up' = up /\ still' = still /\ under' = under
        /\ standing' = standing /\ saving' = "departure"
        /\ ~still \/ under # made[tracker].visit
    BY <1>2, DepartsTypes DEF WagonDeparts, disk, world
  <2>2. \A i \in Ids : Recorded(i)' => Recorded(i) \/ i = NewId
    BY <2>1, EventRecords DEF Recorded, OnDisk
  <2>3. e.kind # "arrival"
    BY DEF Event
  <2>4. \A i \in DOMAIN made' :
          Arrived(i)' => i \in DOMAIN made /\ Arrived(i) /\ made'[i].visit = made[i].visit
    <3>1. MakesEvent(e)
      BY <1>2, DepartsMakes
    <3> HIDE DEF e
    <3> QED BY <2>2, <2>3, <3>1, ArrivedBefore
  <2>5. \A i \in DOMAIN made : ~(Arrived(i) /\ still /\ made[i].visit = under)
    BY <2>1 DEF OneStop
  <2> QED BY <2>1, <2>4, <2>5 DEF OneStop
<1>3. CASE WagonArrives
  <2> DEFINE e == Event("arrival", NewId, under)
  <2>1. /\ rows' = rows /\ pending' = pending /\ up /\ up' = up /\ still /\ still' = still
        /\ under' = under /\ standing' = standing /\ tracker = 0 /\ tracker' = NewId
        /\ saving' = "arrival"
    BY <1>3 DEF WagonArrives, disk, world
  <2>2. MakesEvent(e) /\ e.visit = under
    BY <1>3, ArrivesMakes DEF Event
  <2> HIDE DEF e
  <2>3. \A i : Recorded(i)' <=> Recorded(i)
    BY <2>1 DEF InLine, Recorded, OnDisk
  <2>4. ~Recorded(NewId)
    BY <2>2, Sizes DEF InOrder, RecordedIsMade, MakesEvent, NewId
  <2>5. \A i \in DOMAIN made' : Arrived(i)' => i \in DOMAIN made /\ Arrived(i) /\ made'[i] = made[i]
    BY <2>2, <2>3, <2>4 DEF Arrived, MakesEvent
  <2>6. \A i \in DOMAIN made : Arrived(i) => made[i].visit # under
    BY <2>1, <1>a DEF OneStop
  <2>7. made'[tracker'].visit = under
    BY <2>1, <2>2 DEF MakesEvent
  <2> QED BY <2>1, <2>5, <2>6, <2>7 DEF OneStop
<1>4. CASE ArrivalRemembered
  <2>1. /\ tracker \in Ids /\ EventJoins(tracker) /\ rows' = rows /\ tracker' = tracker
        /\ made' = made /\ up /\ up' = up /\ saving = "arrival" /\ saving' = "no"
        /\ standing' = tracker /\ still' = still /\ under' = under
    BY <1>4, RememberedTypes DEF ArrivalRemembered, world
  <2>2. \A i : Recorded(i)' <=> Recorded(i) \/ i = tracker
    BY <2>1, EventRecords DEF Recorded, OnDisk
  <2>3. \A i \in DOMAIN made : Arrived(i)' => Arrived(i) \/ i = tracker
    BY <2>1, <2>2 DEF Arrived
  <2>4. \A i \in DOMAIN made : Arrived(i) => made[i].visit # made[tracker].visit
    BY <2>1 DEF OneStop
  <2>5. \A i \in DOMAIN made :
          Arrived(i) /\ still /\ made[i].visit = under => standing = i /\ tracker = i
    BY <2>1 DEF OneStop
  <2> QED BY <2>1, <2>3, <2>4, <2>5 DEF OneStop
<1>5. ASSUME made' = made, \A i \in Ids : Recorded(i)' => Recorded(i),
             still' => still /\ under' = under, standing' = standing,
             up' => up /\ tracker' = tracker,
             saving' = "arrival" => saving = "arrival" /\ tracker' = tracker
      PROVE  OneStop'
  BY <1>5, ArrivedSame, StopKeeps
<1>6. ASSUME NEW w \in workers, WorkerDone(w) PROVE OneStop'
  <2>1. /\ EvidenceJoins /\ rows' = rows /\ made' = made /\ up' = up /\ still' = still
        /\ under' = under /\ standing' = standing /\ saving' = saving /\ tracker' = tracker
    BY <1>6, WorkerTypes DEF WorkerDone, disk, world
  <2>2. \A i \in Ids : Recorded(i)' => Recorded(i)
    BY <2>1, EvidenceRecords DEF Recorded, OnDisk
  <2> QED BY <1>5, <2>1, <2>2
<1>7. CASE Flush
  <2>1. \A i \in Ids : Recorded(i)' => Recorded(i)
    BY <1>7, FlushRecords
  <2> QED BY <1>5, <1>7, <2>1 DEF Flush, world
<1>8. CASE Crash
  <2>1. \A i \in Ids : Recorded(i)' => Recorded(i)
    BY <1>8 DEF Crash, disk, Recorded, OnDisk, InLine
  <2> QED BY <1>5, <1>8, <2>1 DEF Crash, world, disk
<1>9. ASSUME SameRows(rows'), pending' = pending PROVE \A i \in Ids : Recorded(i)' => Recorded(i)
  BY <1>9, SameRowsRecords DEF Recorded, InLine
<1>10. CASE Restart
  <2>1. \A i \in Ids : Recorded(i)' => Recorded(i)
    BY <1>9, <1>10, RecoveredKeeps DEF Restart, TypeOK
  <2>2. /\ made' = made /\ still' = still /\ under' = under /\ standing' = standing
        /\ tracker' = standing /\ saving' = "no"
    BY <1>10 DEF Restart, world, Counted
  <2>3. \A i \in DOMAIN made : Arrived(i)' => Arrived(i)
    BY <2>1, <2>2, <1>a DEF Arrived
  <2> QED BY <2>2, <2>3 DEF OneStop
<1>11. CASE Comes
  <2>1. /\ rows' = rows /\ pending' = pending /\ made' = made /\ under' = under + 1
        /\ saving' = saving /\ tracker' = tracker
    BY <1>11 DEF Comes, collector, disk
  <2>2. \A i \in DOMAIN made : Arrived(i)' <=> Arrived(i)
    BY <2>1 DEF Arrived, Recorded, InLine, OnDisk
  <2>3. \A i \in DOMAIN made : made[i].visit # under'
    <3>1. \A i \in DOMAIN made : made[i].visit <= under /\ made[i].visit \in Nat
      BY Sizes, OutboxAssumption DEF Counted, Events
    <3>2. under \in Nat
      BY OutboxAssumption DEF TypeOK
    <3> QED BY <2>1, <3>1, <3>2
  <2> QED BY <2>1, <2>2, <2>3 DEF OneStop
<1>12. CASE DepartureRemembered
  <2>1. /\ rows' = rows /\ pending' = pending /\ made' = made /\ up /\ tracker = 0
        /\ saving' = "no" /\ still' = still /\ under' = under
    BY <1>12 DEF DepartureRemembered, Counted, world
  <2>2. \A i \in DOMAIN made : Arrived(i)' <=> Arrived(i)
    BY <2>1 DEF Arrived, Recorded, InLine, OnDisk
  <2>3. \A i \in DOMAIN made : ~(Arrived(i) /\ still /\ made[i].visit = under)
    BY <2>1, <1>a DEF OneStop
  <2> QED BY <2>1, <2>2, <2>3 DEF OneStop
<1>13. CASE Ack
  <2>1. \A i \in Ids : Recorded(i)' => Recorded(i)
    BY <1>9, <1>13, AckKeeps DEF Ack, TypeOK, collector
  <2> QED BY <1>5, <1>13, <2>1 DEF Ack, collector, world
<1>14. CASE Leaves \/ Import \/ ImporterDies \/ UNCHANGED vars
  <2>1. \A i \in Ids : Recorded(i)' => Recorded(i)
    BY <1>9, <1>14, UnchangedRows DEF Leaves, Import, ImporterDies, vars, collector, disk
  <2> QED BY <1>5, <1>14, <2>1 DEF Leaves, Import, ImporterDies, vars, collector, disk, world
<1>15. CASE StandingBusy
  <2>1. \A i \in Ids : Recorded(i)' => Recorded(i)
    BY <1>9, <1>15, UnchangedRows DEF StandingBusy, disk
  <2> QED BY <1>5, <1>15, <2>1 DEF StandingBusy, disk
<1>16. CASE StableReading
  <2>1. /\ rows' = rows /\ pending' = pending /\ made' = made /\ up /\ up' = up
        /\ tracker' = tracker /\ standing' = tracker /\ saving' = saving
        /\ still' = still /\ under' = under
    BY <1>16 DEF StableReading, collector, world
  <2>2. \A i \in DOMAIN made : Arrived(i)' <=> Arrived(i)
    BY <2>1 DEF Arrived, Recorded, InLine, OnDisk
  <2> QED BY <2>1, <2>2 DEF OneStop
<1> QED
  BY <1>1, <1>2, <1>3, <1>4, <1>6, <1>7, <1>8, <1>10, <1>11, <1>12, <1>13, <1>14, <1>15, <1>16
  DEF Next

-----------------------------------------------------------------------------
(* What the CRM has taken. *)

\* Rows are told apart by their events.
LEMMA RowsDiffer ==
  ASSUME TypeOK, InOrder, NEW m \in DOMAIN rows, NEW n \in DOMAIN rows, rows[m].id = rows[n].id
  PROVE  m = n
<1>1. m \in Nat /\ n \in Nat /\ rows[m].id \in Nat
  <2>1. rows[m].id \in Ids
    BY Sizes DEF Rows
  <2>2. DOMAIN rows = 1..Len(rows) /\ Len(rows) \in Nat
    BY Sizes
  <2>3. Ids \subseteq Nat
    BY EventBound
  <2>4. m \in Nat /\ n \in Nat
    BY <2>2
  <2> QED BY <2>1, <2>3, <2>4
<1>2. ~(m < n) /\ ~(n < m)
  BY <1>1 DEF InOrder, CaptureOrder
<1> QED BY <1>1, <1>2

\* The row the importer takes is the one after what it has taken, or the last
\* one taken again.
LEMMA HeadIsNext ==
  ASSUME TypeOK, InOrder, Taken, NEW n \in HeadRow
  PROVE  /\ n \in DOMAIN rows /\ rows[n].id \in Ids /\ rows[n].ready /\ ~rows[n].acked
         /\ \A m \in DOMAIN rows : m < n => rows[m].acked
         /\ \/ n = Len(taken) /\ Known(rows[n].id) /\ taken[n] = rows[n].id
            \/ n = Len(taken) + 1 /\ ~Known(rows[n].id)
<1>a. /\ Len(rows) \in Nat /\ DOMAIN rows = 1..Len(rows)
      /\ Len(taken) \in Nat /\ DOMAIN taken = 1..Len(taken)
      /\ Len(taken) <= Len(rows)
  BY Sizes DEF Taken
<1>1. n \in DOMAIN rows /\ rows[n].ready /\ ~rows[n].acked /\ n \in Nat /\ n >= 1
  BY <1>a DEF HeadRow, Unacked
<1>2. \A m \in DOMAIN rows : m < n => rows[m].acked
  BY <1>1, <1>a DEF HeadRow, Unacked
<1>3. rows[n].id \in Ids
  BY <1>1, Sizes DEF Rows
<1>4. n >= Len(taken)
  BY <1>1, <1>a DEF Taken
<1>5. n <= Len(taken) + 1
  <2> SUFFICES ASSUME n > Len(taken) + 1 PROVE FALSE
    BY <1>1, <1>a
  <2>1. Len(taken) + 1 \in DOMAIN rows /\ Len(taken) + 1 < n
    BY <1>1, <1>a
  <2>2. rows[Len(taken) + 1].acked
    BY <1>2, <2>1
  <2>3. Len(taken) + 1 <= Len(taken)
    BY <2>1, <2>2 DEF Taken
  <2> QED BY <2>3, <1>a
<1>6. CASE n = Len(taken)
  <2>1. n \in DOMAIN taken
    BY <1>6, <1>1, <1>a
  <2>2. taken[n] = rows[n].id
    BY <2>1 DEF Taken
  <2> QED BY <1>1, <1>2, <1>3, <1>6, <2>1, <2>2 DEF Known
<1>7. CASE n = Len(taken) + 1
  <2> SUFFICES ASSUME NEW k \in DOMAIN taken, taken[k] = rows[n].id PROVE FALSE
    BY <1>1, <1>2, <1>3, <1>7 DEF Known
  <2>1. k \in DOMAIN rows /\ k # n
    BY <1>7, <1>a
  <2>2. rows[k].id = rows[n].id
    BY DEF Taken
  <2> QED BY <1>1, <2>1, <2>2, RowsDiffer
<1> QED BY <1>4, <1>5, <1>6, <1>7, <1>1, <1>a

\* What a step of the collector does to a row that is there, and what it adds.
RowStays(n) ==
  /\ n \in DOMAIN rows' /\ rows'[n].id = rows[n].id
  /\ made'[rows[n].id] = made[rows[n].id]
  /\ rows'[n].acked <=> rows[n].acked
  /\ rows[n].ready => rows'[n].ready
  /\ rows'[n].ready => \/ rows[n].ready /\ rows'[n] = rows[n]
                       \/ rows'[n].photo /\ rows'[n].ocr

RowWaits(n) == n > Len(rows) /\ ~rows'[n].ready /\ ~rows'[n].acked

LEMMA TakenKeeps ==
  ASSUME TypeOK, TypeOK', InOrder, Taken, taken' = taken, importing' = importing, epoch' = epoch,
         \A n \in DOMAIN rows : RowStays(n),
         \A n \in DOMAIN rows' : n \in DOMAIN rows \/ RowWaits(n),
         Len(rows) <= Len(rows')
  PROVE  Taken'
<1>a. /\ Len(rows) \in Nat /\ DOMAIN rows = 1..Len(rows)
      /\ Len(taken) \in Nat /\ DOMAIN taken = 1..Len(taken)
      /\ Len(taken) <= Len(rows) /\ Len(rows') \in Nat
  BY Sizes, LenProperties DEF Taken, TypeOK
<1>1. Len(taken') <= Len(rows')
  BY <1>a
<1>2. \A n \in DOMAIN taken' : taken'[n] = rows'[n].id /\ rows'[n].ready
  <2>1. DOMAIN taken \subseteq DOMAIN rows
    BY <1>a
  <2> QED BY <2>1 DEF Taken, RowStays
<1>3. ASSUME NEW n \in DOMAIN rows'
      PROVE  /\ rows'[n].acked => n <= Len(taken')
             /\ n < Len(taken') => rows'[n].acked
             /\ rows'[n].ready => \/ rows'[n].photo /\ rows'[n].ocr
                                  \/ made'[rows'[n].id].epoch < epoch'
  <2>1. CASE n \in DOMAIN rows
    BY <2>1 DEF Taken, RowStays
  <2>2. CASE RowWaits(n)
    <3>1. n \in Nat
      <4>1. Len(rows') \in Nat /\ DOMAIN rows' = 1..Len(rows')
        BY LenProperties DEF TypeOK
      <4> QED BY <4>1
    <3> QED BY <2>2, <3>1, <1>a DEF RowWaits
  <2> QED BY <2>1, <2>2
<1>4. importing' # 0 => Len(taken') # 0 /\ importing' = taken'[Len(taken')]
  BY DEF Taken
<1> QED BY <1>1, <1>2, <1>3, <1>4 DEF Taken

\* A step that leaves the file, the CRM and the epoch alone.
LEMMA TakenQuiet ==
  ASSUME TypeOK, TypeOK', InOrder, Taken, taken' = taken, importing' = importing, epoch' = epoch,
         rows' = rows, \A i \in DOMAIN made : made'[i] = made[i]
  PROVE  Taken'
<1>1. \A n \in DOMAIN rows : made'[rows[n].id] = made[rows[n].id]
  BY RowsAreMade
<1>2. Len(rows) <= Len(rows')
  BY Sizes
<1>3. \A n \in DOMAIN rows : RowStays(n)
  BY <1>1 DEF RowStays
<1> QED BY <1>2, <1>3, TakenKeeps

LEMMA FlushTaken ==
  ASSUME TypeOK, TypeOK', InOrder, Taken, Flush
  PROVE  Taken'
<1>a. /\ pending # <<>> /\ Head(pending) \in Writes
      /\ made' = made /\ epoch' = epoch /\ taken' = taken /\ importing' = importing
  BY FlushedHead DEF Flush, TypeOK, crm
<1>b. Len(rows) \in Nat /\ DOMAIN rows = 1..Len(rows) /\ \A n \in DOMAIN rows : rows[n] \in Rows
  BY Sizes
<1>1. CASE Head(pending).op = "put"
  <2>1. /\ Len(rows') = Len(rows) + 1 /\ DOMAIN rows' = 1..Len(rows) + 1
        /\ \A n \in DOMAIN rows : rows'[n] = rows[n]
        /\ ~rows'[Len(rows) + 1].ready /\ ~rows'[Len(rows) + 1].acked
    <3>1. rows' = PutRow(Head(pending).id)
      BY <1>1 DEF Flush
    <3> QED BY <3>1, <1>a, <1>1, PutAppends
  <2>2. \A n \in DOMAIN rows' : n \in DOMAIN rows \/ RowWaits(n)
    BY <2>1, <1>b DEF RowWaits
  <2>3. Len(rows) <= Len(rows') /\ \A n \in DOMAIN rows : n \in DOMAIN rows'
    BY <2>1, <1>b
  <2>4. \A n \in DOMAIN rows : RowStays(n)
    BY <2>1, <2>3, <1>a DEF RowStays
  <2> QED BY <2>2, <2>3, <2>4, <1>a, TakenKeeps
<1>2. CASE Head(pending).op # "put"
  <2>1. Head(pending).id \in Ids /\ Head(pending).part \in {"photo", "ocr"}
    BY <1>a, <1>2 DEF Writes
  <2>2. rows' = FinishRow(Head(pending).id, Head(pending).part)
    BY <1>2 DEF Flush
  <2>3. SameRows(rows')
    BY <2>1, <2>2, FinishRowKeeps DEF TypeOK
  <2>4. Len(rows) <= Len(rows') /\ DOMAIN rows' = DOMAIN rows
        /\ \A n \in DOMAIN rows : rows'[n].id = rows[n].id
    BY <2>3, <1>b DEF SameRows
  <2>5. \A n \in DOMAIN rows : RowStays(n)
    <3> TAKE n \in DOMAIN rows
    <3>1. rows[n] \in Rows
      BY <1>b
    <3>2. CASE rows[n].id # Head(pending).id \/ rows[n].ready
      <4>1. rows'[n] = rows[n]
        BY <2>2, <3>2 DEF FinishRow
      <4> QED BY <4>1, <2>4, <1>a DEF RowStays
    <3>3. CASE rows[n].id = Head(pending).id /\ ~rows[n].ready
      <4> DEFINE photo == rows[n].photo \/ Head(pending).part = "photo"
                 ocr == rows[n].ocr \/ Head(pending).part = "ocr"
      <4>1. rows'[n] = [rows[n] EXCEPT !.photo = photo, !.ocr = ocr, !.ready = photo /\ ocr]
        BY <2>2, <3>3 DEF FinishRow
      <4> HIDE DEF photo, ocr
      <4>2. /\ rows'[n].acked = rows[n].acked /\ rows'[n].ready = (photo /\ ocr)
            /\ rows'[n].photo = photo /\ rows'[n].ocr = ocr
        BY <3>1, <4>1 DEF Rows
      <4> QED BY <3>3, <4>2, <2>4, <1>a DEF RowStays
    <3> QED BY <3>2, <3>3
  <2> QED BY <2>4, <2>5, <1>a, TakenKeeps
<1> QED BY <1>1, <1>2

LEMMA ImportTaken ==
  ASSUME TypeOK, InOrder, Taken, Import
  PROVE  Taken'
<1>1. PICK n \in HeadRow :
        /\ importing' = rows[n].id
        /\ taken' = IF Known(rows[n].id) THEN taken ELSE Append(taken, rows[n].id)
  BY DEF Import
<1>2. rows' = rows /\ made' = made /\ epoch' = epoch
  BY DEF Import, disk
<1>3. /\ n \in DOMAIN rows /\ rows[n].id \in Ids /\ rows[n].ready /\ ~rows[n].acked
      /\ \A m \in DOMAIN rows : m < n => rows[m].acked
      /\ \/ n = Len(taken) /\ Known(rows[n].id) /\ taken[n] = rows[n].id
         \/ n = Len(taken) + 1 /\ ~Known(rows[n].id)
  BY HeadIsNext
<1>a. /\ Len(rows) \in Nat /\ DOMAIN rows = 1..Len(rows)
      /\ Len(taken) \in Nat /\ DOMAIN taken = 1..Len(taken)
      /\ Len(taken) <= Len(rows)
  BY Sizes DEF Taken
<1>4. CASE n = Len(taken) /\ Known(rows[n].id)
  <2>1. taken' = taken /\ importing' = taken[Len(taken)] /\ Len(taken) # 0
    BY <1>1, <1>3, <1>4, <1>a
  <2> QED BY <2>1, <1>2 DEF Taken
<1>5. CASE n = Len(taken) + 1 /\ ~Known(rows[n].id)
  <2>1. taken' = Append(taken, rows[n].id)
    BY <1>1, <1>5
  <2>2. /\ Len(taken') = Len(taken) + 1 /\ DOMAIN taken' = 1..Len(taken) + 1
        /\ \A k \in DOMAIN taken : taken'[k] = taken[k]
        /\ taken'[Len(taken) + 1] = rows[n].id
    BY <2>1, <1>3, <1>a, AppendProperties, LenProperties DEF TypeOK
  <2>3. Len(taken') = n /\ n \in Nat /\ n <= Len(rows) /\ Len(taken') <= Len(rows')
    <3>1. n \in 1..Len(rows) /\ Len(taken') = n
      BY <2>2, <1>3, <1>5, <1>a
    <3> QED BY <3>1, <1>2, <1>a
  <2>4. \A k \in DOMAIN taken' : taken'[k] = rows'[k].id /\ rows'[k].ready
    <3>1. \A k \in DOMAIN taken' : k \in DOMAIN taken \/ k = n
      BY <2>2, <1>5, <1>a
    <3> QED BY <3>1, <2>2, <1>2, <1>3, <1>5 DEF Taken
  <2>5. \A k \in DOMAIN rows' :
          /\ rows'[k].acked => k <= Len(taken')
          /\ k < Len(taken') => rows'[k].acked
    <3> SUFFICES ASSUME NEW k \in DOMAIN rows
                 PROVE  (rows[k].acked => k <= n) /\ (k < n => rows[k].acked)
      BY <2>3, <1>2
    <3>1. rows[k].acked => k <= Len(taken)
      BY DEF Taken
    <3>2. n = Len(taken) + 1 /\ k \in Nat /\ n \in Nat
      BY <1>5, <1>a
    <3>3. rows[k].acked => k <= n
      BY <3>1, <3>2, <1>a
    <3>4. k < n => rows[k].acked
      BY <1>3
    <3> QED BY <3>3, <3>4
  <2>6. \A k \in DOMAIN rows' :
          rows'[k].ready => \/ rows'[k].photo /\ rows'[k].ocr
                            \/ made'[rows'[k].id].epoch < epoch'
    BY <1>2 DEF Taken
  <2>7. Len(taken') # 0 /\ importing' = taken'[Len(taken')]
    BY <2>2, <1>1, <1>a
  <2> QED BY <2>3, <2>4, <2>5, <2>6, <2>7 DEF Taken
<1> QED BY <1>3, <1>4, <1>5

LEMMA AckTaken ==
  ASSUME TypeOK, InOrder, Taken, Ack
  PROVE  Taken'
<1>1. /\ taken' = taken /\ made' = made /\ epoch' = epoch /\ importing # 0 /\ importing' = 0
  BY DEF Ack, collector
<1>2. /\ DOMAIN rows' = DOMAIN rows
      /\ \A n \in DOMAIN rows :
           rows'[n] = IF rows[n].id = importing /\ rows[n].ready
                      THEN [rows[n] EXCEPT !.acked = TRUE] ELSE rows[n]
  BY DEF Ack
<1>a. /\ Len(rows) \in Nat /\ DOMAIN rows = 1..Len(rows) /\ Len(rows') = Len(rows)
      /\ Len(taken) \in Nat /\ DOMAIN taken = 1..Len(taken)
      /\ Len(taken) <= Len(rows)
      /\ \A n \in DOMAIN rows : rows[n] \in Rows
  BY Sizes, AckKeeps DEF Taken, SameRows, TypeOK
<1>3. \A n \in DOMAIN rows :
        /\ rows'[n].id = rows[n].id /\ rows'[n].ready = rows[n].ready
        /\ rows'[n].photo = rows[n].photo /\ rows'[n].ocr = rows[n].ocr
        /\ rows[n].acked => rows'[n].acked
        /\ rows'[n].acked => rows[n].acked \/ rows[n].id = importing
  BY <1>2, <1>a DEF Rows
<1>4. Len(taken) # 0 /\ importing = rows[Len(taken)].id /\ Len(taken) \in DOMAIN rows
  BY <1>1, <1>a DEF Taken
<1>5. \A n \in DOMAIN rows : rows[n].id = importing => n = Len(taken)
  BY <1>4, RowsDiffer
<1>6. \A n \in DOMAIN rows' :
        /\ rows'[n].acked => n <= Len(taken')
        /\ n < Len(taken') => rows'[n].acked
        /\ rows'[n].ready => \/ rows'[n].photo /\ rows'[n].ocr
                             \/ made'[rows'[n].id].epoch < epoch'
  <2> TAKE n \in DOMAIN rows'
  <2>1. n \in DOMAIN rows /\ n \in Nat
    BY <1>2, <1>a
  <2>2. rows'[n].acked => n <= Len(taken')
    BY <1>1, <1>3, <1>5, <2>1, <1>a DEF Taken
  <2>3. n < Len(taken') => rows'[n].acked
    BY <1>1, <1>3, <2>1 DEF Taken
  <2>4. rows'[n].ready => \/ rows'[n].photo /\ rows'[n].ocr
                          \/ made'[rows'[n].id].epoch < epoch'
    BY <1>1, <1>3, <2>1 DEF Taken
  <2> QED BY <2>2, <2>3, <2>4
<1>7. \A n \in DOMAIN taken' : taken'[n] = rows'[n].id /\ rows'[n].ready
  BY <1>1, <1>3, <1>a DEF Taken
<1> QED BY <1>1, <1>6, <1>7, <1>a DEF Taken

LEMMA RestartTaken ==
  ASSUME TypeOK, Counted, InOrder, Taken, Restart
  PROVE  Taken'
<1>1. /\ taken' = taken /\ importing' = importing /\ made' = made /\ epoch' = epoch + 1
      /\ DOMAIN rows' = DOMAIN rows
      /\ \A n \in DOMAIN rows : rows'[n] = [rows[n] EXCEPT !.ready = TRUE]
  BY DEF Restart, Recovered, crm
<1>a. /\ Len(rows') = Len(rows) /\ DOMAIN taken \subseteq DOMAIN rows
      /\ \A n \in DOMAIN rows : rows[n] \in Rows
  BY Sizes, RecoveredKeeps DEF Taken, SameRows, TypeOK, Restart
<1>2. \A n \in DOMAIN rows : /\ rows'[n].id = rows[n].id /\ rows'[n].ready
                             /\ rows'[n].acked = rows[n].acked
  BY <1>1, <1>a DEF Rows
<1>3. \A n \in DOMAIN rows : made'[rows'[n].id].epoch < epoch'
  <2> TAKE n \in DOMAIN rows
  <2>1. rows[n].id \in DOMAIN made
    BY RowsAreMade
  <2>2. made[rows[n].id].epoch \in 1..MaxEpoch /\ made[rows[n].id].epoch <= epoch
    BY <2>1, Sizes DEF Counted, Events
  <2>3. epoch \in 1..MaxEpoch /\ MaxEpoch \in Nat
    BY OutboxAssumption DEF TypeOK
  <2> QED BY <1>1, <1>2, <2>2, <2>3
<1>4. Len(taken') <= Len(rows')
  BY <1>1, <1>a DEF Taken
<1>5. \A n \in DOMAIN taken' : taken'[n] = rows'[n].id /\ rows'[n].ready
  BY <1>1, <1>2, <1>a DEF Taken
<1>6. \A n \in DOMAIN rows' :
        /\ rows'[n].acked => n <= Len(taken')
        /\ n < Len(taken') => rows'[n].acked
  BY <1>1, <1>2 DEF Taken
<1>7. importing' # 0 => Len(taken') # 0 /\ importing' = taken'[Len(taken')]
  BY <1>1 DEF Taken
<1> QED BY <1>1, <1>3, <1>4, <1>5, <1>6, <1>7 DEF Taken

LEMMA StepTaken ==
  ASSUME TypeOK, TypeOK', Counted, InOrder, Taken, [Next]_vars
  PROVE  Taken'
<1>1. CASE CaptureTruck
  BY <1>1, CaptureMakes, TakenQuiet DEF CaptureTruck, disk, crm, MakesEvent
<1>2. CASE WagonArrives
  BY <1>2, ArrivesMakes, TakenQuiet DEF WagonArrives, disk, crm, MakesEvent
<1>3. CASE WagonDeparts
  BY <1>3, DepartsMakes, TakenQuiet DEF WagonDeparts, disk, crm, MakesEvent
<1>4. ASSUME NEW w \in workers, WorkerDone(w) PROVE Taken'
  BY <1>4, TakenQuiet DEF WorkerDone, disk, crm
<1>5. CASE Comes \/ Leaves \/ ArrivalRemembered \/ DepartureRemembered \/ Crash \/ UNCHANGED vars
  BY <1>5, TakenQuiet
  DEF Comes, Leaves, ArrivalRemembered, DepartureRemembered, Crash, vars, collector, disk, crm
<1>6. CASE ImporterDies
  BY <1>6 DEF ImporterDies, Taken, collector, disk
<1>7. CASE StandingBusy \/ StableReading
  BY <1>7, TakenQuiet DEF StandingBusy, StableReading, disk, crm
<1> QED
  BY <1>1, <1>2, <1>3, <1>4, <1>5, <1>6, <1>7, FlushTaken, RestartTaken, ImportTaken, AckTaken DEF Next

-----------------------------------------------------------------------------
(* The invariant and what follows from it. *)

LEMMA InitIInv ==
  ASSUME Init
  PROVE  IInv
<1>1. /\ made = <<>> /\ pending = <<>> /\ rows = <<>> /\ taken = <<>>
      /\ DOMAIN made = {} /\ DOMAIN pending = {} /\ DOMAIN rows = {} /\ DOMAIN taken = {}
      /\ Len(made) = 0 /\ Len(rows) = 0 /\ Len(taken) = 0
  BY EmptySeq DEF Init
<1>2. TypeOK
  <2>1. 0 \in 0..MaxEvents /\ 0 \in 0..MaxStops /\ 1 \in 1..MaxEpoch
    BY EventBound, OutboxAssumption
  <2>2. made \in Seq(Events) /\ pending \in Seq(Writes) /\ rows \in Seq(Rows) /\ taken \in Seq(Ids)
    BY <1>1, EmptySeq
  <2> QED BY <2>1, <2>2 DEF Init, TypeOK
<1>3. Counted
  <2>1. 0 <= MaxEvents
    BY EventBound
  <2> QED BY <1>1, <2>1 DEF Init, Counted
<1>4. \A i : ~Recorded(i)
  BY <1>1 DEF Recorded, OnDisk, InLine
<1>5. InOrder
  BY <1>1, <1>4 DEF Init, InOrder, CaptureOrder, LineInOrder, DiskBeforeLine, RecordedIsMade
<1>6. Kept
  BY <1>1, <1>4 DEF Init, Kept, LineIsFresh, OnItsWay, NoGaps, Recorded
<1>7. OneStop
  BY <1>1 DEF Init, OneStop
<1>8. Taken
  BY <1>1 DEF Init, Taken
<1> QED BY <1>2, <1>3, <1>5, <1>6, <1>7, <1>8 DEF IInv

LEMMA StepIInv ==
  ASSUME IInv, [Next]_vars
  PROVE  IInv'
<1>1. TypeOK' /\ Counted'
  BY StepTypes DEF IInv
<1>2. InOrder'
  BY <1>1, StepOrder DEF IInv
<1>3. Kept'
  BY <1>1, <1>2, StepKept DEF IInv
<1>4. OneStop'
  BY <1>1, <1>2, StepOneStop DEF IInv
<1>5. Taken'
  BY <1>1, StepTaken DEF IInv
<1> QED BY <1>1, <1>2, <1>3, <1>4, <1>5 DEF IInv

\* For any number of vehicles, crashes of the collector and deaths of the
\* importer, everything below holds: one induction on the steps of outbox.py,
\* the collectors and the importers.
THEOREM Invariance == Spec => []IInv
<1>1. Init => IInv
  BY InitIInv
<1>2. IInv /\ [Next]_vars => IInv'
  BY StepIInv
<1> QED BY <1>1, <1>2, PTL DEF Spec

\* The variables keep their types; in particular the numbers of the events
\* never run out.
THEOREM TypeCorrect == Spec => []TypeOK
<1>1. IInv => TypeOK
  BY DEF IInv
<1> QED BY <1>1, Invariance, PTL

\* The file holds the weighings in the order of capture.
THEOREM OrderOfCapture == Spec => []CaptureOrder
<1>1. IInv => CaptureOrder
  BY DEF IInv, InOrder
<1> QED BY <1>1, Invariance, PTL

\* A row the importer has acknowledged is one the CRM has committed.
THEOREM NothingAckedUntaken == Spec => []AckedIsTaken
<1>1. ASSUME IInv PROVE AckedIsTaken
  <2>1. TypeOK /\ Taken
    BY <1>1 DEF IInv
  <2>2. ASSUME NEW n \in DOMAIN rows, rows[n].acked PROVE Known(rows[n].id)
    <3>1. n <= Len(taken)
      BY <2>1, <2>2 DEF Taken
    <3>2. n \in DOMAIN taken
      BY <2>1, <3>1, Sizes
    <3>3. taken[n] = rows[n].id
      BY <2>1, <3>2 DEF Taken
    <3> QED BY <3>2, <3>3 DEF Known
  <2> QED BY <2>2 DEF AckedIsTaken
<1> QED BY <1>1, Invariance, PTL

\* What the CRM takes carries its photo and its plate, unless the collector
\* that was fetching them died.
THEOREM TakenWithEvidence == Spec => []EvidenceTravels
<1>1. ASSUME IInv PROVE EvidenceTravels
  <2>1. TypeOK /\ InOrder /\ Taken
    BY <1>1 DEF IInv
  <2>2. ASSUME NEW n \in DOMAIN rows, Known(rows[n].id)
        PROVE  (rows[n].photo /\ rows[n].ocr) \/ made[rows[n].id].epoch < epoch
    <3>1. PICK k \in DOMAIN taken : taken[k] = rows[n].id
      BY <2>2 DEF Known
    <3>2. rows[k].id = rows[n].id /\ rows[k].ready
      BY <2>1, <3>1 DEF Taken
    <3>3. k \in DOMAIN rows
      BY <2>1, Sizes DEF Taken
    <3>4. k = n
      BY <2>1, <3>2, <3>3, RowsDiffer
    <3> QED BY <2>1, <3>2, <3>3, <3>4 DEF Taken
  <2> QED BY <2>2 DEF EvidenceTravels
<1> QED BY <1>1, Invariance, PTL

\* While the collector lives, each weighing it made is on disk or in the line of
\* the writer, but for the arrivals that met a locked state file.
THEOREM LineKeepsAll == Spec => []NothingDropped
<1>1. IInv => NothingDropped
  BY DEF IInv, Kept, OnItsWay, NothingDropped, Recorded
<1> QED BY <1>1, Invariance, PTL

\* A stop under the arch has one arrival in the file, whatever restarts happen
\* while the wagon stands there.
THEOREM OneArrival == Spec => []OneArrivalPerStop
<1>1. ASSUME IInv PROVE OneArrivalPerStop
  <2>1. TypeOK /\ InOrder /\ OneStop
    BY <1>1 DEF IInv
  <2>2. ASSUME NEW m \in DOMAIN rows, NEW n \in DOMAIN rows,
               made[rows[m].id].kind = "arrival", made[rows[n].id].kind = "arrival",
               made[rows[m].id].visit = made[rows[n].id].visit
        PROVE  m = n
    <3>1. Arrived(rows[m].id) /\ Arrived(rows[n].id)
      BY <2>1, <2>2, RowsAreMade DEF Arrived, Recorded
    <3>2. rows[m].id = rows[n].id
      BY <2>1, <2>2, <3>1, RowsAreMade DEF OneStop
    <3> QED BY <2>1, <3>2, RowsDiffer
  <2> QED BY <2>2 DEF OneArrivalPerStop
<1> QED BY <1>1, Invariance, PTL

\* The departure of a stop follows its arrival in the file when one collector
\* made both and the arrival met no locked state file.
THEOREM ArrivalBeforeDeparture == Spec => []DepartureFindsArrival
<1>1. ASSUME IInv PROVE DepartureFindsArrival
  <2>1. TypeOK /\ Counted /\ InOrder /\ Kept
    BY <1>1 DEF IInv
  <2>2. ASSUME NEW n \in DOMAIN rows, made[rows[n].id].kind = "departure",
               made[made[rows[n].id].stop].epoch = made[rows[n].id].epoch,
               made[rows[n].id].stop \notin missed
        PROVE  ArrivalBefore(n)
    <3> DEFINE i == rows[n].id
               a == made[i].stop
    <3>1. i \in DOMAIN made /\ a \in Ids /\ a < i
      <4>1. i \in DOMAIN made
        BY <2>1, RowsAreMade
      <4>2. made[i] \in Events
        BY <2>1, <4>1, Sizes
      <4> QED BY <2>1, <2>2, <4>1, <4>2 DEF Counted, Events
    <3>2. a \in DOMAIN made
      <4>1. a \in Nat \ {0}
        BY <3>1, EventBound
      <4> HIDE DEF a, i
      <4> QED BY <2>1, <3>1, <4>1, Sizes
    <3>3. OnDisk(a)
      BY <2>1, <2>2, <3>1, <3>2 DEF Kept, NoGaps
    <3>4. PICK m \in DOMAIN rows : rows[m].id = a
      BY <3>3 DEF OnDisk
    <3>5. m \in Nat /\ n \in Nat /\ m >= 1 /\ a \in Nat /\ i \in Nat
      <4>1. a \in Nat
        BY <3>1, EventBound
      <4>2. i \in Nat
        BY <2>1, <3>1, Sizes
      <4>3. m \in Nat /\ n \in Nat /\ m >= 1
        BY <2>1, Sizes
      <4> QED BY <4>1, <4>2, <4>3
    <3>6. m < n
      <4>1. m # n
        BY <3>1, <3>4, <3>5
      <4>2. ~(n < m)
        BY <2>1, <3>1, <3>4, <3>5 DEF InOrder, CaptureOrder
      <4> QED BY <4>1, <4>2, <3>5
    <3> QED BY <3>4, <3>5, <3>6 DEF ArrivalBefore
  <2> QED BY <2>2 DEF DepartureFindsArrival
<1> QED BY <1>1, Invariance, PTL

-----------------------------------------------------------------------------
(* The outbox implements the queue. *)

IdsOf(rs) == [n \in DOMAIN rs |-> rs[n].id]

LEMMA IdsOfRows ==
  ASSUME NEW rs \in Seq(Rows)
  PROVE  /\ IdsOf(rs) \in Seq(Ids) /\ Len(IdsOf(rs)) = Len(rs)
         /\ DOMAIN IdsOf(rs) = DOMAIN rs
         /\ \A n \in DOMAIN rs : IdsOf(rs)[n] = rs[n].id
<1> DEFINE ids == [n \in DOMAIN rs |-> rs[n].id]
<1>1. Len(rs) \in Nat /\ DOMAIN rs = 1..Len(rs)
  BY LenProperties
<1>2. \A n \in DOMAIN rs : rs[n].id \in Ids
  <2>1. \A n \in DOMAIN rs : rs[n] \in Rows
    BY <1>1, ElementOfSeq
  <2> QED BY <2>1 DEF Rows
<1>3. ids \in [1..Len(rs) -> Ids]
  BY <1>1, <1>2
<1>4. DOMAIN ids = DOMAIN rs /\ \A n \in DOMAIN rs : ids[n] = rs[n].id
  OBVIOUS
<1> HIDE DEF ids
<1>5. ids \in Seq(Ids)
  BY <1>1, <1>3, SeqDef
<1>6. Len(ids) = Len(rs)
  BY <1>1, <1>3, <1>5, LenProperties
<1> QED BY <1>4, <1>5, <1>6 DEF ids, IdsOf

LEMMA QuietQueue ==
  ASSUME SameRows(rows'), taken' = taken
  PROVE  UNCHANGED Queue!vars
<1>1. IdsOf(rows') = IdsOf(rows)
  BY DEF SameRows, IdsOf
<1> QED BY <1>1 DEF Queue!vars, IdsOf

LEMMA FlushQueue ==
  ASSUME TypeOK, TypeOK', InOrder, Flush
  PROVE  [Queue!Next]_(Queue!vars)
<1>a. pending # <<>> /\ Head(pending) \in Writes /\ taken' = taken
  BY FlushedHead DEF Flush, TypeOK, crm
<1>1. CASE Head(pending).op = "put"
  <2> DEFINE i == Head(pending).id
  <2>1. /\ i \in Ids /\ ~OnDisk(i) /\ Len(rows') = Len(rows) + 1
        /\ \A n \in DOMAIN rows : rows'[n] = rows[n]
        /\ rows'[Len(rows) + 1].id = i
    <3>1. rows' = PutRow(Head(pending).id)
      BY <1>1 DEF Flush
    <3> QED BY <3>1, <1>a, <1>1, PutAppends
  <2> HIDE DEF i
  <2>2. /\ Len(rows) \in Nat /\ DOMAIN rows = 1..Len(rows)
        /\ DOMAIN rows' = 1..Len(rows')
    BY Sizes, LenProperties DEF TypeOK
  <2>3. IdsOf(rows') = Append(IdsOf(rows), i)
    <3> DEFINE new == Append(IdsOf(rows), i)
    <3>1. /\ IdsOf(rows) \in Seq(Ids) /\ Len(IdsOf(rows)) = Len(rows)
          /\ \A n \in DOMAIN rows : IdsOf(rows)[n] = rows[n].id
      BY IdsOfRows DEF TypeOK
    <3>2. /\ new \in Seq(Ids) /\ Len(new) = Len(rows) + 1
          /\ \A n \in 1..Len(rows) : new[n] = IdsOf(rows)[n]
          /\ new[Len(rows) + 1] = i
      BY <3>1, <2>1, AppendProperties
    <3>3. /\ IdsOf(rows') \in Seq(Ids) /\ Len(IdsOf(rows')) = Len(rows')
          /\ \A n \in DOMAIN rows' : IdsOf(rows')[n] = rows'[n].id
      BY IdsOfRows DEF TypeOK
    <3> HIDE DEF new
    <3>4. \A n \in 1..Len(new) : IdsOf(rows')[n] = new[n]
      BY <2>1, <2>2, <3>1, <3>2, <3>3
    <3>5. IdsOf(rows') = new
      BY <2>1, <3>2, <3>3, <3>4, SeqEqual
    <3> QED BY <3>5 DEF new
  <2>4. \A n \in DOMAIN IdsOf(rows) : IdsOf(rows)[n] # i
    BY <2>1 DEF OnDisk, IdsOf
  <2> QED BY <1>a, <2>1, <2>3, <2>4 DEF Queue!Next, Queue!Record, IdsOf
<1>2. CASE Head(pending).op # "put"
  <2>1. Head(pending).id \in Ids /\ Head(pending).part \in {"photo", "ocr"}
    BY <1>a, <1>2 DEF Writes
  <2>2. rows' = FinishRow(Head(pending).id, Head(pending).part)
    BY <1>2 DEF Flush
  <2>3. SameRows(rows')
    BY <2>1, <2>2, FinishRowKeeps DEF TypeOK
  <2> QED BY <1>a, <2>3, QuietQueue
<1> QED BY <1>1, <1>2

LEMMA ImportQueue ==
  ASSUME TypeOK, InOrder, Taken, Import
  PROVE  [Queue!Next]_(Queue!vars)
<1>1. PICK n \in HeadRow : taken' = IF Known(rows[n].id) THEN taken ELSE Append(taken, rows[n].id)
  BY DEF Import
<1>2. /\ n \in DOMAIN rows
      /\ Known(rows[n].id) \/ (n = Len(taken) + 1 /\ ~Known(rows[n].id))
  BY HeadIsNext
<1>3. rows' = rows /\ SameRows(rows')
  BY UnchangedRows DEF Import, disk
<1>4. CASE Known(rows[n].id)
  BY <1>1, <1>3, <1>4, QuietQueue
<1>5. CASE n = Len(taken) + 1 /\ ~Known(rows[n].id)
  <2>1. Len(taken) < Len(rows)
    BY <1>2, <1>5, Sizes
  <2>2. IdsOf(rows') = IdsOf(rows)
    BY <1>3
  <2>3. Len(IdsOf(rows)) = Len(rows) /\ IdsOf(rows)[n] = rows[n].id
    BY <1>2, IdsOfRows DEF TypeOK
  <2> QED BY <1>1, <1>5, <2>1, <2>2, <2>3 DEF Queue!Next, Queue!Take, IdsOf
<1> QED BY <1>2, <1>4, <1>5

\* Every step of the collector, of its file and of the importer records a new
\* weighing, has the next one taken, or changes nothing the CRM can see.
LEMMA StepQueue ==
  ASSUME IInv, IInv', [Next]_vars
  PROVE  [Queue!Next]_(Queue!vars)
<1>a. TypeOK /\ TypeOK' /\ InOrder /\ Taken
  BY DEF IInv
<1>1. CASE Flush
  BY <1>a, <1>1, FlushQueue
<1>2. CASE Import
  BY <1>a, <1>2, ImportQueue
<1>3. ASSUME SameRows(rows'), taken' = taken PROVE [Queue!Next]_(Queue!vars)
  BY <1>3, QuietQueue
<1>4. CASE Restart
  BY <1>a, <1>3, <1>4, RecoveredKeeps DEF Restart, crm, TypeOK
<1>5. CASE Ack
  BY <1>a, <1>3, <1>5, AckKeeps DEF Ack, TypeOK
<1>6. ASSUME NEW w \in workers, WorkerDone(w) PROVE [Queue!Next]_(Queue!vars)
  BY <1>a, <1>3, <1>6, UnchangedRows DEF WorkerDone, disk, crm
<1>7. CASE CaptureTruck \/ WagonArrives \/ ArrivalRemembered \/ WagonDeparts \/ DepartureRemembered
  BY <1>a, <1>3, <1>7, UnchangedRows
  DEF CaptureTruck, WagonArrives, ArrivalRemembered, WagonDeparts, DepartureRemembered, disk, crm
<1>8. CASE Comes \/ Leaves \/ Crash \/ ImporterDies \/ UNCHANGED vars
  BY <1>a, <1>3, <1>8, UnchangedRows DEF Comes, Leaves, Crash, ImporterDies, vars, disk, crm
<1>9. CASE StandingBusy \/ StableReading
  BY <1>a, <1>3, <1>9, UnchangedRows DEF StandingBusy, StableReading, disk, crm
<1> QED BY <1>1, <1>2, <1>4, <1>5, <1>6, <1>7, <1>8, <1>9 DEF Next

\* The outbox implements the queue it promises: no crash, retry or repeated
\* import takes a weighing twice, skips one or changes their order.  (That each
\* is taken in the end is checked with TLC, as ImplementsQueue.)
THEOREM ImplementsQueueSafely == Spec => Queue!SafeSpec
<1>1. Init => Queue!Init
  <2> SUFFICES ASSUME Init PROVE Queue!Init
    OBVIOUS
  <2>1. rows = <<>> /\ taken = <<>> /\ DOMAIN rows = {}
    BY EmptySeq DEF Init
  <2>2. [n \in DOMAIN rows |-> rows[n].id] = <<>>
    BY <2>1
  <2> QED BY <2>1, <2>2 DEF Queue!Init
<1>2. IInv /\ IInv' /\ [Next]_vars => [Queue!Next]_(Queue!vars)
  BY StepQueue
<1> QED BY <1>1, <1>2, Invariance, PTL DEF Spec, Queue!SafeSpec
=============================================================================
