----------------------------- MODULE MCWagonArch -----------------------------
(* A small instance of WagonArch for TLC. *)
EXTENDS WagonArch

\* A full wagon whose number is read, a half empty one whose is not.
SomeArrivals == {[number |-> 1, full |-> 2, soon |-> TRUE],
                 [number |-> 0, full |-> 1, soon |-> TRUE]}
SomeDepartures == {[exit |-> 1, gap |-> FALSE]}

ExpectedTrip(number, silo) ==
  [Trip(number, "expected", 0) EXCEPT !.planned = TRUE, !.silo = silo]
Starts == {<<ExpectedTrip(0, FALSE)>>, <<ExpectedTrip(1, FALSE)>>, <<ExpectedTrip(1, TRUE)>>}
=============================================================================
