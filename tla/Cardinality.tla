----------------------------- MODULE Cardinality -----------------------------
(***************************************************************************)
(* The cardinality admission processor of src/processors/cardinality.rs:  *)
(* a MultiCuckoo, a FIFO of Buckets time-bounded cuckoo filters, behind    *)
(* one mutex.  provide_statsd tests an event against the oldest filter and *)
(* rejects it when it is absent and the oldest filter's len() is over the  *)
(* size limit; otherwise it adds the event to every filter.  tick rotates  *)
(* the oldest filter out once its valid_until has passed.                  *)
(*                                                                         *)
(* A filter is a bag of fingerprints.  An identity is one fingerprint (no  *)
(* false positives are modelled).  CuckooFilter::add does not deduplicate: *)
(* every add stores one more copy and len() counts copies.  One            *)
(* fingerprint has CopySlots places (two candidate buckets of four          *)
(* entries); an add with both full returns NotEnoughSpace and leaves the   *)
(* filter as it was.  Time counts ticks of the processor; Window is the    *)
(* rotation window in ticks.  SystemTime::now() is a wall clock: ClockSpec *)
(* adds steps of ClockStep ticks, forward or back, to the ticks of Spec.   *)
(***************************************************************************)
EXTENDS Integers, Sequences, FiniteSets, Bags, BagsExt

CONSTANTS
    Ids,        \* metric identities (model values)
    Buckets,    \* buckets
    Window,     \* rotate_after_seconds, in ticks
    SizeLimit,  \* size_limit
    CopySlots,  \* places of one fingerprint in a cuckoo filter (2 * 4)
    MaxTime,    \* last tick of a behaviour
    ClockStep,  \* size of a step of the wall clock, in ticks
    MaxClockSteps \* steps of the wall clock in a behaviour

ASSUME /\ Buckets \in Nat \ {0}
       /\ Window \in Nat \ {0}
       /\ SizeLimit \in Nat
       /\ CopySlots \in Nat \ {0}
       /\ MaxTime \in Nat
       /\ ClockStep \in Nat \ {0}
       /\ MaxClockSteps \in Nat

Never == -1

VARIABLES
    now,        \* SystemTime::now(), in ticks
    filters,    \* MultiCuckoo.filters: <<[until, fps]>>, oldest first
    lastAdmit,  \* tick at which each identity was last admitted (history)
    verdict,    \* <<identity, admitted>> of the last provide_statsd this tick (history)
    clockSteps  \* steps of the wall clock so far

vars == <<now, filters, lastAdmit, verdict, clockSteps>>

\* TimeBoundedCuckoo::new
NewFilter(until) == [until |-> until, fps |-> EmptyBag]

\* MultiCuckoo::len and MultiCuckoo::contains look at the oldest filter only.
OldestLen == BagCardinality(filters[1].fps)
Contains(i) == BagIn(i, filters[1].fps)

\* Mutant of AddAll: the fingerprint's slots are never exhausted.
RECURSIVE AddAllUnbounded(_, _)
AddAllUnbounded(fs, i) ==
    IF fs = <<>> THEN <<>>
    ELSE << [Head(fs) EXCEPT !.fps = BagAdd(@, i)] >> \o AddAllUnbounded(Tail(fs), i)

\* MultiCuckoo::add: filter.add on each filter in turn, collected into a
\* Result; the collect stops at the first NotEnoughSpace, so the filters
\* after it do not get the fingerprint.
RECURSIVE AddAll(_, _)
AddAll(fs, i) ==
    IF fs = <<>> THEN <<>>
    ELSE IF CopiesIn(i, Head(fs).fps) < CopySlots
         THEN << [Head(fs) EXCEPT !.fps = BagAdd(@, i)] >> \o AddAll(Tail(fs), i)
         ELSE fs

\* MultiCuckoo::new at time t: valid_until = t + window * bucket.
MultiCuckooNew(t) == [k \in 1..Buckets |-> NewFilter(t + Window * k)]

\* Cardinality::new at time 0, with the configured buckets, window and
\* size limit (the constants).
Init ==
    /\ now = 0
    /\ filters = MultiCuckooNew(0)
    /\ lastAdmit = [i \in Ids |-> Never]
    /\ verdict = <<>>
    /\ clockSteps = 0

\* Mutant of Provide: the length is read from the newest filter.
ProvideNewestLen(i) ==
    IF ~Contains(i) /\ BagCardinality(filters[Buckets].fps) > SizeLimit
    THEN /\ verdict' = <<i, FALSE>>
         /\ UNCHANGED <<now, filters, lastAdmit, clockSteps>>
    ELSE /\ filters' = AddAll(filters, i)
         /\ lastAdmit' = [lastAdmit EXCEPT ![i] = now]
         /\ verdict' = <<i, TRUE>>
         /\ UNCHANGED <<now, clockSteps>>

\* Cardinality::provide_statsd, under the filter mutex.  The result of the
\* add is ignored: the event is admitted even when the add failed.
Provide(i) ==
    IF ~Contains(i) /\ OldestLen > SizeLimit
    THEN /\ verdict' = <<i, FALSE>>
         /\ UNCHANGED <<now, filters, lastAdmit, clockSteps>>
    ELSE /\ filters' = AddAll(filters, i)
         /\ lastAdmit' = [lastAdmit EXCEPT ![i] = now]
         /\ verdict' = <<i, TRUE>>
         /\ UNCHANGED <<now, clockSteps>>

\* Mutant of Rotate: the window is left out of the new valid_until.
RotateNoWindow(t) ==
    IF filters[1].until < t
    THEN filters' = Append(Tail(filters), NewFilter(t))
    ELSE UNCHANGED filters

\* Mutant of Rotate: window * (buckets + 2), one window too many.
RotateLongerWindow(t) ==
    IF filters[1].until < t
    THEN filters' = Append(Tail(filters), NewFilter(t + Window * (Buckets + 2)))
    ELSE UNCHANGED filters

\* MultiCuckoo::rotate: valid_until.duration_since(with_time) is an error
\* only when with_time is strictly later than valid_until.
Rotate(t) ==
    IF filters[1].until < t
    THEN filters' = Append(Tail(filters), NewFilter(t + Window * (Buckets + 1)))
    ELSE UNCHANGED filters

\* Processor::tick one tick later: Cardinality::rotate with the new time.
Tick ==
    /\ now < MaxTime
    /\ now' = now + 1
    /\ Rotate(now')
    /\ verdict' = <<>>
    /\ UNCHANGED <<lastAdmit, clockSteps>>

\* The wall clock is stepped (NTP, an operator, a resumed VM): the next
\* SystemTime::now() in Cardinality::rotate is ClockStep ticks later or
\* earlier.  Nothing in the processor observes the step itself.
ClockSteps ==
    /\ clockSteps < MaxClockSteps
    /\ \E d \in {ClockStep, -ClockStep} :
          /\ now + d \in 0..MaxTime
          /\ now' = now + d
    /\ clockSteps' = clockSteps + 1
    /\ UNCHANGED <<filters, lastAdmit, verdict>>

Next ==
    \/ \E i \in Ids : Provide(i)
    \/ Tick

Spec == Init /\ [][Next]_vars

\* The same processor under a wall clock that may be stepped.
ClockSpec == Init /\ [][Next \/ ClockSteps]_vars

-----------------------------------------------------------------------------
(* Properties                                                              *)

TypeOK ==
    /\ now \in 0..MaxTime
    /\ Len(filters) = Buckets
    /\ \A k \in 1..Buckets :
          /\ filters[k].until \in Nat
          /\ IsABag(filters[k].fps)
          /\ BagToSet(filters[k].fps) \subseteq Ids
          /\ \A i \in BagToSet(filters[k].fps) : CopiesIn(i, filters[k].fps) <= CopySlots
    /\ lastAdmit \in [Ids -> {Never} \cup 0..MaxTime]
    /\ verdict \in {<<>>} \cup (Ids \X BOOLEAN)
    /\ clockSteps \in 0..MaxClockSteps

Age(i) == now - lastAdmit[i]

(* The valid_until times of the FIFO strictly increase from the oldest to  *)
(* the newest filter, through every rotation (spec section 3 states it as  *)
(* the invariant of the rolling filter): rotate must retire filters in the *)
(* order they expire, whatever SystemTime::now() returned.                 *)
ValidUntilIncreasing ==
    \A k \in 1..Buckets - 1 : filters[k].until < filters[k + 1].until

(* An identity not admitted for more than window * (buckets + 1) is no     *)
(* longer seen: rotation retires every filter that holds it.               *)
ForgottenInTime ==
    \A i \in Ids : Contains(i) => Age(i) <= Window * (Buckets + 1)

(* An identity admitted within the last window is still seen: a metric   *)
(* that keeps arriving is never taken for a new one.                       *)
SeenWithinWindow ==
    \A i \in Ids :
        lastAdmit[i] # Never /\ Age(i) < Window => Contains(i)

(* The admission gate holds: no filter, when it reaches the front of the  *)
(* FIFO, holds more than size_limit + 1 distinct identities, although      *)
(* newer filters collect identities while older ones are in front.         *)
DistinctBound ==
    \A k \in 1..Buckets : Cardinality(BagToSet(filters[k].fps)) <= SizeLimit + 1

(* A rejection means the oldest filter already holds more than size_limit  *)
(* distinct identities (spec 1: the filter caps distinct identities).      *)
RejectsOnlyOverDistinctLimit ==
    verdict # <<>> /\ ~verdict[2] =>
        Cardinality(BagToSet(filters[1].fps)) > SizeLimit

=============================================================================
