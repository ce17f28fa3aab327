---------------------------- MODULE DynamicState ----------------------------
(***************************************************************************)
(* The container DynamicState<T> (schedule/dynamicstate.hh): one value for *)
(* every report step.  A container is a function from report steps         *)
(* (0 .. size-1) to values; every operator takes the container and returns *)
(* the container the call leaves behind.                                   *)
(*                                                                         *)
(* Values are compared with "=".  Where T is a shared_ptr the code compares *)
(* addresses: the modules that hold objects give every object they         *)
(* allocate a fresh identity, so that "=" is the comparison of pointers.   *)
(*                                                                         *)
(* Two pieces are left out, because nothing in the schedule reads them     *)
(* there: initial_range with updateInitial, and split/reconstruct, the     *)
(* packing used to serialise a container.                                  *)
(***************************************************************************)
EXTENDS Integers

\* Variant: one element too many.
BadFilled(n, v) == [t \in 0 .. n |-> v]

\* A container of n elements that all hold v.
Filled(n, v) == [t \in 0 .. n - 1 |-> v]

\* update(): nothing if the element is already v, else v from index to the end.
Update(data, index, v) ==
  IF data[index] = v
  THEN data
  ELSE [t \in DOMAIN data |-> IF t >= index THEN v ELSE data[t]]

\* The steps from index on that hold the value of index without interruption.
EqualRun(data, index) ==
  {t \in DOMAIN data : t >= index /\ \A u \in index .. t : data[u] = data[index]}

\* Variant: the fill of update() in its place.
FillToEnd(data, index, v) ==
  [t \in DOMAIN data |-> IF t >= index THEN v ELSE data[t]]

\* update_equal(): v over the run of values equal to the one at index.
UpdateEqual(data, index, v) ==
  [t \in DOMAIN data |-> IF t \in EqualRun(data, index) THEN v ELSE data[t]]

\* update_range(): v from first up to, but not including, end.
UpdateRange(data, first, end, v) ==
  [t \in DOMAIN data |-> IF t >= first /\ t < end THEN v ELSE data[t]]

\* is_new_data(), and the steps unique() returns: where the value changes.
IsNewData(data, index) == index = 0 \/ data[index] # data[index - 1]

UniqueSteps(data) == {t \in DOMAIN data : IsNewData(data, t)}
=============================================================================
