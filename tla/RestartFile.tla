---------------------------- MODULE RestartFile ----------------------------
(***************************************************************************)
(* Restart files as the program finds and leaves them (io/outputstream.cc, *)
(* io/erst.cc, io/eclfile.cc), as pure operators.                          *)
(*                                                                         *)
(* A file is a sequence of report steps in the order of their bytes; what  *)
(* a crash leaves of one is told by its part:                              *)
(*   "whole"  all arrays                                                   *)
(*   "short"  arrays are missing, the last one there is complete           *)
(*   "cut"    the data of an array (not of SEQNUM) are incomplete          *)
(*   "torn"   the header of an array, or the number of SEQNUM, is          *)
(*   "stray"  three bytes or less of the header of SEQNUM are there: less  *)
(*            than what isEOF() asks for, so that readers do not see them  *)
(***************************************************************************)
EXTENDS Integers, SequencesExt

Parts == {"whole", "short", "cut", "torn", "stray"}

\* Variant: steps are counted from one on.
OneBased(step, run, part) == [step |-> step + 1, run |-> run, part |-> part]

Item(step, run, part) == [step |-> step, run |-> run, part |-> part]

\* The steps a reader finds: those with their SEQNUM.
Found(file) == {i \in DOMAIN file : file[i].part # "stray"}

\* ERst::ERst() on a unified file: reading goes from header to header, and
\* succeeds if only the last array is incomplete.  A file without SEQNUM is
\* refused as well, for its name has no number.
Readable(file) ==
  /\ \A i \in 1 .. Len(file) - 1 : file[i].part \in {"whole", "short"}
  /\ Found(file) # {}
  /\ Last(file).part # "torn"

\* Variant: the lowest step beyond the number.
UpperBound(file, step) ==
  LET after == {i \in Found(file) : file[i].step > step}
      lowest == Min({file[i].step : i \in after})
  IN IF after = {} THEN Len(file)
     ELSE Max({i \in after : file[i].step = lowest}) - 1

\* restartStepWritePosition(): the place of the lowest step that is not below
\* the number (the last of them, as arrIndexRange has it), or the end.
WritePosition(file, step) ==
  LET after == {i \in Found(file) : file[i].step >= step}
      lowest == Min({file[i].step : i \in after})
  IN IF after = {} THEN Len(file)
     ELSE Max({i \in after : file[i].step = lowest}) - 1

\* Variant: the file is not cut at the position.
NotResized(file, step) == file

\* Variant: the file is opened like a new one.
OpenedNew(file, step) == <<>>

\* openExisting(): what is left of a file that the step is appended to.
OpenExisting(file, step) == SubSeq(file, 1, WritePosition(file, step))

\* Reading the arrays of a step back.
Holds(file, step) ==
  Readable(file) /\ \E i \in DOMAIN file : file[i].step = step /\ file[i].part = "whole"
=============================================================================
