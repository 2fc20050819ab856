---------------------------- MODULE InstanceSort ----------------------------
(***************************************************************************)
(* sortInstances (instances.go 696-738): sort.Sort over instanceList with *)
(* its Less.  A start time is 0 when empty, a positive number (larger is  *)
(* later) when it parses with formatISO8601, and Malformed when           *)
(* time.ParseInLocation rejects it.  For fewer than 12 elements sort.Sort *)
(* is an insertion sort (pdqsort and the older quickSort alike), which is *)
(* what SortInstances is; every list this code sorts is that short here.  *)
(***************************************************************************)
EXTENDS Integers, Sequences, SequencesExt

Malformed == -1

Parses(t) == t > 0

\* instanceList.Less(i, j): "i sorts before j".  Two empty start times, or
\* a set one against an empty one: false; an empty one against a set one:
\* true; a start time that does not parse: false; else i is after j.
Less(a, b) ==
    CASE a.start = 0 /\ b.start = 0               -> FALSE
      [] a.start # 0 /\ b.start = 0               -> FALSE
      [] a.start = 0                              -> TRUE
      [] ~Parses(a.start) \/ ~Parses(b.start)     -> FALSE
      [] OTHER                                    -> a.start > b.start

\* Mutant: the comparison of the insertion loop with its arguments swapped.
RECURSIVE SinkSwapped(_, _)
SinkSwapped(acc, x) ==
    IF acc = <<>> \/ ~Less(Last(acc), x) THEN Append(acc, x)
    ELSE Append(SinkSwapped(Front(acc), x), Last(acc))

\* One pass of insertionSort: data[i] moves left while Less(j, j-1).
RECURSIVE Sink(_, _)
Sink(acc, x) ==
    IF acc = <<>> \/ ~Less(x, Last(acc)) THEN Append(acc, x)
    ELSE Append(Sink(Front(acc), x), Last(acc))

\* sortInstances: insertionSort(data, 0, n).
SortInstances(s) == FoldLeft(Sink, <<>>, s)
=============================================================================
