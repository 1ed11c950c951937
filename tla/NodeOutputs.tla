------------------------------ MODULE NodeOutputs ------------------------------
(***************************************************************************)
(* What becomes of the outputs of a node's commands: which GPUs and which     *)
(* disk usage the parsers of inspector/metrics.py find in them, what          *)
(* SqliteStore._build_summary says of the GPUs, and which lines of them       *)
(* WPSNotifier._format_single_node shows, or fails on.                        *)
(*                                                                           *)
(* An output is the sequence of its lines, a line the sequence of its fields. *)
(* A field is the number it holds, or None.  What is found in or shown of     *)
(* an output is named by the line where it stands.  The other outputs         *)
(* (memory, processor, load, uptime, ping) are shown when they have enough    *)
(* fields and stop no report.                                                 *)
(***************************************************************************)
EXTENDS Sequences, FiniteSetsExt

CONSTANT None     \* a field that holds no number

Field == Int \cup {None}

\* A word of df: whether it has a % sign, and the digits before it.
DfWord == [percent : BOOLEAN, value : Field]

\* The raw field of NodeMetrics, as far as it is modelled.
Raw == [gpu : Seq(Seq(Field)), df : Seq(Seq(DfWord))]

-----------------------------------------------------------------------------
(* Variants with a bug, each put in the place of its original by a mutation   *)
(* run.                                                                       *)

ParseNvidiaSmiStrictly(lines) ==
  [i \in {j \in DOMAIN lines : Len(lines[j]) > 9} |->
     [temp |-> lines[i][3], used |-> lines[i][6], total |-> lines[i][7]]]

-----------------------------------------------------------------------------
(* inspector/metrics.py *)

\* index, name, temperature, two utilizations, memory used and total, power, fan.
ParseNvidiaSmi(lines) ==
  [i \in {j \in DOMAIN lines : Len(lines[j]) >= 9} |->
     [temp |-> lines[i][3], used |-> lines[i][6], total |-> lines[i][7]]]

Percentages(line) == {i \in DOMAIN line : line[i].percent /\ line[i].value # None}

\* The first percentage of the second line; the first line is the heading.
ParseDf(lines) ==
  IF Len(lines) < 2 \/ Percentages(lines[2]) = {} THEN None
  ELSE lines[2][Min(Percentages(lines[2]))].value

-----------------------------------------------------------------------------
(* SqliteStore._build_summary: the number of GPUs, and the average of their   *)
(* temperatures as the quotient total / over.                                 *)

Summary(gpus) ==
  LET read == {i \in DOMAIN gpus : gpus[i].temp # None}
      n    == Cardinality(DOMAIN gpus)
  IN [gpus |-> n, total |-> MapThenSumSet(LAMBDA i : gpus[i].temp, read),
      over |-> IF n = 0 THEN 1 ELSE n]

-----------------------------------------------------------------------------
(* inspector/notifier.py *)

\* Lines of less than 8 fields are passed over; of the others the ninth is read.
ShownGpus(lines) == {i \in DOMAIN lines : Len(lines[i]) >= 8}

GpuLineRaises(line) == Len(line) = 8

ShownDisks(lines) == {i \in DOMAIN lines : Len(lines[i]) >= 5 /\ lines[i][5].percent}

ReportRaises(raw) == \E i \in DOMAIN raw.gpu : GpuLineRaises(raw.gpu[i])

=============================================================================
