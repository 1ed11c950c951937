------------------------------- MODULE MCAlerter -------------------------------
(* Instances of Alerter for TLC: the metrics a node may report.               *)
(* Limits: 1 for the temperature and the disk, 50 for the memory percentage.  *)
EXTENDS Alerter, TLC

CONSTANTS n1, n2

MCTemps == {None, 1, 2}
MCMemory == {[used |-> 1, total |-> 2], [used |-> 2, total |-> 2],
             [used |-> 1, total |-> 0], [used |-> None, total |-> 2]}
MCDisks == {None, 1, 2}

Unreachable == [reachable |-> FALSE, gpus |-> <<>>, disk |-> None]

GpuReading(t, m) == [temp |-> t, used |-> m.used, total |-> m.total]

\* At most one GPU, every combination of readings.
OneGpuSamples ==
  {Unreachable}
    \cup {[reachable |-> TRUE, gpus |-> <<>>, disk |-> d] : d \in MCDisks}
    \cup {[reachable |-> TRUE, gpus |-> <<GpuReading(t, m)>>, disk |-> d] :
            t \in MCTemps, m \in MCMemory, d \in MCDisks}

\* Two GPUs whose temperatures vary.
NoMemory == [used |-> None, total |-> None]

TwoGpuSamples ==
  {Unreachable}
    \cup {[reachable |-> TRUE, disk |-> 1,
           gpus |-> <<GpuReading(t, NoMemory), GpuReading(u, NoMemory)>>] :
            t \in MCTemps, u \in MCTemps}

Samples1And2 == OneGpuSamples \cup TwoGpuSamples

\* A node with one GPU, and one with two.
OneAndTwo == n1 :> 1 @@ n2 :> 2

TwoOnly == n1 :> 2

=============================================================================
