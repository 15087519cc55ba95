----------------------------- MODULE Partitioner -----------------------------
(***************************************************************************)
(* compute_shards of distributed/partitioner.h: how the layers of a model  *)
(* are cut into one contiguous shard per worker, in proportion to the RAM  *)
(* the workers report (largest remainder, then at least one layer each).   *)
(* The coordinator calls it when its workers are bare, and the node daemon *)
(* when it starts a cluster.                                               *)
(*                                                                         *)
(* The fractions are doubles.  Every remainder is kept here multiplied by  *)
(* the total weight, so that it is an integer.  Rounding shows in one      *)
(* place: when a node's share is a whole number, frac * total_layers may   *)
(* come out just below it (1/49 * 49 does), floor() then loses a layer     *)
(* and the remainder is almost 1.  Any set of such nodes is allowed, but   *)
(* the same RAM gives the same double.  Shares that are not whole are at   *)
(* least 1/total away from a whole number, which doubles resolve.          *)
(***************************************************************************)
EXTENDS Integers, Sequences, FiniteSets

CONSTANTS
    N,            \* world_size
    LayerCounts,  \* the values n_layers may have
    Rams,         \* the values a worker may report as available RAM
    ModelSizes    \* the values model_size_bytes may have

ASSUME PartitionerAssumption ==
    /\ N \in Nat \ {0}
    /\ LayerCounts \subseteq Nat
    /\ Rams \subseteq Nat
    /\ ModelSizes \subseteq Nat

Nodes == 1 .. N

VARIABLES
    phase,      \* the loop being run, or how compute_shards ended
    layers,     \* n_layers
    ram,        \* ram_available_bytes
    size,       \* model_size_bytes
    result,     \* result[]: the layers of each node
    rest,       \* raw[] - result[] after the floors, times the total weight
    remaining,  \* layers still to be handed out by the second loop
    given,      \* the nodes of order[] that loop has been through
    at,         \* the loop variable of the last loop of the allocation
    start,      \* the first layer of the next shard
    shards      \* the shards made so far, in rank order

inputs == <<layers, ram, size>>
vars == <<phase, inputs, result, rest, remaining, given, at, start, shards>>

Ended == {"few_layers", "no_ram", "planned"}

-----------------------------------------------------------------------------
(* Sums over the nodes.                                                    *)

\* Sums(f)[k] is what the running sums of the code hold after k nodes.
Sums(f) ==
    LET S[k \in 0 .. N] == IF k = 0 THEN 0 ELSE S[k - 1] + f[k] IN S

Sum(f) == Sums(f)[N]

\* The fractions, before they are divided by their sum.
Weight == IF Sum(ram) > 0 THEN ram ELSE [i \in Nodes |-> 1]

Total == Sum(Weight)

\* Mutant: the division is done first, in integers.
Quota_DividesFirst(i) == (Weight[i] \div Total) * layers

Quota(i) == (Weight[i] * layers) \div Total
Fraction(i) == (Weight[i] * layers) % Total

\* The sets of nodes whose whole share may be rounded below the whole number.
RoundedDown ==
    {low \in SUBSET {i \in Nodes : /\ Fraction(i) = 0
                                   /\ 0 < Weight[i] /\ Weight[i] < Total} :
        \A i \in low, j \in Nodes : Weight[i] = Weight[j] => j \in low}

\* Mutant: ascending remainders.
Behind_Ascending(i, j) ==
    \/ rest[j] < rest[i]
    \/ rest[j] = rest[i] /\ Weight[j] = Weight[i] /\ j < i

\* order[] puts i behind j: a larger remainder, or the same double and a
\* smaller index.  Equal remainders of unequal nodes may differ as doubles.
Behind(i, j) ==
    \/ rest[j] > rest[i]
    \/ rest[j] = rest[i] /\ Weight[j] = Weight[i] /\ j < i

\* The nodes a layer can be taken from, and the one the code takes it from.
Donors(i) == {j \in Nodes \ {i} : result[j] > 1}

\* Mutant: the first node that can spare a layer, however small.
IsFirstLargest_FirstOnly(d, S) ==
    /\ d \in S
    /\ \A j \in S : d <= j

IsFirstLargest(d, S) ==
    /\ d \in S
    /\ \A j \in S : result[j] < result[d] \/ (result[j] = result[d] /\ d <= j)

-----------------------------------------------------------------------------

Init ==
    /\ phase = "floors"
    /\ layers \in LayerCounts
    /\ ram \in [Nodes -> Rams]
    /\ size \in ModelSizes
    /\ result = [i \in Nodes |-> 0]
    /\ rest = [i \in Nodes |-> 0]
    /\ remaining = 0
    /\ given = {}
    /\ at = 1
    /\ start = 0
    /\ shards = <<>>

\* Fewer layers than nodes: compute_shards throws before it allocates.
TooFewLayers ==
    /\ phase = "floors"
    /\ layers < N
    /\ phase' = "few_layers"
    /\ UNCHANGED <<inputs, result, rest, remaining, given, at, start, shards>>

\* Mutant: no comparison of layers and nodes.
Floors_NoGuard ==
    /\ phase = "floors"
    /\ \E low \in RoundedDown :
          /\ result' = [i \in Nodes |-> IF i \in low THEN Quota(i) - 1
                                                     ELSE Quota(i)]
          /\ rest' = [i \in Nodes |-> IF i \in low THEN Total ELSE Fraction(i)]
    /\ remaining' = layers - Sum(result')
    /\ phase' = "spread"
    /\ UNCHANGED <<inputs, given, at, start, shards>>

\* The first loop: every node gets the floor of its share.
Floors ==
    /\ phase = "floors"
    /\ N <= layers
    /\ \E low \in RoundedDown :
          /\ result' = [i \in Nodes |-> IF i \in low THEN Quota(i) - 1
                                                     ELSE Quota(i)]
          /\ rest' = [i \in Nodes |-> IF i \in low THEN Total ELSE Fraction(i)]
    /\ remaining' = layers - Sum(result')
    /\ phase' = "spread"
    /\ UNCHANGED <<inputs, given, at, start, shards>>

\* Mutant: k <= remaining.
Spread_OneMore ==
    /\ phase = "spread"
    /\ remaining >= 0
    /\ \E i \in Nodes \ given :
          /\ \A j \in Nodes \ given : ~Behind(i, j)
          /\ result' = [result EXCEPT ![i] = @ + 1]
          /\ given' = given \cup {i}
    /\ remaining' = remaining - 1
    /\ UNCHANGED <<phase, inputs, rest, at, start, shards>>

\* One round of the second loop: result[order[k]]++.
Spread ==
    /\ phase = "spread"
    /\ remaining > 0
    /\ \E i \in Nodes \ given :
          /\ \A j \in Nodes \ given : ~Behind(i, j)
          /\ result' = [result EXCEPT ![i] = @ + 1]
          /\ given' = given \cup {i}
    /\ remaining' = remaining - 1
    /\ UNCHANGED <<phase, inputs, rest, at, start, shards>>

SpreadEnds ==
    /\ phase = "spread"
    /\ remaining <= 0
    /\ phase' = "least"
    /\ UNCHANGED <<inputs, result, rest, remaining, given, at, start, shards>>

\* Mutants: the donor keeps its layer; the index stays on a node that has one.
AtLeastOne_DonorKeeps ==
    /\ phase = "least"
    /\ at <= N
    /\ \/ result[at] > 0 /\ UNCHANGED result
       \/ /\ result[at] <= 0
          /\ Donors(at) # {}
          /\ result' = [result EXCEPT ![at] = @ + 1]
    /\ at' = at + 1
    /\ UNCHANGED <<phase, inputs, rest, remaining, given, start, shards>>

AtLeastOne_NoAdvance ==
    /\ phase = "least"
    /\ at <= N
    /\ result[at] <= 0
    /\ \E d \in Nodes :
          /\ IsFirstLargest(d, Donors(at))
          /\ result' = [result EXCEPT ![d] = @ - 1, ![at] = @ + 1]
    /\ at' = at + 1
    /\ UNCHANGED <<phase, inputs, rest, remaining, given, start, shards>>

\* One round of the third loop: a node without a layer gets one of the
\* largest allocation.  The throw for the case that nobody can spare one is
\* not an action: SpareLayer says that it is unreachable.
AtLeastOne ==
    /\ phase = "least"
    /\ at <= N
    /\ \/ result[at] > 0 /\ UNCHANGED result
       \/ /\ result[at] <= 0
          /\ \E d \in Nodes :
                /\ IsFirstLargest(d, Donors(at))
                /\ result' = [result EXCEPT ![d] = @ - 1, ![at] = @ + 1]
    /\ at' = at + 1
    /\ UNCHANGED <<phase, inputs, rest, remaining, given, start, shards>>

\* Mutant: the last node is left out of the third loop.
AtLeastOneEnds_Early ==
    /\ phase = "least"
    /\ at >= N
    /\ phase' = "shards"
    /\ UNCHANGED <<inputs, result, rest, remaining, given, at, start, shards>>

AtLeastOneEnds ==
    /\ phase = "least"
    /\ at > N
    /\ phase' = "shards"
    /\ UNCHANGED <<inputs, result, rest, remaining, given, at, start, shards>>

\* The shard of the next rank, and the check that the node has the RAM for it.
Fits(i) == size * result[i] <= ram[i] * layers

MakeShard ==
    /\ phase = "shards"
    /\ Len(shards) < N
    /\ LET i == Len(shards) + 1
           end == start + result[i]
       IN  /\ Fits(i)
           /\ shards' = Append(shards, [start_layer |-> start,
                                        end_layer |-> end,
                                        is_first |-> start = 0,
                                        is_last |-> end = layers])
           /\ start' = end
    /\ UNCHANGED <<phase, inputs, result, rest, remaining, given, at>>

InsufficientRam ==
    /\ phase = "shards"
    /\ Len(shards) < N
    /\ ~Fits(Len(shards) + 1)
    /\ phase' = "no_ram"
    /\ UNCHANGED <<inputs, result, rest, remaining, given, at, start, shards>>

Return ==
    /\ phase = "shards"
    /\ Len(shards) = N
    /\ phase' = "planned"
    /\ UNCHANGED <<inputs, result, rest, remaining, given, at, start, shards>>

Next ==
    \/ TooFewLayers \/ Floors
    \/ Spread \/ SpreadEnds
    \/ AtLeastOne \/ AtLeastOneEnds
    \/ MakeShard \/ InsufficientRam \/ Return

\* One thread runs the function from its call to its end.
Spec == Init /\ [][Next]_vars /\ WF_vars(Next)

-----------------------------------------------------------------------------
(* Properties.                                                             *)

Shard == [start_layer : Nat, end_layer : Nat,
          is_first : BOOLEAN, is_last : BOOLEAN]

\* The range of every variable.  No allocation ever becomes negative.
TypeOK ==
    /\ phase \in {"floors", "spread", "least", "shards"} \cup Ended
    /\ layers \in LayerCounts
    /\ ram \in [Nodes -> Rams]
    /\ size \in ModelSizes
    /\ result \in [Nodes -> Nat]
    /\ rest \in [Nodes -> Nat]
    /\ remaining \in Nat
    /\ given \subseteq Nodes
    /\ at \in 1 .. N + 1
    /\ start \in Nat
    /\ shards \in Seq(Shard)

\* The second loop never reads past the end of order[]: the layers the floors
\* leave over, rounding included, are never more than the nodes still behind.
IndexInOrder ==
    remaining <= Cardinality(Nodes \ given)

\* The allocation hands out exactly the layers of the model.
AllLayersAllocated ==
    phase \in {"least", "shards", "planned"} => Sum(result) = layers

\* When a node has no layer some other node has two, so that the exception
\* "cannot guarantee 1 layer/node" is never thrown.
SpareLayer ==
    phase = "least" /\ at <= N /\ result[at] = 0 => Donors(at) # {}

\* Before the third loop every allocation is the share rounded down or up, and
\* a whole share is met exactly, whatever the doubles did to it.
ShareRoundedOnce ==
    phase = "least" /\ at = 1 =>
        \A i \in Nodes :
            /\ Quota(i) <= result[i]
            /\ result[i] * Total < Weight[i] * layers + Total

\* Workers that report the same RAM never differ by more than one layer, not
\* even after layers have been taken away from the largest allocations.
TwinsShareAlike ==
    phase \in {"least", "shards", "planned"} =>
        \A i, j \in Nodes : ram[i] = ram[j] => result[i] <= result[j] + 1

\* A plan is a pipeline: every worker has a layer, each shard begins where the
\* one before ends, layer 0 and the last layer are in it, and exactly the
\* first worker embeds and exactly the last one computes the logits.
PlanIsPipeline ==
    phase = "planned" =>
        /\ Len(shards) = N
        /\ shards[1].start_layer = 0
        /\ shards[N].end_layer = layers
        /\ \A k \in Nodes :
              /\ shards[k].start_layer < shards[k].end_layer
              /\ k < N => shards[k].end_layer = shards[k + 1].start_layer
              /\ shards[k].is_first <=> k = 1
              /\ shards[k].is_last <=> k = N
=============================================================================
