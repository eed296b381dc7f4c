-------------------------- MODULE KMeansProperties --------------------------
(***************************************************************************)
(* What the MapReduce of KMeans promises.                                  *)
(***************************************************************************)
EXTENDS KMeans

Line == (0..(NumCentroids - 1)) \X Point

\* The type invariant; a mapper's task is never open twice, and no file holds a
\* point under a centroid that does not exist.
TypeOK ==
    /\ phase \in {"map", "mapping", "remapping", "reduce", "reducing", "rereducing",
                  "done"}
    /\ iteration \in 1..NumIterations
    /\ centroids \in 1..NumCentroids /\ nearest \in [Point -> 0..(centroids - 1)]
    /\ mapper_responses \subseteq Mapper /\ failed_mappers \subseteq Mapper
    /\ reducer_no_tasks \subseteq Reducer /\ failed_reducers \subseteq Reducer
    /\ \A n \in 1..Len(reducer_responses) :
          /\ reducer_responses[n].task \in Reducer
          /\ reducer_responses[n].centroid \in 0..(NumCentroids - 1)
          /\ IsABag(reducer_responses[n].points)
    /\ \A c, d \in Waiting(map_calls) : c.task = d.task => c = d
    /\ \A m \in Mapper, r \in Reducer :
          IsABag(partitions[m][r]) /\ BagToSet(partitions[m][r]) \subseteq Line
    /\ \A r \in Reducer : IsABag(output[r])
    /\ failures \in 0..MaxFailures /\ errors \in 0..MaxErrors /\ harm \in BOOLEAN

\* What follows is about runs in which every call is answered (errors = 0); failures
\* the mappers and reducers answer with are what the master is written for.
Reducing == phase \in {"reduce", "reducing", "rereducing"}

\* Where the files of the mappers hold point p: mapper, reducer, and line.
Places(p) == {x \in Mapper \X Reducer \X Line :
                 x[3][2] = p /\ x[3] \in DOMAIN partitions[x[1]][x[2]]}

\* save_partitioned_data and the reassignment of failed tasks: when the reducers
\* start, every point of the input is in exactly one file, once, under its nearest
\* centroid, and in the partition of the reducer responsible for that centroid.
EveryPointOnce ==
    Reducing /\ errors = 0 => \A p \in Point :
        \E m \in Mapper :
            LET r == Partition(nearest[p])
                line == <<nearest[p], p>>
            IN  Places(p) = {<<m, r, line>>} /\ partitions[m][r][line] = 1

Exact(c) == SetToBag({p \in Point : nearest[p] = c})

\* The centroids the master compiles are the means of exactly the points nearest to
\* each of the old ones, and none is missing (compile_centroids).
CentroidsExact ==
    phase = "reduce" /\ Enough /\ errors = 0 =>
        Compile(reducer_responses) =
            [c \in {nearest[p] : p \in Point} |-> Exact(c)]

\* By then the files of the reducers hold each of them once.
OutputComplete ==
    phase = "reduce" /\ Enough /\ errors = 0 =>
        \A c \in {nearest[p] : p \in Point} :
            \E w \in Reducer :
                {x \in UNION {{v} \X DOMAIN output[v] : v \in Reducer} :
                     x[2].centroid = c}
                = {<<w, [task |-> Partition(c), centroid |-> c, points |-> Exact(c)]>>}

\* Work is only reassigned to processes that have answered their own task, or is
\* tried again where it belongs: a mapper never writes two tasks' files at once, one
\* truncating what the other appends.
NoTruncationRace ==
    errors = 0 => \A c, d \in Waiting(map_calls) :
        c.worker = d.worker /\ c.task = c.worker => c = d

-----------------------------------------------------------------------------
(* Also when a call ends in grpc.RpcError. *)

\* A task that fails, is refused or times out is tried again until it succeeds: no
\* combination of them keeps the master in its map phase.
MapPhaseEnds == (phase = "map") ~> (phase = "reduce")

\* A task that is carried out again because its answer was lost or it failed never costs
\* a point: when the reducers start, the files hold each at least once.  What may cost
\* one is a call that a mapper goes on with after the master gave it up (harm): with mode
\* "w" it empties its files, also of another task's lines, and also under the reducers.
EveryPointSomewhere ==
    Reducing /\ ~harm => \A p \in Point : Places(p) # {}

\* run_master ends, also when calls end in errors, unless an error left something behind
\* that it came upon (harm): a call it gave up is carried out all the same, a shuffle
\* passed over a mapper that had lines for it, or a stream broke after some of its
\* responses, so that the others are never asked for, or come twice.
Terminates == <>(phase = "done" \/ harm)
=============================================================================
