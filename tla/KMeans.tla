------------------------------- MODULE KMeans -------------------------------
(***************************************************************************)
(* The MapReduce of Assignment_3: master.py, and the mapper.py and         *)
(* reducer.py processes it calls, through the iterations of K-means.       *)
(*                                                                         *)
(* A point is its line number in points.txt.  Coordinates are abstract:    *)
(* the centroids of an iteration bring about some assignment of the points *)
(* to the nearest centroid, and a new centroid is the bag of points it is  *)
(* the mean of.  Processes are numbered from their base port, as in the    *)
(* code, and a mapper is also the task of mapping its own split.           *)
(***************************************************************************)
EXTENDS Integers, Sequences, FiniteSets, Bags, SequencesExt

CONSTANTS
    NumPoints,      \* lines in points.txt
    NumMappers, NumReducers, NumCentroids,
    NumIterations,  \* bound: num_iterations, 50 in the code
    EmptyClusters,  \* whether a centroid may be nearest to no point
    MaxFailures,    \* bound: simulated failures (probability 0.2 per call) and errors
    MaxErrors       \* bound: the calls among them that end in grpc.RpcError

ASSUME SizeAssumption ==
    /\ NumMappers \in Nat \ {0} /\ NumReducers \in Nat \ {0}
    /\ NumCentroids \in Nat \ {0} /\ NumPoints \in Nat /\ NumPoints >= NumCentroids
    /\ NumIterations \in Nat \ {0} /\ EmptyClusters \in BOOLEAN
    /\ MaxFailures \in Nat /\ MaxErrors \in Nat

VARIABLES
    phase,               \* where run_master is
    iteration,           \* iteration + 1, as it is logged
    centroids,           \* how many centroids the iteration starts from
    nearest,             \* the one of them nearest to each point
    mapper_responses,    \* the tasks with a SUCCESS
    failed_mappers,
    reducer_responses, reducer_no_tasks, failed_reducers,
    map_calls,           \* Map calls sent and not done with
    reduce_calls,        \* Reduce calls sent and not done with
    partitions,          \* Mappers/M*/partition_*.txt
    output,              \* Reducers/R*.txt
    failures, errors,
    harm                 \* whether an error left something behind that the run came upon

inputVars  == <<iteration, centroids, nearest>>
masterVars == <<phase, inputVars>>
mapVars    == <<mapper_responses, failed_mappers>>
reduceVars == <<reducer_responses, reducer_no_tasks, failed_reducers>>
faultVars  == <<failures, errors, harm>>
vars == <<masterVars, mapVars, reduceVars, map_calls, reduce_calls, partitions,
          output, faultVars>>
-----------------------------------------------------------------------------
Point == 0..(NumPoints - 1)
Mapper == 0..(NumMappers - 1)
Reducer == 0..(NumReducers - 1)

\* The points of mapper i: equal chunks, and the remainder to the last one.
Split(i) ==
    LET chunk_size == NumPoints \div NumMappers
        end == IF i = NumMappers - 1 THEN NumPoints ELSE (i + 1) * chunk_size
    IN  {p \in Point : i * chunk_size <= p /\ p < end}

\* (mutant) The index of the nearest centroid is counted from 1.
AssignmentsFromOne(k) == [Point -> 1..k]

\* What k centroids may make of the points.
Assignments(k) ==
    {a \in [Point -> 0..(k - 1)] :
        EmptyClusters \/ \A c \in 0..(k - 1) : \E p \in Point : a[p] = c}

\* The reducer that gets the points of a centroid.
Partition(c) == c % NumReducers

NoFiles == [m \in Mapper |-> [r \in Reducer |-> EmptyBag]]

\* What a reduce call has to say: one response per centroid it saw, each the bag
\* of points the new centroid is the mean of.
Responses(c) ==
    {[task |-> c.task, centroid |-> d,
      points |-> [p \in {q \in Point : <<d, q>> \in DOMAIN c.data} |-> c.data[<<d, p>>]]] :
        d \in {line[1] : line \in DOMAIN c.data}}

\* compile_centroids: the last response for a centroid overwrites the others.
Compile(responses) ==
    [d \in {responses[n].centroid : n \in 1..Len(responses)} |->
        responses[CHOOSE n \in 1..Len(responses) :
            /\ responses[n].centroid = d
            /\ \A m \in (n + 1)..Len(responses) : responses[m].centroid # d].points]

\* Another call may end in an error.
MayLose == errors < MaxErrors /\ failures + errors < MaxFailures

Init ==
    /\ phase = "map" /\ iteration = 1
    /\ centroids = NumCentroids /\ nearest \in Assignments(centroids)
    /\ mapper_responses = {} /\ failed_mappers = {}
    /\ reducer_responses = <<>> /\ reducer_no_tasks = {} /\ failed_reducers = {}
    /\ map_calls = {} /\ reduce_calls = {}
    /\ partitions = NoFiles /\ output = [r \in Reducer |-> EmptyBag]
    /\ failures = 0 /\ errors = 0 /\ harm = FALSE

-----------------------------------------------------------------------------
\* Mapper processes.  A call's field lost is 0 while the master waits for it, and
\* else tells which error ended the wait: the mapper may carry it out all the same.

MapCall(i, w) == [task |-> i, worker |-> w, nearest |-> nearest, file |-> 0,
                  open |-> FALSE, status |-> "sent", lost |-> 0]
Waiting(calls) == {c \in calls : c.lost = 0}
Answer(calls, c, d) == (calls \ {c}) \cup {e \in {d} : c.lost = 0}

\* The points of a task's split that go to reducer r.
Lines(c, r) ==
    {<<c.nearest[p], p>> : p \in {q \in Split(c.task) : Partition(c.nearest[q]) = r}}

\* (mutant) Every task opens the files with mode "w".
Emptied(file, c) == EmptyBag

\* A file that has just been opened: a mapper's own task, mode "w", empties it.
Opened(file, c) == IF c.task = c.worker THEN EmptyBag ELSE file

\* A file that has been closed, which is when its lines are written.  Another's task,
\* mode "a", adds them; a mapper's own writes from the top, over some of the lines
\* that were appended since it emptied the file.
SomeOf(file) ==
    {b \in UNION {[S -> UNION {1..file[x] : x \in S}] : S \in SUBSET DOMAIN file} :
        \A x \in DOMAIN b : b[x] <= file[x]}
Written(file, c) ==
    {kept (+) SetToBag(Lines(c, c.file)) :
        kept \in IF c.task = c.worker THEN SomeOf(file) ELSE {file}}

\* save_partitioned_data saves one file after the other: it opens the next one,
MapOpens(c) ==
    /\ c.status = "sent" /\ ~c.open
    /\ partitions' = [partitions EXCEPT ![c.worker][c.file] = Opened(@, c)]
    /\ map_calls' = (map_calls \ {c}) \cup {[c EXCEPT !.open = TRUE]}
    /\ harm' = (harm \/ c.lost # 0)
    /\ UNCHANGED <<masterVars, mapVars, reduceVars, reduce_calls, output, failures, errors>>

\* and closes it.  After the last one Map answers with SUCCESS.
MapWrites(c) ==
    /\ c.open
    /\ \E file \in Written(partitions[c.worker][c.file], c) :
           partitions' = [partitions EXCEPT ![c.worker][c.file] = file]
    /\ LET d == [c EXCEPT !.open = FALSE, !.file = @ + 1]
       IN  map_calls' = IF d.file < NumReducers THEN (map_calls \ {c}) \cup {d}
                        ELSE Answer(map_calls, c, [d EXCEPT !.status = "SUCCESS"])
    /\ harm' = (harm \/ c.lost # 0)
    /\ UNCHANGED <<masterVars, mapVars, reduceVars, reduce_calls, output, failures, errors>>

\* Map, when it simulates a failure, which it does before it opens a file.
MapFails(c) ==
    /\ c.status = "sent" /\ c.file = 0 /\ ~c.open
    /\ failures + errors < MaxFailures /\ failures' = failures + 1
    /\ map_calls' = Answer(map_calls, c, [c EXCEPT !.status = "FAILED"])
    /\ UNCHANGED <<masterVars, mapVars, reduceVars, reduce_calls, partitions, output,
                   errors, harm>>

\* The master deletes the files of an iteration.  A task that is saving then loses the
\* one it has open, and may find no directory to open the next one in.
FilesDeleted(calls) ==
    LET saving == {c \in calls : c.file > 0 \/ c.open}
        after(c) == [c EXCEPT !.open = FALSE, !.file = IF c.open THEN @ + 1 ELSE @]
    IN  {(calls \ saving) \cup {after(c) : c \in left} :
            left \in SUBSET {c \in saving : after(c).file < NumReducers}}

-----------------------------------------------------------------------------
\* Reducer processes.

ReduceCall(i, w) == [task |-> i, worker |-> w, next |-> 0, data |-> EmptyBag,
                     status |-> "sent", lost |-> 0]

\* shuffle_data asks the next mapper for its partition.
Shuffle(c) ==
    /\ c.status = "sent" /\ c.next < NumMappers
    /\ reduce_calls' = (reduce_calls \ {c}) \cup
           {[c EXCEPT !.data = @ (+) partitions[c.next][c.task], !.next = @ + 1]}
    /\ UNCHANGED <<masterVars, mapVars, reduceVars, map_calls, partitions, output,
                   faultVars>>

\* A mapper that does not answer within 0.3 s is passed over.
ShuffleMisses(c) ==
    /\ c.status = "sent" /\ c.next < NumMappers
    /\ MayLose /\ errors' = errors + 1
    /\ harm' = (harm \/ partitions[c.next][c.task] # EmptyBag)
    /\ reduce_calls' = (reduce_calls \ {c}) \cup {[c EXCEPT !.next = @ + 1]}
    /\ UNCHANGED <<masterVars, mapVars, reduceVars, map_calls, partitions, output,
                   failures>>

\* (mutant) Every task opens the file with mode "w".
SavedOver(file, c, lines) == SetToBag(lines)

\* What save_reduced_data makes of its file: a reducer's own task replaces it,
\* another's is appended to it.
Saved(file, c, lines) ==
    IF c.task = c.worker THEN SetToBag(lines) ELSE file (+) SetToBag(lines)

\* Reduce, when it succeeds: the new centroids are saved, then streamed.
ReduceSaves(c) ==
    /\ c.status = "sent" /\ c.next = NumMappers
    /\ output' = [output EXCEPT ![c.worker] = Saved(@, c, Responses(c))]
    /\ reduce_calls' = Answer(reduce_calls, c, [c EXCEPT !.status = "SUCCESS"])
    /\ UNCHANGED <<masterVars, mapVars, reduceVars, map_calls, partitions, faultVars>>

\* Reduce, when it simulates a failure, which it does before it saves.
ReduceFails(c) ==
    /\ c.status = "sent" /\ c.next = NumMappers
    /\ failures + errors < MaxFailures /\ failures' = failures + 1
    /\ reduce_calls' = Answer(reduce_calls, c, [c EXCEPT !.status = "FAILED"])
    /\ UNCHANGED <<masterVars, mapVars, reduceVars, map_calls, partitions, output, errors,
                   harm>>

-----------------------------------------------------------------------------
\* The master's map phase.

\* The top of the loop: every task without a response that did not fail is given
\* to its own mapper.
InvokeMappers ==
    /\ phase = "map" /\ Cardinality(mapper_responses) < NumMappers
    /\ phase' = "mapping"
    /\ map_calls' = map_calls \cup
           {MapCall(i, i) : i \in Mapper \ (mapper_responses \cup failed_mappers)}
    /\ UNCHANGED <<inputVars, mapVars, reduceVars, reduce_calls, partitions,
                   output, faultVars>>

\* A call's answer: a task that failed at its own mapper is marked as failed, one
\* that failed where it was reassigned stays so.
CollectMap(c) ==
    /\ phase \in {"mapping", "remapping"} /\ c.lost = 0 /\ c.status # "sent"
    /\ map_calls' = map_calls \ {c}
    /\ IF c.status = "SUCCESS"
       THEN /\ mapper_responses' = mapper_responses \cup {c.task}
            /\ failed_mappers' = failed_mappers \ {c.task}
       ELSE /\ failed_mappers' = failed_mappers \cup {c.task}
            /\ UNCHANGED mapper_responses
    /\ UNCHANGED <<masterVars, reduceVars, reduce_calls, partitions, output, faultVars>>

\* The call ends in grpc.RpcError: the mapper is down, or took more than 3 s.  What
\* it did, or will yet do, about the call is not undone.
MapTimesOut(c) ==
    /\ phase \in {"mapping", "remapping"} /\ c.lost = 0
    /\ MayLose /\ errors' = errors + 1
    /\ map_calls' = (map_calls \ {c}) \cup
           {d \in {[c EXCEPT !.lost = errors']} : c.status = "sent"}
    /\ failed_mappers' = failed_mappers \cup {c.task}
    /\ UNCHANGED <<masterVars, mapper_responses, reduceVars, reduce_calls, partitions,
                   output, failures, harm>>

\* Where a failed task may go: to a process that has not failed, or to its own.
NewWorker(available, i, all) == available \cup {i}

\* (mutant) A failure is acted on before the others have answered.
OneFailed == Waiting(map_calls) = {} \/ failed_mappers # {}

\* All calls of a round are answered.
RoundOver == Waiting(map_calls) = {}

\* (mutant) They stay failed.
StillFailed(failed) == failed

\* What is left of the failed tasks when there is no process to reassign them to.
Forgiven(failed) == {}

\* After a round, failed tasks are reassigned, unless every
\* mapper failed: then they are forgotten, and the loop calls them as at first.
ReassignMappers ==
    LET available == Mapper \ failed_mappers
    IN  /\ phase = "mapping" /\ RoundOver
        /\ IF failed_mappers = {} \/ available = {}
           THEN /\ phase' = "map" /\ failed_mappers' = Forgiven(failed_mappers)
                /\ UNCHANGED map_calls
           ELSE /\ phase' = "remapping" /\ UNCHANGED failed_mappers
                /\ \E new_mapper_id \in [failed_mappers -> Mapper] :
                       /\ \A i \in failed_mappers :
                             new_mapper_id[i] \in NewWorker(available, i, Mapper)
                       /\ map_calls' = map_calls \cup
                              {MapCall(i, new_mapper_id[i]) : i \in failed_mappers}
        /\ UNCHANGED <<inputVars, mapper_responses, reduceVars, reduce_calls,
                       partitions, output, faultVars>>

\* After the round of reassigned calls: back to the top of the loop.
EndRemap ==
    /\ phase = "remapping" /\ RoundOver
    /\ phase' = "map"
    /\ UNCHANGED <<inputVars, mapVars, reduceVars, map_calls, reduce_calls,
                   partitions, output, faultVars>>

\* Every task has its response: on to the reducers.
EndMap ==
    /\ phase = "map" /\ Cardinality(mapper_responses) >= NumMappers
    /\ phase' = "reduce"
    /\ UNCHANGED <<inputVars, mapVars, reduceVars, map_calls, reduce_calls,
                   partitions, output, faultVars>>

-----------------------------------------------------------------------------
\* The master's reduce phase, which ends when there are as many responses as
\* centroids.

Answered == {reducer_responses[n].task : n \in 1..Len(reducer_responses)}

Completed == Answered \cup reducer_no_tasks

\* (mutants) The loop ends one response early, or one late.
EnoughEarly == Len(reducer_responses) >= NumCentroids - 1
EnoughLate == Len(reducer_responses) > NumCentroids

Enough == Len(reducer_responses) >= NumCentroids

InvokeReducers ==
    /\ phase = "reduce" /\ ~Enough
    /\ phase' = "reducing"
    /\ reduce_calls' = reduce_calls \cup
           {ReduceCall(i, i) : i \in Reducer \ (Completed \cup failed_reducers)}
    /\ UNCHANGED <<inputVars, mapVars, reduceVars, map_calls, partitions, output,
                   faultVars>>

\* The master reads the responses of one call to their end.
CollectReduce(c) ==
    /\ phase \in {"reducing", "rereducing"} /\ c.lost = 0 /\ c.status # "sent"
    /\ reduce_calls' = reduce_calls \ {c}
    /\ IF c.status = "SUCCESS"
       THEN /\ reducer_responses' = reducer_responses \o SetToSeq(Responses(c))
            /\ reducer_no_tasks' = reducer_no_tasks \cup
                                       {i \in {c.task} : Responses(c) = {}}
            /\ failed_reducers' = failed_reducers \ {c.task}
       ELSE /\ failed_reducers' = failed_reducers \cup {c.task}
            /\ UNCHANGED <<reducer_responses, reducer_no_tasks>>
    /\ UNCHANGED <<masterVars, mapVars, map_calls, partitions, output, faultVars>>

\* The stream breaks with grpc.RpcError after some of its responses, which stay.
\* In the first round the reducer is marked as failed; a reassigned task counts as
\* done with its first response.
ReduceBreaks(c) ==
    /\ phase \in {"reducing", "rereducing"} /\ c.lost = 0
    /\ MayLose /\ errors' = errors + 1
    /\ reduce_calls' = (reduce_calls \ {c}) \cup
           {d \in {[c EXCEPT !.lost = errors']} : c.status = "sent"}
    /\ \E got \in SUBSET Responses(c), none \in BOOLEAN :
           /\ got # {} \/ none => c.status = "SUCCESS"
           /\ none => Responses(c) = {}
           /\ reducer_responses' = reducer_responses \o SetToSeq(got)
           /\ reducer_no_tasks' = reducer_no_tasks \cup {i \in {c.task} : none}
           /\ harm' = (harm \/ got # {})
           /\ failed_reducers' = IF phase = "rereducing" /\ (got # {} \/ none)
                                 THEN failed_reducers \ {c.task}
                                 ELSE failed_reducers \cup {c.task}
    /\ UNCHANGED <<masterVars, mapVars, map_calls, partitions, output, failures>>

ReassignReducers ==
    LET available == Reducer \ failed_reducers
    IN  /\ phase = "reducing" /\ Waiting(reduce_calls) = {}
        /\ IF failed_reducers = {} \/ available = {}
           THEN /\ phase' = "reduce" /\ failed_reducers' = Forgiven(failed_reducers)
                /\ UNCHANGED reduce_calls
           ELSE /\ phase' = "rereducing" /\ UNCHANGED failed_reducers
                /\ \E new_reducer_id \in [failed_reducers -> Reducer] :
                       /\ \A i \in failed_reducers :
                             new_reducer_id[i] \in NewWorker(available, i, Reducer)
                       /\ reduce_calls' = reduce_calls \cup
                              {ReduceCall(i, new_reducer_id[i]) : i \in failed_reducers}
        /\ UNCHANGED <<inputVars, mapVars, reducer_responses, reducer_no_tasks,
                       map_calls, partitions, output, faultVars>>

EndRereduce ==
    /\ phase = "rereducing" /\ Waiting(reduce_calls) = {}
    /\ phase' = "reduce"
    /\ UNCHANGED <<inputVars, mapVars, reduceVars, map_calls, reduce_calls,
                   partitions, output, faultVars>>

\* Enough responses: the centroids are compiled.  Either they have converged, which
\* they cannot when some were lost, or this was the last iteration, or another one
\* begins by deleting the files of this one.
CompileCentroids ==
    LET compiled == Cardinality(DOMAIN Compile(reducer_responses))
    IN  /\ phase = "reduce" /\ Enough
        /\ \/ /\ iteration = NumIterations \/ compiled = centroids
              /\ phase' = "done"
              /\ UNCHANGED <<inputVars, mapVars, reduceVars, map_calls, partitions, output>>
           \/ /\ iteration < NumIterations
              /\ phase' = "map" /\ iteration' = iteration + 1
              /\ centroids' = compiled /\ nearest' \in Assignments(compiled)
              /\ mapper_responses' = {} /\ failed_mappers' = {}
              /\ reducer_responses' = <<>> /\ reducer_no_tasks' = {}
              /\ failed_reducers' = {}
              /\ partitions' = NoFiles /\ output' = [r \in Reducer |-> EmptyBag]
              /\ map_calls' \in FilesDeleted(map_calls)
        /\ UNCHANGED <<reduce_calls, faultVars>>

\* run_master has returned.
Done == phase = "done" /\ UNCHANGED vars

\* What happens without anything going wrong.
Work ==
    \/ InvokeMappers \/ ReassignMappers \/ EndRemap \/ EndMap
    \/ InvokeReducers \/ ReassignReducers \/ EndRereduce \/ CompileCentroids
    \/ \E c \in map_calls : MapOpens(c) \/ MapWrites(c) \/ CollectMap(c)
    \/ \E c \in reduce_calls : Shuffle(c) \/ ReduceSaves(c) \/ CollectReduce(c)
Fault ==
    \/ \E c \in map_calls : MapFails(c) \/ MapTimesOut(c)
    \/ \E c \in reduce_calls : ShuffleMisses(c) \/ ReduceFails(c) \/ ReduceBreaks(c)
Next == Work \/ Fault \/ Done

\* The processes keep running and answer their calls; faults need not happen.
Spec == Init /\ [][Next]_vars /\ WF_vars(Work)
=============================================================================
