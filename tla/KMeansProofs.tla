----------------------------- MODULE KMeansProofs -----------------------------
(***************************************************************************)
(* Proofs about KMeans for every number of mappers, reducers, points and   *)
(* centroids, and every number of failures and errors.                     *)
(*                                                                         *)
(* The types (Types) hold in every state.  While every call is answered,   *)
(* both phases keep one invariant of their calls (Round), and their files  *)
(* hold exactly what the tasks carried out so far make, each task's at one *)
(* process (MapTrue, ReduceTrue).  The rest follows from what the files    *)
(* hold at the end of a phase.                                             *)
(***************************************************************************)
EXTENDS KMeansProperties, TLAPS, FiniteSetTheorems, SequenceTheorems
-----------------------------------------------------------------------------
(* The input is split without loss. *)

\* A point lies in the chunk its quotient tells, or in the last one.
LEMMA ChunkOf ==
    ASSUME NEW p \in Nat, NEW k \in Nat \ {0}
    PROVE  /\ p \div k \in Nat
           /\ (p \div k) * k <= p /\ p < ((p \div k) + 1) * k
  <1>1. p = k * (p \div k) + (p % k) /\ p \div k \in Int /\ p % k \in 0..(k - 1)
    OBVIOUS
  <1>2. p \div k \in Nat
    OBVIOUS
  <1> QED BY <1>1, <1>2

\* Of two chunks the first one ends before the second begins.
LEMMA ChunksApart ==
    ASSUME NEW i \in Nat, NEW j \in Nat, i < j, NEW k \in Nat
    PROVE  (i + 1) * k <= j * k
  <1>1. PICK d \in Nat : j = i + 1 + d
    <2>1. j - (i + 1) \in Nat /\ j = i + 1 + (j - (i + 1))
      OBVIOUS
    <2> QED BY <2>1
  <1>2. j * k = (i + 1) * k + d * k /\ d * k \in Nat /\ (i + 1) * k \in Nat
    BY <1>1
  <1> QED BY <1>2

\* split_input_data: whatever the numbers of lines and of mappers, every point is in the
\* split of exactly one mapper, also when there are more mappers than points.
THEOREM SplitsPartition ==
    \A p \in Point : \E i \in Mapper : p \in Split(i) /\ \A j \in Mapper : p \in Split(j) => j = i
  <1> DEFINE k == NumPoints \div NumMappers
             end(i) == IF i = NumMappers - 1 THEN NumPoints ELSE (i + 1) * k
             last == NumMappers - 1
  <1> USE SizeAssumption
  <1>1. k \in Nat
    OBVIOUS
  <1>2. last \in Nat /\ last \in Mapper /\ Mapper \subseteq Nat
        /\ \A i \in Mapper : i = last \/ i < last
    BY DEF Mapper
  <1>3. \A i \in Mapper, p \in Point : p \in Split(i) <=> i * k <= p /\ p < end(i)
    BY DEF Split
  <1>4. \A i, j \in Mapper : i < j => end(i) <= j * k
    <2> SUFFICES ASSUME NEW i \in Mapper, NEW j \in Mapper, i < j PROVE end(i) <= j * k
      OBVIOUS
    <2>1. i # last
      BY <1>2 DEF Mapper
    <2>2. (i + 1) * k <= j * k
      BY <1>1, <1>2, ChunksApart
    <2> QED BY <2>1, <2>2
  <1>5. \A i \in Mapper : i * k \in Nat /\ end(i) \in Nat
    BY <1>1, <1>2
  <1>6. Point \subseteq Nat /\ \A p \in Point : p < NumPoints
    BY DEF Point
  <1> HIDE DEF k, end, last
  <1>7. ASSUME NEW p \in Point, NEW i \in Mapper, NEW j \in Mapper, p \in Split(i), p \in Split(j)
        PROVE  j = i
    <2>1. CASE i < j
      BY <1>2, <1>3, <1>4, <1>5, <1>6, <1>7, <2>1
    <2>2. CASE j < i
      BY <1>2, <1>3, <1>4, <1>5, <1>6, <1>7, <2>2
    <2>3. i \in Nat /\ j \in Nat
      BY <1>2
    <2> QED BY <2>1, <2>2, <2>3
  <1>8. ASSUME NEW p \in Point PROVE \E i \in Mapper : p \in Split(i)
    <2>0. p \in Nat /\ p < NumPoints
      BY <1>6
    <2>1. CASE last * k <= p
      <3>1. p < end(last)
        BY <2>0 DEF end, last
      <3> QED BY <1>2, <1>3, <2>1, <3>1
    <2>2. CASE ~(last * k <= p)
      <3>1. k # 0
        BY <1>2, <2>0, <2>2
      <3>2. PICK q \in Nat : q * k <= p /\ p < (q + 1) * k
        BY <1>1, <2>0, <3>1, ChunkOf
      <3>3. ~(last < q) /\ q # last
        <4>1. CASE last < q
          <5>1. (last + 1) * k <= q * k /\ last * k <= (last + 1) * k
            BY <1>1, <1>2, <4>1, ChunksApart
          <5>2. last * k \in Nat /\ q * k \in Nat /\ (last + 1) * k \in Nat
            BY <1>1, <1>2
          <5> QED BY <2>0, <2>2, <3>2, <5>1, <5>2
        <4> QED BY <2>2, <3>2, <4>1
      <3>4. q \in Mapper /\ q # last /\ end(q) = (q + 1) * k
        BY <1>2, <3>3 DEF Mapper, end, last
      <3> QED BY <1>3, <3>2, <3>4
    <2> QED BY <2>1, <2>2
  <1> QED BY <1>7, <1>8
-----------------------------------------------------------------------------
(* No mapper is given a task to write and another to append at once. *)

\* The calls the master waits for are one for each task; in the first round each mapper
\* has its own, and in the second one a mapper that is given its own gets no other.
CallsInv ==
    /\ \A c \in map_calls : {"task", "worker", "status", "lost"} \subseteq DOMAIN c
    /\ \A c, d \in Waiting(map_calls) : c.task = d.task => c = d
    /\ phase \notin {"mapping", "remapping"} => Waiting(map_calls) = {}
    /\ phase = "mapping" => \A c \in Waiting(map_calls) : c.worker = c.task
    /\ phase = "remapping" =>
           /\ \A c \in Waiting(map_calls) : c.task \in failed_mappers
           /\ \A c, d \in Waiting(map_calls) : d.worker = c.task => d.task = c.task

\* What leaves the master, its calls and the failed tasks alone keeps CallsInv.
LEMMA CallsFrame ==
    ASSUME CallsInv, map_calls' = map_calls, failed_mappers' = failed_mappers,
           \/ phase' = phase
           \/ /\ phase' \notin {"mapping", "remapping"}
              /\ Waiting(map_calls) = {}
    PROVE  CallsInv'
  BY DEF CallsInv, Waiting

\* So does what leaves fewer calls to wait for, and fails no fewer of their tasks.
LEMMA FewerCalls ==
    ASSUME CallsInv, phase' = phase,
           \A c \in map_calls' : {"task", "worker", "status", "lost"} \subseteq DOMAIN c,
           \A d \in Waiting(map_calls)' :
               /\ \E c \in Waiting(map_calls) : c.task = d.task /\ c.worker = d.worker
               /\ phase = "remapping" => d.task \in failed_mappers',
           \A c, d \in Waiting(map_calls)' : c.task = d.task => c = d
    PROVE  CallsInv'
  <1>1. phase \notin {"mapping", "remapping"} => Waiting(map_calls)' = {}
    BY DEF CallsInv
  <1>2. phase = "mapping" => \A c \in Waiting(map_calls)' : c.worker = c.task
    BY DEF CallsInv
  <1>3. phase = "remapping" => \A c, d \in Waiting(map_calls)' :
                                   d.worker = c.task => d.task = c.task
    BY DEF CallsInv
  <1> QED BY <1>1, <1>2, <1>3 DEF CallsInv

\* What a mapper does about a call changes only what the call says of that, and an answer
\* is kept if the master still waits for it.
LEMMA AnswerKeeps ==
    ASSUME CallsInv, NEW c \in map_calls, NEW e, phase' = phase,
           failed_mappers' = failed_mappers,
           e.task = c.task, e.worker = c.worker, e.lost = c.lost,
           {"task", "worker", "status", "lost"} \subseteq DOMAIN e,
           \/ map_calls' = Answer(map_calls, c, e)
           \/ map_calls' = (map_calls \ {c}) \cup {e}
    PROVE  CallsInv'
  <1>1. /\ \A d \in map_calls' : d \in map_calls \ {c} \/ d = e
        /\ \A d \in map_calls' : {"task", "worker", "status", "lost"} \subseteq DOMAIN d
    BY DEF Answer, CallsInv
  <1>2. \A d \in Waiting(map_calls)' :
            d \in Waiting(map_calls) \ {c} \/ (d = e /\ c \in Waiting(map_calls))
    BY <1>1 DEF Waiting
  <1>3. \A d \in Waiting(map_calls)' :
            /\ \E f \in Waiting(map_calls) : f.task = d.task /\ f.worker = d.worker
            /\ phase = "remapping" => d.task \in failed_mappers'
    BY <1>2 DEF CallsInv
  <1>4. \A f, d \in Waiting(map_calls)' : f.task = d.task => f = d
    BY <1>2 DEF CallsInv
  <1> QED BY <1>1, <1>3, <1>4, FewerCalls

LEMMA MapperKeeps ==
    ASSUME CallsInv, NEW c \in map_calls, MapOpens(c) \/ MapWrites(c) \/ MapFails(c)
    PROVE  CallsInv'
  <1>1. phase' = phase /\ failed_mappers' = failed_mappers
    BY DEF MapOpens, MapWrites, MapFails, masterVars, mapVars
  <1>2. {"task", "worker", "status", "lost"} \subseteq DOMAIN c
    BY DEF CallsInv
  <1>3. CASE MapOpens(c)
    <2>1. PICK e : e = [c EXCEPT !.open = TRUE]
      OBVIOUS
    <2>2. /\ e.task = c.task /\ e.worker = c.worker /\ e.lost = c.lost
          /\ {"task", "worker", "status", "lost"} \subseteq DOMAIN e
          /\ map_calls' = (map_calls \ {c}) \cup {e}
      BY <1>2, <1>3, <2>1 DEF MapOpens
    <2> QED BY <1>1, <2>2, AnswerKeeps
  <1>4. CASE MapWrites(c)
    <2>1. PICK d : d = [c EXCEPT !.open = FALSE, !.file = @ + 1]
      OBVIOUS
    <2>2. PICK e : e = [d EXCEPT !.status = "SUCCESS"]
      OBVIOUS
    <2>3. /\ d.task = c.task /\ d.worker = c.worker /\ d.lost = c.lost
          /\ {"task", "worker", "status", "lost"} \subseteq DOMAIN d
      BY <1>2, <2>1
    <2>4. /\ e.task = c.task /\ e.worker = c.worker /\ e.lost = c.lost
          /\ {"task", "worker", "status", "lost"} \subseteq DOMAIN e
      BY <2>2, <2>3
    <2>5. \/ map_calls' = (map_calls \ {c}) \cup {d}
          \/ map_calls' = Answer(map_calls, c, e)
      BY <1>4, <2>1, <2>2 DEF MapWrites
    <2>6. CASE map_calls' = (map_calls \ {c}) \cup {d}
      BY <1>1, <2>3, <2>6, AnswerKeeps
    <2>7. CASE map_calls' = Answer(map_calls, c, e)
      BY <1>1, <2>4, <2>7, AnswerKeeps
    <2> QED BY <2>5, <2>6, <2>7
  <1>5. CASE MapFails(c)
    <2>1. PICK e : e = [c EXCEPT !.status = "FAILED"]
      OBVIOUS
    <2>2. /\ e.task = c.task /\ e.worker = c.worker /\ e.lost = c.lost
          /\ {"task", "worker", "status", "lost"} \subseteq DOMAIN e
          /\ map_calls' = Answer(map_calls, c, e)
      BY <1>2, <1>5, <2>1 DEF MapFails
    <2> QED BY <1>1, <2>2, AnswerKeeps
  <1> QED BY <1>3, <1>4, <1>5

\* Deleting the files changes no call the master waits for, as there is none.
LEMMA CompileKeeps == ASSUME CallsInv, CompileCentroids PROVE CallsInv'
  <1>1. /\ phase = "reduce" /\ phase' \in {"done", "map"}
        /\ map_calls' = map_calls \/ map_calls' \in FilesDeleted(map_calls)
    BY DEF CompileCentroids
  <1>2. Waiting(map_calls) = {}
    BY <1>1 DEF CallsInv
  <1>3. CASE map_calls' = map_calls
    BY <1>1, <1>2, <1>3 DEF CallsInv, Waiting
  <1>4. CASE map_calls' \in FilesDeleted(map_calls)
    <2> DEFINE after(c) == [c EXCEPT !.open = FALSE, !.file = IF c.open THEN @ + 1 ELSE @]
    <2>1. \A d \in map_calls' : d \in map_calls \/ \E c \in map_calls : d = after(c)
      <3> DEFINE saving == {c \in map_calls : c.file > 0 \/ c.open}
      <3>1. PICK left \in SUBSET {c \in saving : after(c).file < NumReducers} :
                map_calls' = (map_calls \ saving) \cup {after(c) : c \in left}
        BY <1>4 DEF FilesDeleted
      <3> HIDE DEF after
      <3> QED BY <3>1
    <2>2. \A c \in map_calls : /\ after(c).lost = c.lost
                               /\ {"task", "worker", "status", "lost"} \subseteq DOMAIN after(c)
      BY DEF CallsInv
    <2> HIDE DEF after
    <2>3. /\ \A d \in map_calls' : {"task", "worker", "status", "lost"} \subseteq DOMAIN d
          /\ \A d \in map_calls' : \E c \in map_calls : d.lost = c.lost
      BY <2>1, <2>2 DEF CallsInv
    <2>4. Waiting(map_calls)' = {}
      BY <1>2, <2>3 DEF Waiting
    <2> QED BY <1>1, <2>3, <2>4 DEF CallsInv
  <1> QED BY <1>1, <1>3, <1>4

\* The master has an answer, or gives a call up.
LEMMA CollectKeeps ==
    ASSUME CallsInv, NEW c \in map_calls, CollectMap(c) \/ MapTimesOut(c), errors \in Nat
    PROVE  CallsInv'
  <1>1. /\ phase' = phase /\ c \in Waiting(map_calls)
        /\ failed_mappers \ {c.task} \subseteq failed_mappers'
    BY DEF CollectMap, MapTimesOut, Waiting, masterVars
  <1>2. /\ \A d \in map_calls' : {"task", "worker", "status", "lost"} \subseteq DOMAIN d
        /\ Waiting(map_calls)' \subseteq Waiting(map_calls) \ {c}
    <2>1. CASE CollectMap(c)
      BY <2>1 DEF CollectMap, CallsInv, Waiting
    <2>2. CASE MapTimesOut(c)
      <3>1. PICK e : e = [c EXCEPT !.lost = errors']
        OBVIOUS
      <3>2. /\ e.lost # 0 /\ {"task", "worker", "status", "lost"} \subseteq DOMAIN e
        BY <2>2, <3>1 DEF MapTimesOut, CallsInv
      <3>3. \A d \in map_calls' : d \in map_calls \ {c} \/ d = e
        BY <2>2, <3>1 DEF MapTimesOut
      <3> QED BY <3>2, <3>3 DEF CallsInv, Waiting
    <2> QED BY <2>1, <2>2
  <1>3. \A d \in Waiting(map_calls)' : d.task # c.task
    BY <1>1, <1>2 DEF CallsInv
  <1>4. \A d \in Waiting(map_calls)' :
            /\ \E f \in Waiting(map_calls) : f.task = d.task /\ f.worker = d.worker
            /\ phase = "remapping" => d.task \in failed_mappers'
    BY <1>1, <1>2, <1>3 DEF CallsInv
  <1>5. \A f, d \in Waiting(map_calls)' : f.task = d.task => f = d
    BY <1>2 DEF CallsInv
  <1> QED BY <1>1, <1>2, <1>4, <1>5, FewerCalls

\* A first round calls each mapper once.
LEMMA InvokeKeeps == ASSUME CallsInv, InvokeMappers PROVE CallsInv'
  <1>1. PICK T : T = Mapper \ (mapper_responses \cup failed_mappers)
    OBVIOUS
  <1>2. \A i, w : LET d == MapCall(i, w) IN
            /\ d.task = i /\ d.worker = w /\ d.lost = 0
            /\ {"task", "worker", "status", "lost"} \subseteq DOMAIN d
    BY DEF MapCall
  <1>3. /\ map_calls' = map_calls \cup {MapCall(i, i) : i \in T} /\ phase' = "mapping"
        /\ Waiting(map_calls) = {}
    BY <1>1 DEF InvokeMappers, CallsInv
  <1>4. Waiting(map_calls)' = {MapCall(i, i) : i \in T}
    BY <1>2, <1>3 DEF Waiting
  <1>5. \A c, d \in Waiting(map_calls)' : c.worker = c.task /\ (c.task = d.task => c = d)
    BY <1>2, <1>4
  <1>6. \A c \in map_calls' : {"task", "worker", "status", "lost"} \subseteq DOMAIN c
    BY <1>2, <1>3 DEF CallsInv
  <1> QED BY <1>3, <1>5, <1>6 DEF CallsInv

\* A second one gives each failed task to a mapper that did not fail, or to its own.
LEMMA ReassignKeeps == ASSUME CallsInv, ReassignMappers PROVE CallsInv'
  <1>0. Waiting(map_calls) = {}
    BY DEF ReassignMappers, RoundOver
  <1>1. CASE phase' = "map"
    <2>1. map_calls' = map_calls
      BY <1>1 DEF ReassignMappers
    <2> QED BY <1>0, <1>1, <2>1 DEF CallsInv, Waiting
  <1>2. CASE phase' # "map"
    <2>1. /\ phase' = "remapping" /\ failed_mappers' = failed_mappers
          /\ \E new \in [failed_mappers -> Mapper] :
                 /\ \A i \in failed_mappers :
                        new[i] \in NewWorker(Mapper \ failed_mappers, i, Mapper)
                 /\ map_calls' = map_calls \cup {MapCall(i, new[i]) : i \in failed_mappers}
      BY <1>2 DEF ReassignMappers
    <2>2. PICK new \in [failed_mappers -> Mapper] :
              /\ \A i \in failed_mappers : new[i] \notin failed_mappers \/ new[i] = i
              /\ map_calls' = map_calls \cup {MapCall(i, new[i]) : i \in failed_mappers}
      BY <2>1 DEF NewWorker
    <2>3. \A i, w : LET d == MapCall(i, w) IN
              /\ d.task = i /\ d.worker = w /\ d.lost = 0
              /\ {"task", "worker", "status", "lost"} \subseteq DOMAIN d
      BY DEF MapCall
    <2>4. Waiting(map_calls)' = {MapCall(i, new[i]) : i \in failed_mappers}
      BY <1>0, <2>2, <2>3 DEF Waiting
    <2>5. \A c \in Waiting(map_calls)' :
              /\ c.task \in failed_mappers /\ c.worker = new[c.task]
              /\ c = MapCall(c.task, new[c.task])
      BY <2>3, <2>4
    <2>6. \A c, d \in Waiting(map_calls)' :
              (c.task = d.task => c = d) /\ (d.worker = c.task => d.task = c.task)
      BY <2>2, <2>5
    <2>7. \A c \in map_calls' : {"task", "worker", "status", "lost"} \subseteq DOMAIN c
      BY <2>2, <2>3 DEF CallsInv
    <2> QED BY <2>1, <2>5, <2>6, <2>7 DEF CallsInv
  <1> QED BY <1>1, <1>2

\* Every step keeps CallsInv.
LEMMA StepCalls == CallsInv /\ errors \in Nat /\ [Next]_vars => CallsInv'
  <1> SUFFICES ASSUME CallsInv, errors \in Nat, [Next]_vars PROVE CallsInv'
    OBVIOUS
  <1>1. CASE InvokeMappers \/ ReassignMappers
    BY <1>1, InvokeKeeps, ReassignKeeps
  <1>2. CASE EndRemap \/ EndMap
    BY <1>2, CallsFrame DEF EndRemap, EndMap, RoundOver, mapVars, CallsInv
  <1>3. CASE InvokeReducers \/ ReassignReducers \/ EndRereduce
    <2>1. /\ phase \notin {"mapping", "remapping"} /\ phase' \notin {"mapping", "remapping"}
          /\ map_calls' = map_calls /\ failed_mappers' = failed_mappers
      BY <1>3 DEF InvokeReducers, ReassignReducers, EndRereduce, mapVars
    <2> QED BY <2>1, CallsFrame DEF CallsInv
  <1>4. CASE CompileCentroids
    BY <1>4, CompileKeeps
  <1>5. ASSUME NEW c \in map_calls, MapOpens(c) \/ MapWrites(c) \/ MapFails(c)
        PROVE  CallsInv'
    BY <1>5, MapperKeeps
  <1>6. ASSUME NEW c \in map_calls, CollectMap(c) \/ MapTimesOut(c) PROVE CallsInv'
    BY <1>6, CollectKeeps
  <1>7. CASE \E c \in reduce_calls : Shuffle(c) \/ ReduceSaves(c) \/ CollectReduce(c)
                 \/ ShuffleMisses(c) \/ ReduceFails(c) \/ ReduceBreaks(c)
    <2>1. phase' = phase /\ map_calls' = map_calls /\ failed_mappers' = failed_mappers
      BY <1>7 DEF Shuffle, ReduceSaves, CollectReduce, ShuffleMisses, ReduceFails,
         ReduceBreaks, masterVars, mapVars
    <2> QED BY <2>1, CallsFrame
  <1>8. CASE UNCHANGED vars
    BY <1>8, CallsFrame DEF vars, masterVars, mapVars
  <1> QED BY <1>1, <1>2, <1>3, <1>4, <1>5, <1>6, <1>7, <1>8 DEF Next, Work, Fault, Done

\* The number of calls given up is a number.
ErrorsCounted == errors \in Nat

LEMMA StepErrors == ErrorsCounted /\ [Next]_vars => ErrorsCounted'
  <1> SUFFICES ASSUME ErrorsCounted, [Next]_vars
               PROVE  errors' = errors \/ errors' = errors + 1
    BY DEF ErrorsCounted
  <1>1. CASE \/ InvokeMappers \/ ReassignMappers \/ EndRemap \/ EndMap
             \/ InvokeReducers \/ ReassignReducers \/ EndRereduce \/ CompileCentroids
    BY <1>1 DEF InvokeMappers, ReassignMappers, EndRemap, EndMap, InvokeReducers,
       ReassignReducers, EndRereduce, CompileCentroids, faultVars
  <1>2. CASE \/ \E c \in map_calls : MapOpens(c) \/ MapWrites(c) \/ CollectMap(c)
             \/ \E c \in reduce_calls : Shuffle(c) \/ ReduceSaves(c) \/ CollectReduce(c)
    BY <1>2 DEF MapOpens, MapWrites, CollectMap, Shuffle, ReduceSaves, CollectReduce, faultVars
  <1>3. CASE \/ \E c \in map_calls : MapFails(c) \/ MapTimesOut(c)
             \/ \E c \in reduce_calls : ReduceFails(c) \/ ShuffleMisses(c) \/ ReduceBreaks(c)
    BY <1>3 DEF MapFails, MapTimesOut, ReduceFails, ShuffleMisses, ReduceBreaks, faultVars
  <1>4. CASE UNCHANGED vars
    BY <1>4 DEF vars, faultVars
  <1> QED BY <1>1, <1>2, <1>3, <1>4 DEF Next, Work, Fault, Done

\* Reassigned tasks go to mappers that have answered their own, or back to their own: the
\* master never has one mapper open the same files with "w" and with "a" at a time.
THEOREM NoRace == Spec => []NoTruncationRace
  <1>1. Init => CallsInv /\ ErrorsCounted
    BY DEF Init, CallsInv, Waiting, ErrorsCounted
  <1>2. ErrorsCounted /\ [Next]_vars => ErrorsCounted'
    BY StepErrors
  <1>3. CallsInv => NoTruncationRace
    <2> SUFFICES ASSUME CallsInv, NEW c \in Waiting(map_calls), NEW d \in Waiting(map_calls),
                        c.worker = d.worker, c.task = c.worker
                 PROVE  c = d
      BY DEF NoTruncationRace
    <2>1. d.task = c.task
      BY DEF CallsInv
    <2> QED BY <2>1 DEF CallsInv
  <1>4. CallsInv /\ ErrorsCounted /\ [Next]_vars => CallsInv'
    BY StepCalls DEF ErrorsCounted
  <1> QED BY <1>1, <1>2, <1>3, <1>4, PTL DEF Spec

-----------------------------------------------------------------------------
(* Bags. *)

\* The bags of members of S.
BagsOf(S) == UNION {[R -> Nat \ {0}] : R \in SUBSET S}

LEMMA BagIs ==
    ASSUME NEW S, NEW b
    PROVE  b \in BagsOf(S) <=> IsABag(b) /\ DOMAIN b \subseteq S
  <1>1. {n \in Nat : n > 0} = Nat \ {0}
    OBVIOUS
  <1>2. b \in BagsOf(S) <=> \E R \in SUBSET S : b \in [R -> Nat \ {0}]
    BY DEF BagsOf
  <1>3. IsABag(b) <=> b \in [DOMAIN b -> Nat \ {0}]
    BY <1>1 DEF IsABag
  <1> QED BY <1>2, <1>3

LEMMA SetBag ==
    ASSUME NEW S, NEW R \in SUBSET S
    PROVE  SetToBag(R) \in BagsOf(S) /\ DOMAIN SetToBag(R) = R
  <1>1. SetToBag(R) \in [R -> Nat \ {0}] /\ DOMAIN SetToBag(R) = R
    BY DEF SetToBag
  <1> QED BY <1>1 DEF BagsOf

LEMMA SumBag ==
    ASSUME NEW S, NEW a \in BagsOf(S), NEW b \in BagsOf(S)
    PROVE  a (+) b \in BagsOf(S) /\ DOMAIN (a (+) b) = DOMAIN a \cup DOMAIN b
  <1>1. /\ \A x \in DOMAIN a : a[x] \in Nat \ {0}
        /\ \A x \in DOMAIN b : b[x] \in Nat \ {0}
        /\ DOMAIN a \cup DOMAIN b \subseteq S
    BY DEF BagsOf
  <1>2. PICK R : R = DOMAIN a \cup DOMAIN b
    OBVIOUS
  <1>3. a (+) b = [x \in R |-> (IF x \in DOMAIN a THEN a[x] ELSE 0)
                               + (IF x \in DOMAIN b THEN b[x] ELSE 0)]
    BY <1>2 DEF (+)
  <1>4. \A x \in R : (IF x \in DOMAIN a THEN a[x] ELSE 0)
                     + (IF x \in DOMAIN b THEN b[x] ELSE 0) \in Nat \ {0}
    BY <1>1, <1>2
  <1>5. a (+) b \in [R -> Nat \ {0}]
    BY <1>3, <1>4
  <1>6. R \in SUBSET S
    BY <1>1, <1>2
  <1> QED BY <1>2, <1>5, <1>6 DEF BagsOf

\* Sets that have nothing in common add up to their union.
LEMMA SumOfSets ==
    ASSUME NEW S, NEW R, S \cap R = {}
    PROVE  SetToBag(S) (+) SetToBag(R) = SetToBag(S \cup R)
  BY DEF SetToBag, (+)

-----------------------------------------------------------------------------
(* Types. *)

Centroid == 0..(NumCentroids - 1)
Response == [task : Reducer, centroid : Centroid, points : BagsOf(Point)]
Status == {"sent", "SUCCESS", "FAILED"}
\* A call whose files are all saved is one that succeeded; a file is open before that, and
\* none was when a call failed.
MapCallFields == [task : Mapper, worker : Mapper, nearest : [Point -> Centroid],
                  file : 0..NumReducers, open : BOOLEAN, status : Status, lost : Nat]
MapCallType ==
    {c \in MapCallFields :
        /\ c.status = "SUCCESS" <=> c.file = NumReducers
        /\ c.status = "FAILED" => c.file = 0
        /\ c.open => c.status = "sent"}
ReduceCallType == [task : Reducer, worker : Reducer, next : 0..NumMappers,
                   data : BagsOf(Line), status : Status, lost : Nat]

InputTypes ==
    /\ phase \in {"map", "mapping", "remapping", "reduce", "reducing", "rereducing",
                  "done"}
    /\ iteration \in 1..NumIterations
    /\ centroids \in 1..NumCentroids /\ nearest \in [Point -> 0..(centroids - 1)]
ListTypes ==
    /\ mapper_responses \subseteq Mapper /\ failed_mappers \subseteq Mapper
    /\ reducer_no_tasks \subseteq Reducer /\ failed_reducers \subseteq Reducer
    /\ reducer_responses \in Seq(Response)
CallTypes == map_calls \subseteq MapCallType /\ reduce_calls \subseteq ReduceCallType
FileTypes ==
    /\ partitions \in [Mapper -> [Reducer -> BagsOf(Line)]]
    /\ output \in [Reducer -> BagsOf(Response)]
CountTypes ==
    failures \in 0..MaxFailures /\ errors \in 0..MaxErrors /\ harm \in BOOLEAN

Types == InputTypes /\ ListTypes /\ CallTypes /\ FileTypes /\ CountTypes

\* The old centroids are among the possible ones.
LEMMA NearestType ==
    ASSUME NEW k \in 1..NumCentroids, NEW a \in [Point -> 0..(k - 1)]
    PROVE  a \in [Point -> Centroid]
  <1>1. 0..(k - 1) \subseteq Centroid
    BY SizeAssumption DEF Centroid
  <1> QED BY <1>1

LEMMA CentroidsFinite ==
    IsFiniteSet(Centroid) /\ Cardinality(Centroid) = NumCentroids
  <1>1. 0 \in Int /\ NumCentroids - 1 \in Int /\ ~(0 > NumCentroids - 1)
        /\ (NumCentroids - 1) - 0 + 1 = NumCentroids
    BY SizeAssumption
  <1> QED BY <1>1, FS_Interval DEF Centroid

\* A reducer has a response for each centroid in its lines, and no others.
LEMMA ResponsesType ==
    ASSUME NEW c \in ReduceCallType
    PROVE  Responses(c) \subseteq Response /\ IsFiniteSet(Responses(c))
  <1>1. c.task \in Reducer /\ c.data \in BagsOf(Line)
    BY DEF ReduceCallType
  <1>2. DOMAIN c.data \subseteq Line /\ \A x \in DOMAIN c.data : c.data[x] \in Nat \ {0}
    BY <1>1, BagIs DEF BagsOf
  <1> DEFINE D == {line[1] : line \in DOMAIN c.data}
             Q(d) == {q \in Point : <<d, q>> \in DOMAIN c.data}
             b(d) == [p \in Q(d) |-> c.data[<<d, p>>]]
             r(d) == [task |-> c.task, centroid |-> d, points |-> b(d)]
  <1>3. D \subseteq Centroid
    BY <1>2 DEF Line, Centroid
  <1>4. ASSUME NEW d \in D PROVE r(d) \in Response
    <2>1. b(d) \in [Q(d) -> Nat \ {0}] /\ Q(d) \in SUBSET Point
      BY <1>2
    <2>2. b(d) \in BagsOf(Point)
      BY <2>1 DEF BagsOf
    <2> HIDE DEF b, D
    <2> QED BY <1>1, <1>3, <2>2 DEF Response
  <1>5. Responses(c) = {r(d) : d \in D}
    BY DEF Responses
  <1>6. IsFiniteSet(D)
    BY <1>3, CentroidsFinite, FS_Subset
  <1> HIDE DEF D, r
  <1>7. IsFiniteSet({r(d) : d \in D})
    <2> DEFINE f == [d \in D |-> r(d)]
    <2>1. f \in Surjection(D, {r(d) : d \in D})
      BY DEF Surjection
    <2> HIDE DEF f
    <2> QED BY <1>6, <2>1, FS_Surjection
  <1> QED BY <1>4, <1>5, <1>7

\* SetToSeq lists a finite set without repetition.
LEMMA Listed ==
    ASSUME NEW S, IsFiniteSet(S)
    PROVE  /\ SetToSeq(S) \in Seq(S) /\ Len(SetToSeq(S)) = Cardinality(S)
           /\ \A j, k \in 1..Cardinality(S) : SetToSeq(S)[j] = SetToSeq(S)[k] => j = k
  <1>1. Cardinality(S) \in Nat
    BY FS_CardinalityType
  <1>2. PICK f : f \in [1..Cardinality(S) -> S] /\ IsInjective(f)
    <2>1. \E f : f \in Bijection(1..Cardinality(S), S)
      BY FS_CardinalityType, Zenon DEF ExistsBijection
    <2> QED BY <2>1 DEF Bijection, Injection
  <1>3. SetToSeq(S) \in [1..Cardinality(S) -> S] /\ IsInjective(SetToSeq(S))
    BY <1>2 DEF SetToSeq
  <1> QED BY <1>1, <1>3 DEF IsInjective

-----------------------------------------------------------------------------
(* Every state has the types of Types. *)

LEMMA SavedType ==
    ASSUME NEW S, NEW file \in BagsOf(S), NEW c, NEW lines \in SUBSET S
    PROVE  Saved(file, c, lines) \in BagsOf(S)
  BY SetBag, SumBag DEF Saved

LEMMA TypesInit == Init => Types
  <1> SUFFICES ASSUME Init PROVE Types
    OBVIOUS
  <1>1. InputTypes
    BY SizeAssumption DEF Init, InputTypes, Assignments
  <1>2. ListTypes
    BY DEF Init, ListTypes
  <1>3. \A S : EmptyBag \in BagsOf(S)
    BY SetBag DEF EmptyBag
  <1>4. FileTypes
    BY <1>3 DEF Init, FileTypes, NoFiles
  <1>5. CallTypes
    BY DEF Init, CallTypes
  <1>6. harm \in BOOLEAN
    BY DEF Init
  <1>7. CountTypes
    BY <1>6, SizeAssumption DEF Init, CountTypes
  <1> QED BY <1>1, <1>2, <1>4, <1>5, <1>7 DEF Types

\* The lines of a call, and what is made of a file they are written to.
LEMMA WrittenType ==
    ASSUME NEW c \in MapCallType, NEW file \in BagsOf(Line), NEW new \in Written(file, c)
    PROVE  new \in BagsOf(Line)
  <1>1. Lines(c, c.file) \in SUBSET Line
    BY DEF MapCallType, MapCallFields, Lines, Line, Split, Centroid
  <1>2. SetToBag(Lines(c, c.file)) \in BagsOf(Line)
    BY <1>1, SetBag
  <1>3. PICK kept : /\ kept \in SomeOf(file) \/ kept = file
                    /\ new = kept (+) SetToBag(Lines(c, c.file))
    BY DEF Written
  <1>4. kept \in BagsOf(Line)
    <2>1. CASE kept \in SomeOf(file)
      <3>1. kept \in BagsOf(DOMAIN file)
        <4>1. PICK S \in SUBSET DOMAIN file : kept \in [S -> UNION {1..file[x] : x \in S}]
          BY <2>1 DEF SomeOf
        <4>2. \A x \in DOMAIN file : file[x] \in Nat \ {0}
          BY DEF BagsOf
        <4>3. UNION {1..file[x] : x \in S} \subseteq Nat \ {0}
          BY <4>2
        <4>4. kept \in [S -> Nat \ {0}]
          BY <4>1, <4>3
        <4> QED BY <4>4 DEF BagsOf
      <3>2. DOMAIN file \subseteq Line
        BY DEF BagsOf
      <3> QED BY <3>1, <3>2 DEF BagsOf
    <2> QED BY <1>3, <2>1
  <1> QED BY <1>2, <1>3, <1>4, SumBag

\* Mappers save, and answer, or fail to.
LEMMA TypesMap ==
    ASSUME Types, NEW c \in map_calls, MapOpens(c) \/ MapWrites(c) \/ MapFails(c)
    PROVE  Types'
  <1>1. c \in MapCallType /\ NumReducers \in Nat \ {0}
    BY SizeAssumption DEF Types, CallTypes
  <1>2. /\ InputTypes' /\ ListTypes' /\ reduce_calls' \subseteq ReduceCallType
        /\ output' = output /\ errors' = errors /\ harm \in BOOLEAN
    BY DEF MapOpens, MapWrites, MapFails, masterVars, inputVars, mapVars, reduceVars, Types,
       InputTypes, ListTypes, CallTypes, CountTypes
  <1>3. CASE MapFails(c)
    <2>1. PICK e : e = [c EXCEPT !.status = "FAILED"]
      OBVIOUS
    <2>2. e \in MapCallType
      BY <1>1, <1>3, <2>1 DEF MapFails, MapCallType, MapCallFields, Status
    <2>3. map_calls' \subseteq MapCallType
      BY <1>3, <2>1, <2>2 DEF MapFails, Answer, Types, CallTypes
    <2>4. UNCHANGED <<partitions, harm>> /\ failures' = failures + 1
          /\ failures + errors < MaxFailures
      BY <1>3 DEF MapFails
    <2>5. CountTypes'
      BY <1>2, <2>4, SizeAssumption DEF Types, CountTypes
    <2> QED BY <1>2, <2>3, <2>4, <2>5 DEF Types, CallTypes, FileTypes
  <1>4. ASSUME MapOpens(c) \/ MapWrites(c),
               NEW file \in BagsOf(Line),
               partitions' = [partitions EXCEPT ![c.worker][c.file] = file],
               map_calls' \subseteq MapCallType
        PROVE  Types'
    <2>1. harm' \in BOOLEAN /\ failures' = failures
      BY <1>2, <1>4 DEF MapOpens, MapWrites
    <2>2. partitions' \in [Mapper -> [Reducer -> BagsOf(Line)]]
      <3>1. partitions \in [Mapper -> [Reducer -> BagsOf(Line)]]
        BY DEF Types, FileTypes
      <3> QED BY <1>4, <3>1
    <2>3. CountTypes'
      BY <1>2, <2>1 DEF Types, CountTypes
    <2> QED BY <1>2, <1>4, <2>2, <2>3 DEF Types, CallTypes, FileTypes
  <1>5. c.status = "sent" => /\ c.file \in Reducer
                             /\ partitions[c.worker][c.file] \in BagsOf(Line)
    <2>1. c.status = "sent" => c.file \in Reducer /\ c.worker \in Mapper
      BY <1>1 DEF MapCallType, MapCallFields, Reducer
    <2> QED BY <2>1 DEF Types, FileTypes
  <1>6. CASE MapOpens(c)
    <2>1. PICK e : e = [c EXCEPT !.open = TRUE]
      OBVIOUS
    <2>2. e \in MapCallType
      BY <1>1, <1>6, <2>1 DEF MapOpens, MapCallType, MapCallFields
    <2>3. map_calls' \subseteq MapCallType
      BY <1>6, <2>1, <2>2 DEF MapOpens, Types, CallTypes
    <2>4. PICK file : file = Opened(partitions[c.worker][c.file], c)
      OBVIOUS
    <2>5. EmptyBag \in BagsOf(Line)
      BY SetBag DEF EmptyBag
    <2>6. file \in BagsOf(Line)
      BY <1>5, <1>6, <2>4, <2>5 DEF Opened, MapOpens
    <2>7. partitions' = [partitions EXCEPT ![c.worker][c.file] = file]
      BY <1>6, <2>4 DEF MapOpens, Opened
    <2> QED BY <1>4, <1>6, <2>3, <2>6, <2>7
  <1>7. CASE MapWrites(c)
    <2>0. c.status = "sent"
      BY <1>1, <1>7 DEF MapCallType, MapCallFields, MapWrites
    <2>1. PICK d : d = [c EXCEPT !.open = FALSE, !.file = @ + 1]
      OBVIOUS
    <2>2. PICK e : e = [d EXCEPT !.status = "SUCCESS"]
      OBVIOUS
    <2>3. map_calls' = IF d.file < NumReducers THEN (map_calls \ {c}) \cup {d}
                       ELSE Answer(map_calls, c, e)
      BY <1>7, <2>1, <2>2 DEF MapWrites
    <2>4. /\ d \in MapCallFields /\ d.open = FALSE /\ d.status = "sent"
          /\ d.file = c.file + 1 /\ c.file \in 0..(NumReducers - 1)
      <3>1. c.file \in 0..(NumReducers - 1) /\ c.file + 1 \in 0..NumReducers
        BY <1>5, <2>0, SizeAssumption DEF Reducer
      <3>2. c \in MapCallFields
        BY <1>1 DEF MapCallType
      <3> QED BY <2>0, <2>1, <3>1, <3>2 DEF MapCallFields
    <2>9. d.file < NumReducers => d \in MapCallType
      BY <1>1, <2>4 DEF MapCallType
    <2>5. ~(d.file < NumReducers) => e \in MapCallType
      <3>1. /\ e \in MapCallFields /\ e.open = FALSE /\ e.status = "SUCCESS"
            /\ e.file = d.file
        BY <2>2, <2>4 DEF MapCallFields, Status
      <3> QED BY <1>1, <2>4, <3>1 DEF MapCallType
    <2>6. map_calls' \subseteq MapCallType
      BY <2>3, <2>9, <2>5 DEF Answer, Types, CallTypes
    <2>7. PICK file \in Written(partitions[c.worker][c.file], c) :
              partitions' = [partitions EXCEPT ![c.worker][c.file] = file]
      BY <1>7 DEF MapWrites
    <2>8. file \in BagsOf(Line)
      BY <1>1, <1>5, <2>0, <2>7, WrittenType
    <2> QED BY <1>4, <1>7, <2>6, <2>7, <2>8
  <1> QED BY <1>3, <1>6, <1>7

\* The master takes an answer, or gives up waiting for it.
LEMMA TypesCollect ==
    ASSUME Types, NEW c \in map_calls, CollectMap(c) \/ MapTimesOut(c)
    PROVE  Types'
  <1>1. c \in MapCallType /\ errors \in Nat
    BY DEF Types, CallTypes, CountTypes
  <1>2. /\ UNCHANGED <<phase, iteration, centroids, nearest, reducer_responses,
                       reducer_no_tasks, failed_reducers, reduce_calls, partitions,
                       output, failures>>
        /\ mapper_responses' \in {mapper_responses, mapper_responses \cup {c.task}}
        /\ failed_mappers' \subseteq failed_mappers \cup {c.task}
        /\ \A d \in map_calls' : d \in map_calls \/ d = [c EXCEPT !.lost = errors']
        /\ \/ errors' = errors
           \/ errors' = errors + 1 /\ errors < MaxErrors
        /\ harm' = harm
    BY DEF CollectMap, MapTimesOut, MayLose, masterVars, inputVars, mapVars, reduceVars,
       faultVars
  <1>3. errors' \in 0..MaxErrors
    BY <1>2, SizeAssumption DEF Types, CountTypes
  <1>4. [c EXCEPT !.lost = errors'] \in MapCallType
    BY <1>1, <1>3 DEF MapCallType, MapCallFields
  <1>5. CallTypes' /\ CountTypes'
    BY <1>2, <1>3, <1>4 DEF Types, CallTypes, CountTypes
  <1>6. c.task \in Mapper
    BY <1>1 DEF MapCallType, MapCallFields
  <1>7. InputTypes' /\ ListTypes' /\ FileTypes'
    BY <1>2, <1>6 DEF Types, InputTypes, ListTypes, FileTypes
  <1> QED BY <1>5, <1>7 DEF Types

\* The steps between the rounds of calls.
LEMMA TypesRounds ==
    ASSUME Types,
           \/ InvokeMappers \/ ReassignMappers \/ EndRemap \/ EndMap
           \/ InvokeReducers \/ ReassignReducers \/ EndRereduce
    PROVE  Types'
  <1>1. \A i, w \in Mapper : MapCall(i, w) \in MapCallType
    <2>1. nearest \in [Point -> Centroid]
      BY NearestType DEF Types, InputTypes
    <2>2. 0 \in 0..NumReducers /\ 0 # NumReducers
      BY SizeAssumption
    <2> QED BY <2>1, <2>2 DEF MapCall, MapCallType, MapCallFields, Status
  <1>2. \A i, w \in Reducer : ReduceCall(i, w) \in ReduceCallType
    <2>1. EmptyBag \in BagsOf(Line)
      BY SetBag DEF EmptyBag
    <2>2. 0 \in 0..NumMappers
      BY SizeAssumption
    <2> QED BY <2>1, <2>2 DEF ReduceCall, ReduceCallType, Status
  <1>3. /\ UNCHANGED <<iteration, centroids, nearest, mapper_responses, reducer_responses,
                       reducer_no_tasks, partitions, output, failures, errors, harm>>
        /\ phase' \in {"map", "mapping", "remapping", "reduce", "reducing", "rereducing"}
        /\ failed_mappers' \in {failed_mappers, {}} /\ failed_reducers' \in {failed_reducers, {}}
    BY DEF InvokeMappers, ReassignMappers, EndRemap, EndMap, InvokeReducers,
       ReassignReducers, EndRereduce, inputVars, mapVars, reduceVars, faultVars, Forgiven
  <1>4. InputTypes' /\ ListTypes' /\ FileTypes' /\ CountTypes'
    BY <1>3 DEF Types, InputTypes, ListTypes, FileTypes, CountTypes
  <1>5. map_calls' \subseteq MapCallType
    <2>1. CASE InvokeMappers
      BY <1>1, <2>1 DEF InvokeMappers, Types, CallTypes
    <2>2. CASE ReassignMappers
      <3>1. map_calls' = map_calls \/ \E new \in [failed_mappers -> Mapper] :
                map_calls' = map_calls \cup {MapCall(i, new[i]) : i \in failed_mappers}
        BY <2>2 DEF ReassignMappers
      <3> QED BY <1>1, <3>1 DEF Types, CallTypes, ListTypes
    <2>3. CASE EndRemap \/ EndMap \/ InvokeReducers \/ ReassignReducers \/ EndRereduce
      BY <2>3 DEF EndRemap, EndMap, InvokeReducers, ReassignReducers, EndRereduce, Types,
         CallTypes
    <2> QED BY <2>1, <2>2, <2>3
  <1>6. reduce_calls' \subseteq ReduceCallType
    <2>1. CASE InvokeReducers
      BY <1>2, <2>1 DEF InvokeReducers, Types, CallTypes
    <2>2. CASE ReassignReducers
      <3>1. reduce_calls' = reduce_calls \/ \E new \in [failed_reducers -> Reducer] :
                reduce_calls' = reduce_calls \cup {ReduceCall(i, new[i]) : i \in failed_reducers}
        BY <2>2 DEF ReassignReducers
      <3> QED BY <1>2, <3>1 DEF Types, CallTypes, ListTypes
    <2>3. CASE InvokeMappers \/ ReassignMappers \/ EndRemap \/ EndMap \/ EndRereduce
      BY <2>3 DEF InvokeMappers, ReassignMappers, EndRemap, EndMap, EndRereduce, Types,
         CallTypes
    <2> QED BY <2>1, <2>2, <2>3
  <1>7. CallTypes'
    BY <1>5, <1>6 DEF CallTypes
  <1> QED BY <1>4, <1>7 DEF Types

\* Reducers gather their lines, and answer.
LEMMA TypesReduce ==
    ASSUME Types, NEW c \in reduce_calls,
           Shuffle(c) \/ ShuffleMisses(c) \/ ReduceSaves(c) \/ ReduceFails(c)
    PROVE  Types'
  <1>1. c \in ReduceCallType /\ failures \in Nat /\ errors \in Nat
    BY DEF Types, CallTypes, CountTypes
  <1>2. /\ UNCHANGED <<phase, iteration, centroids, nearest, mapper_responses,
                       failed_mappers, reducer_responses, reducer_no_tasks,
                       failed_reducers, map_calls, partitions>>
        /\ harm' \in {harm, TRUE, FALSE}
        /\ \/ failures' = failures
           \/ failures' = failures + 1 /\ failures + errors < MaxFailures
        /\ \/ errors' = errors
           \/ errors' = errors + 1 /\ errors < MaxErrors
    BY DEF Shuffle, ShuffleMisses, ReduceSaves, ReduceFails, MayLose, masterVars,
       inputVars, mapVars, reduceVars, faultVars
  <1>3. CountTypes'
    <2>1. harm' \in BOOLEAN
      BY <1>2, Zenon DEF Types, CountTypes
    <2>2. failures \in 0..MaxFailures /\ errors \in 0..MaxErrors
      BY DEF Types, CountTypes
    <2> QED BY <1>2, <2>1, <2>2, SizeAssumption DEF CountTypes
  <1>4. InputTypes' /\ ListTypes'
    BY <1>2 DEF Types, InputTypes, ListTypes
  <1>5. reduce_calls' \subseteq ReduceCallType
    <2>1. CASE Shuffle(c) \/ ShuffleMisses(c)
      <3>1. c.next \in 0..NumMappers /\ c.next < NumMappers /\ c.next \in Mapper
        BY <1>1, <2>1, SizeAssumption DEF Shuffle, ShuffleMisses, ReduceCallType, Mapper
      <3>2. c.next + 1 \in 0..NumMappers
        BY <3>1, SizeAssumption
      <3>3. [c EXCEPT !.next = @ + 1] \in ReduceCallType
        BY <1>1, <3>2 DEF ReduceCallType
      <3>4. c.data (+) partitions[c.next][c.task] \in BagsOf(Line)
        <4>1. c.data \in BagsOf(Line) /\ c.task \in Reducer
          BY <1>1 DEF ReduceCallType
        <4>2. partitions[c.next][c.task] \in BagsOf(Line)
          BY <3>1, <4>1 DEF Types, FileTypes
        <4> QED BY <4>1, <4>2, SumBag
      <3>5. [c EXCEPT !.data = @ (+) partitions[c.next][c.task], !.next = @ + 1]
                \in ReduceCallType
        BY <1>1, <3>2, <3>4 DEF ReduceCallType
      <3> QED BY <2>1, <3>3, <3>5 DEF Shuffle, ShuffleMisses, Types, CallTypes
    <2>2. CASE ReduceSaves(c) \/ ReduceFails(c)
      <3>1. \A s \in Status : [c EXCEPT !.status = s] \in ReduceCallType
        BY <1>1 DEF ReduceCallType
      <3>2. \E s \in Status : reduce_calls' = Answer(reduce_calls, c, [c EXCEPT !.status = s])
        BY <2>2 DEF ReduceSaves, ReduceFails, Status
      <3> QED BY <3>1, <3>2 DEF Answer, Types, CallTypes
    <2> QED BY <2>1, <2>2
  <1>6. output' \in [Reducer -> BagsOf(Response)]
    <2>1. CASE ReduceSaves(c)
      <3>1. c.worker \in Reducer
        BY <1>1 DEF ReduceCallType
      <3>2. Saved(output[c.worker], c, Responses(c)) \in BagsOf(Response)
        BY <1>1, <3>1, ResponsesType, SavedType DEF Types, FileTypes
      <3>3. output' = [output EXCEPT ![c.worker] = Saved(output[c.worker], c, Responses(c))]
        BY <2>1 DEF ReduceSaves
      <3> QED BY <3>1, <3>2, <3>3 DEF Types, FileTypes
    <2>2. CASE Shuffle(c) \/ ShuffleMisses(c) \/ ReduceFails(c)
      BY <2>2 DEF Shuffle, ShuffleMisses, ReduceFails, Types, FileTypes
    <2> QED BY <2>1, <2>2
  <1>7. FileTypes' /\ CallTypes'
    BY <1>2, <1>5, <1>6 DEF Types, FileTypes, CallTypes
  <1> QED BY <1>3, <1>4, <1>7 DEF Types

\* Responses are added at the end.
LEMMA MoreResponses ==
    ASSUME NEW got \in SUBSET Response, IsFiniteSet(got), reducer_responses \in Seq(Response)
    PROVE  reducer_responses \o SetToSeq(got) \in Seq(Response)
  <1>1. SetToSeq(got) \in Seq(Response)
    BY Listed
  <1> QED BY <1>1, ConcatProperties

\* The master takes the responses of a reducer, or some of them.
LEMMA TypesResponses ==
    ASSUME Types, NEW c \in reduce_calls, CollectReduce(c) \/ ReduceBreaks(c)
    PROVE  Types'
  <1>1. c \in ReduceCallType /\ errors \in Nat /\ c.task \in Reducer
    BY DEF Types, CallTypes, CountTypes, ReduceCallType
  <1>2. /\ UNCHANGED <<phase, iteration, centroids, nearest, mapper_responses,
                       failed_mappers, map_calls, partitions, output, failures>>
        /\ reducer_no_tasks' \subseteq reducer_no_tasks \cup {c.task}
        /\ failed_reducers' \subseteq failed_reducers \cup {c.task}
        /\ \A d \in reduce_calls' : d \in reduce_calls \/ d = [c EXCEPT !.lost = errors']
        /\ \/ errors' = errors
           \/ errors' = errors + 1 /\ errors < MaxErrors
        /\ harm' \in {harm, TRUE, FALSE}
    BY DEF CollectReduce, ReduceBreaks, MayLose, masterVars, inputVars, mapVars, faultVars
  <1>3. errors' \in 0..MaxErrors
    BY <1>2, SizeAssumption DEF Types, CountTypes
  <1>4. [c EXCEPT !.lost = errors'] \in ReduceCallType
    BY <1>1, <1>3 DEF ReduceCallType
  <1>5. reducer_responses' \in Seq(Response)
    <2>1. Responses(c) \subseteq Response /\ IsFiniteSet(Responses(c))
      BY <1>1, ResponsesType
    <2>2. \/ reducer_responses' = reducer_responses
          \/ \E got \in SUBSET Responses(c) :
                 reducer_responses' = reducer_responses \o SetToSeq(got)
      BY DEF CollectReduce, ReduceBreaks
    <2>3. \A got \in SUBSET Responses(c) : IsFiniteSet(got) /\ got \in SUBSET Response
      BY <2>1, FS_Subset
    <2>4. reducer_responses \in Seq(Response)
      BY DEF Types, ListTypes
    <2> QED BY <2>2, <2>3, <2>4, MoreResponses
  <1>6. CallTypes' /\ CountTypes'
    BY <1>2, <1>3, <1>4 DEF Types, CallTypes, CountTypes
  <1>7. InputTypes' /\ ListTypes' /\ FileTypes'
    BY <1>1, <1>2, <1>5 DEF Types, InputTypes, ListTypes, FileTypes
  <1> QED BY <1>6, <1>7 DEF Types

\* The new centroids are some of the old ones.
LEMMA CompiledSome ==
    ASSUME NEW s \in Seq(Response), Len(s) >= NumCentroids
    PROVE  Cardinality(DOMAIN Compile(s)) \in 1..NumCentroids
  <1> DEFINE D == {s[n].centroid : n \in 1..Len(s)}
  <1>1. DOMAIN Compile(s) = D
    BY DEF Compile
  <1>2. \A n \in 1..Len(s) : s[n] \in Response
    BY ElementOfSeq
  <1>3. D \subseteq Centroid
    BY <1>2 DEF Response
  <1>4. D # {}
    <2>1. PICK one : one = 1
      OBVIOUS
    <2>2. one \in 1..Len(s)
      BY <2>1, SizeAssumption, LenProperties
    <2> QED BY <2>2
  <1> HIDE DEF D
  <1>5. IsFiniteSet(D) /\ Cardinality(D) <= NumCentroids
    BY <1>3, CentroidsFinite, FS_Subset
  <1>6. Cardinality(D) \in Nat /\ Cardinality(D) # 0
    BY <1>4, <1>5, FS_CardinalityType, FS_EmptySet
  <1> QED BY <1>1, <1>5, <1>6, SizeAssumption

\* Deleting the files takes calls along, and their open files from others.
LEMMA DeletedType ==
    ASSUME NEW calls \in SUBSET MapCallType, NEW new \in FilesDeleted(calls)
    PROVE  new \subseteq MapCallType
  <1> DEFINE after(c) == [c EXCEPT !.open = FALSE, !.file = IF c.open THEN @ + 1 ELSE @]
             saving == {c \in calls : c.file > 0 \/ c.open}
  <1>1. PICK left \in SUBSET {c \in saving : after(c).file < NumReducers} :
            new = (calls \ saving) \cup {after(c) : c \in left}
    BY DEF FilesDeleted
  <1>2. ASSUME NEW c \in MapCallType, c.status # "FAILED", after(c).file < NumReducers
        PROVE  after(c) \in MapCallType
    <2>1. c \in MapCallFields
      BY DEF MapCallType
    <2>2. /\ after(c).open = FALSE /\ after(c).status = c.status
          /\ after(c).file \in {c.file, c.file + 1}
      BY <2>1 DEF MapCallFields
    <2>3. after(c).file \in 0..NumReducers
      BY <1>2, <2>1, <2>2, SizeAssumption DEF MapCallFields
    <2>4. after(c) \in MapCallFields
      BY <2>1, <2>3 DEF MapCallFields
    <2>5. c.status # "SUCCESS"
      <3>1. c.status = "SUCCESS" => c.file = NumReducers
        BY DEF MapCallType
      <3> QED BY <1>2, <2>1, <2>2, <3>1, SizeAssumption DEF MapCallFields
    <2>6. c.status = "sent"
      BY <1>2, <2>1, <2>5 DEF MapCallFields, Status
    <2>7. after(c).file # NumReducers
      BY <1>2, <2>3, SizeAssumption
    <2> QED BY <2>2, <2>4, <2>6, <2>7 DEF MapCallType
  <1>3. \A c \in saving : c \in MapCallType /\ c.status # "FAILED"
    BY SizeAssumption DEF MapCallType, MapCallFields
  <1> HIDE DEF after
  <1> QED BY <1>1, <1>2, <1>3

LEMMA TypesCompile == ASSUME Types, CompileCentroids PROVE Types'
  <1>1. /\ UNCHANGED <<reduce_calls, failures, errors, harm>>
        /\ map_calls' = map_calls \/ map_calls' \in FilesDeleted(map_calls)
        /\ Len(reducer_responses) >= NumCentroids
    BY DEF CompileCentroids, faultVars, Enough
  <1>2. CallTypes' /\ CountTypes'
    BY <1>1, DeletedType DEF Types, CallTypes, CountTypes
  <1>3. CASE phase' = "done"
    <2>1. UNCHANGED <<inputVars, mapVars, reduceVars, partitions, output>>
      BY <1>3 DEF CompileCentroids
    <2>2. InputTypes' /\ ListTypes' /\ FileTypes'
      BY <1>3, <2>1 DEF inputVars, mapVars, reduceVars, Types, InputTypes, ListTypes, FileTypes
    <2> QED BY <1>2, <2>2 DEF Types
  <1>4. CASE phase' = "map"
    <2>1. PICK k : k = Cardinality(DOMAIN Compile(reducer_responses))
      OBVIOUS
    <2>2. /\ iteration < NumIterations /\ iteration' = iteration + 1
          /\ centroids' = k /\ nearest' \in Assignments(k)
          /\ mapper_responses' = {} /\ failed_mappers' = {}
          /\ reducer_responses' = <<>> /\ reducer_no_tasks' = {} /\ failed_reducers' = {}
          /\ partitions' = NoFiles /\ output' = [r \in Reducer |-> EmptyBag]
      BY <1>4, <2>1 DEF CompileCentroids
    <2>3. k \in 1..NumCentroids
      BY <1>1, <2>1, CompiledSome DEF Types, ListTypes
    <2>4. InputTypes'
      BY <1>4, <2>2, <2>3, SizeAssumption DEF Types, InputTypes, Assignments
    <2>5. \A S : EmptyBag \in BagsOf(S)
      BY SetBag DEF EmptyBag
    <2>6. FileTypes'
      BY <2>2, <2>5 DEF FileTypes, NoFiles
    <2>7. ListTypes'
      BY <2>2 DEF ListTypes
    <2> QED BY <1>2, <2>4, <2>6, <2>7 DEF Types
  <1> QED BY <1>3, <1>4 DEF CompileCentroids

LEMMA TypesNext == Types /\ [Next]_vars => Types'
  <1> SUFFICES ASSUME Types, [Next]_vars PROVE Types'
    OBVIOUS
  <1>1. CASE \E c \in map_calls : \/ MapOpens(c) \/ MapWrites(c) \/ MapFails(c)
                                  \/ CollectMap(c) \/ MapTimesOut(c)
    BY <1>1, TypesMap, TypesCollect
  <1>2. CASE \/ InvokeMappers \/ ReassignMappers \/ EndRemap \/ EndMap
             \/ InvokeReducers \/ ReassignReducers \/ EndRereduce
    BY <1>2, TypesRounds
  <1>3. CASE \E c \in reduce_calls : \/ Shuffle(c) \/ ShuffleMisses(c)
                                     \/ ReduceSaves(c) \/ ReduceFails(c)
    BY <1>3, TypesReduce
  <1>4. CASE \E c \in reduce_calls : CollectReduce(c) \/ ReduceBreaks(c)
    BY <1>4, TypesResponses
  <1>5. CASE CompileCentroids
    BY <1>5, TypesCompile
  <1>6. CASE UNCHANGED vars
    BY <1>6 DEF vars, masterVars, inputVars, mapVars, reduceVars, faultVars, Types,
       InputTypes, ListTypes, CallTypes, FileTypes, CountTypes
  <1> QED BY <1>1, <1>2, <1>3, <1>4, <1>5, <1>6 DEF Next, Work, Fault, Done

\* Every state has the types of TypeOK, for any number of mappers, reducers, points and
\* centroids, and any failures and errors; a mapper's task is never open twice.
THEOREM KMeansTypes == Spec => []TypeOK
  <1>1. Types /\ CallsInv => TypeOK
    <2> SUFFICES ASSUME Types, CallsInv PROVE TypeOK
      OBVIOUS
    <2>1. \A n \in 1..Len(reducer_responses) :
              /\ reducer_responses[n].task \in Reducer
              /\ reducer_responses[n].centroid \in 0..(NumCentroids - 1)
              /\ IsABag(reducer_responses[n].points)
      <3>1. \A n \in 1..Len(reducer_responses) : reducer_responses[n] \in Response
        BY ElementOfSeq DEF Types, ListTypes
      <3> QED BY <3>1, BagIs DEF Response, Centroid
    <2>2. \A m \in Mapper, r \in Reducer :
              IsABag(partitions[m][r]) /\ BagToSet(partitions[m][r]) \subseteq Line
      <3>1. \A m \in Mapper, r \in Reducer : partitions[m][r] \in BagsOf(Line)
        BY DEF Types, FileTypes
      <3> QED BY <3>1, BagIs DEF BagToSet
    <2>3. \A r \in Reducer : IsABag(output[r])
      <3>1. \A r \in Reducer : output[r] \in BagsOf(Response)
        BY DEF Types, FileTypes
      <3> QED BY <3>1, BagIs
    <2> QED BY <2>1, <2>2, <2>3 DEF Types, InputTypes, ListTypes, CountTypes, CallsInv, TypeOK
  <1>2. Init => CallsInv
    BY DEF Init, CallsInv, Waiting
  <1>3. Types => ErrorsCounted
    BY DEF Types, CountTypes, ErrorsCounted
  <1>4. Types /\ CallsInv /\ [Next]_vars => CallsInv'
    BY <1>3, StepCalls DEF ErrorsCounted
  <1> QED BY <1>1, <1>2, <1>4, TypesInit, TypesNext, PTL DEF Spec

-----------------------------------------------------------------------------
(* Rounds of calls while every call is answered. *)

\* Tasks of P are done, have failed, or have one call; a call is of a task that is not
\* done, to its own process or to one whose own task is.  In a first round no task is
\* without all of these.
Round(calls, done, failed, round, P) ==
    /\ done \subseteq P /\ failed \subseteq P /\ done \cap failed = {}
    /\ \A c \in calls : c.task \in P \ done /\ c.worker \in {c.task} \cup done
    /\ \A c, d \in calls : c.task = d.task => c = d
    /\ round = "none" => calls = {}
    /\ round = "first" =>
           \A i \in P : i \in done \/ i \in failed \/ \E c \in calls : c.task = i

\* The tasks that are done, and those a process has done and not yet said so.
Carried(calls, done) == done \cup {c.task : c \in {d \in calls : d.status = "SUCCESS"}}

\* A call is replaced by one of the same task at the same process.
LEMMA RoundAnswer ==
    ASSUME NEW calls, NEW done, NEW failed, NEW round, NEW P,
           Round(calls, done, failed, round, P), NEW c \in calls,
           NEW d, d.task = c.task, d.worker = c.worker
    PROVE  Round((calls \ {c}) \cup {d}, done, failed, round, P)
  BY DEF Round

\* A call is answered.
LEMMA RoundCollect ==
    ASSUME NEW calls, NEW done, NEW failed, NEW round, NEW P,
           Round(calls, done, failed, round, P), NEW c \in calls
    PROVE  /\ Round(calls \ {c}, done \cup {c.task}, failed \ {c.task}, round, P)
           /\ Round(calls \ {c}, done, failed \cup {c.task}, round, P)
  BY DEF Round

\* A first round begins, and a second.
LEMMA RoundFirst ==
    ASSUME NEW calls, NEW done, NEW failed, NEW P, Round(calls, done, failed, "none", P),
           NEW new, \A c, d \in new : c.task = d.task => c = d,
           \A c \in new : c.worker = c.task,
           {c.task : c \in new} = P \ (done \cup failed)
    PROVE  Round(calls \cup new, done, failed, "first", P)
  BY DEF Round

LEMMA RoundSecond ==
    ASSUME NEW calls, NEW done, NEW failed, NEW P, Round(calls, done, failed, "first", P),
           calls = {}, NEW new, \A c, d \in new : c.task = d.task => c = d,
           \A c \in new : c.task \in failed /\ c.worker \in NewWorker(P \ failed, c.task, P)
    PROVE  Round(calls \cup new, done, failed, "second", P)
  <1>1. P \ failed \subseteq done
    BY DEF Round
  <1> QED BY <1>1 DEF Round, NewWorker

\* A round ends.
LEMMA RoundEnds ==
    ASSUME NEW calls, NEW done, NEW failed, NEW round, NEW P,
           Round(calls, done, failed, round, P), calls = {}, NEW f \in SUBSET failed
    PROVE  Round(calls, done, f, "none", P)
  BY DEF Round

\* Calls that are not done yet carry nothing.
LEMMA CarriedMore ==
    ASSUME NEW calls, NEW done, NEW new, \A c \in new : c.status # "SUCCESS"
    PROVE  Carried(calls \cup new, done) = Carried(calls, done)
  BY DEF Carried

LEMMA CarriedCollect ==
    ASSUME NEW calls, NEW done, NEW c \in calls,
           \A d \in calls : d.task = c.task => d = c
    PROVE  /\ c.status = "SUCCESS" =>
                  Carried(calls \ {c}, done \cup {c.task}) = Carried(calls, done)
           /\ c.status # "SUCCESS" => Carried(calls \ {c}, done) = Carried(calls, done)
  BY DEF Carried

LEMMA CarriedAnswer ==
    ASSUME NEW calls, NEW done, NEW c \in calls, c.status # "SUCCESS", NEW d, d.task = c.task
    PROVE  /\ d.status = "SUCCESS" =>
                  Carried((calls \ {c}) \cup {d}, done) = Carried(calls, done) \cup {c.task}
           /\ d.status # "SUCCESS" =>
                  Carried((calls \ {c}) \cup {d}, done) = Carried(calls, done)
  BY DEF Carried

-----------------------------------------------------------------------------
(* The files of the mappers. *)

\* The lines a mapper makes of a task for a reducer, when a is nearest.
LinesOf(a, i, r) == {<<a[p], p>> : p \in {q \in Split(i) : Partition(a[q]) = r}}

\* The files of reducer r hold the lines of the tasks of S[r], each once, and each task's
\* at its home.
FiledTo(files, a, S, home) ==
    \A m \in Mapper, r \in Reducer :
        files[m][r] = SetToBag(UNION {LinesOf(a, i, r) : i \in {j \in S[r] : home[j] = m}})

\* All files hold the lines of the tasks of S.
Filed(files, a, S, home) == FiledTo(files, a, [r \in Reducer |-> S], home)

LEMMA LinesApart ==
    ASSUME NEW a, NEW i \in Mapper, NEW j \in Mapper, i # j, NEW r
    PROVE  LinesOf(a, i, r) \cap LinesOf(a, j, r) = {}
  <1> SUFFICES ASSUME NEW p \in Split(i), NEW q \in Split(j), <<a[p], p>> = <<a[q], q>>
               PROVE  FALSE
    BY DEF LinesOf
  <1>1. p = q /\ p \in Point
    BY DEF Split
  <1> QED BY <1>1, SplitsPartition

\* What is made of a file that has no lines of a mapper's own task yet, and of none but
\* that if it is the mapper's own.
LEMMA FileOneMore ==
    ASSUME NEW c, NEW S, NEW file, file = SetToBag(S), S \cap Lines(c, c.file) = {},
           c.worker = c.task => S = {}, NEW new \in Written(file, c)
    PROVE  new = SetToBag(S \cup Lines(c, c.file))
  <1>1. PICK kept : /\ kept \in IF c.task = c.worker THEN SomeOf(file) ELSE {file}
                    /\ new = kept (+) SetToBag(Lines(c, c.file))
    BY DEF Written
  <1>2. kept = SetToBag(S)
    <2>1. CASE c.task = c.worker
      <3>1. S = {} /\ file = EmptyBag
        BY <2>1 DEF EmptyBag
      <3>2. DOMAIN file = {}
        BY <3>1 DEF EmptyBag, SetToBag
      <3>3. PICK R \in SUBSET DOMAIN file : kept \in [R -> UNION {1..file[x] : x \in R}]
        BY <1>1, <2>1 DEF SomeOf
      <3>4. DOMAIN kept = {} /\ kept = [x \in {} |-> kept[x]]
        BY <3>2, <3>3
      <3>5. SetToBag(S) = [x \in {} |-> 1]
        BY <3>1 DEF SetToBag
      <3> QED BY <3>4, <3>5
    <2>2. CASE c.task # c.worker
      BY <1>1, <2>2
    <2> QED BY <2>1, <2>2
  <1> QED BY <1>1, <1>2, SumOfSets

\* A mapper writes one more file of a task.
LEMMA FilesOneMore ==
    ASSUME NEW files \in [Mapper -> [Reducer -> BagsOf(Line)]], NEW a,
           NEW S \in [Reducer -> SUBSET Mapper], NEW home \in [Mapper -> Mapper],
           FiledTo(files, a, S, home),
           NEW c, c.task \in Mapper, c.worker \in Mapper, c.file \in Reducer, c.nearest = a,
           c.task \notin S[c.file],
           c.worker = c.task => \A j \in S[c.file] : home[j] # c.worker,
           home[c.task] = c.worker \/ \A r \in Reducer : c.task \notin S[r],
           NEW file \in Written(files[c.worker][c.file], c),
           NEW new, new = [files EXCEPT ![c.worker][c.file] = file]
    PROVE  FiledTo(new, a, [S EXCEPT ![c.file] = @ \cup {c.task}],
                   [home EXCEPT ![c.task] = c.worker])
  <1> DEFINE J(m, r) == {j \in S[r] : home[j] = m}
             All(m, r) == UNION {LinesOf(a, i, r) : i \in J(m, r)}
             h == [home EXCEPT ![c.task] = c.worker]
             T == [S EXCEPT ![c.file] = @ \cup {c.task}]
             K(m, r) == {j \in T[r] : h[j] = m}
             Now(m, r) == UNION {LinesOf(a, i, r) : i \in K(m, r)}
  <1>1. /\ K(c.worker, c.file) = J(c.worker, c.file) \cup {c.task}
        /\ \A m \in Mapper, r \in Reducer :
              m # c.worker \/ r # c.file => K(m, r) = J(m, r)
    OBVIOUS
  <1>2. \A m \in Mapper, r \in Reducer : files[m][r] = SetToBag(All(m, r))
    BY DEF FiledTo
  <1>3. \A i \in J(c.worker, c.file) : i \in Mapper /\ i # c.task
    OBVIOUS
  <1>4. c.worker = c.task => J(c.worker, c.file) = {}
    OBVIOUS
  <1> HIDE DEF J, K, h, T
  <1>5. ASSUME NEW m \in Mapper, NEW r \in Reducer PROVE new[m][r] = SetToBag(Now(m, r))
    <2>1. CASE m # c.worker \/ r # c.file
      <3>1. new[m][r] = files[m][r]
        BY <2>1
      <3> QED BY <1>1, <1>2, <2>1, <3>1
    <2>2. CASE m = c.worker /\ r = c.file
      <3>1. new[m][r] = file
        BY <2>2
      <3>2. LinesOf(a, c.task, r) = Lines(c, c.file)
        BY <2>2 DEF LinesOf, Lines
      <3>3. Now(m, r) = All(m, r) \cup LinesOf(a, c.task, r)
        BY <1>1, <2>2
      <3>4. All(m, r) \cap LinesOf(a, c.task, r) = {}
        <4>1. \A i \in J(m, r) : LinesOf(a, i, r) \cap LinesOf(a, c.task, r) = {}
          BY <1>3, <2>2, LinesApart
        <4> QED BY <4>1
      <3>5. c.worker = c.task => All(m, r) = {}
        BY <1>4, <2>2
      <3> HIDE DEF All, Now
      <3>6. files[c.worker][c.file] = SetToBag(All(m, r))
        BY <1>2, <2>2
      <3> QED BY <3>1, <3>2, <3>3, <3>4, <3>5, <3>6, FileOneMore
    <2> QED BY <2>1, <2>2
  <1> QED BY <1>5 DEF FiledTo, h, K, T

-----------------------------------------------------------------------------
(* The map phase while every call is answered. *)

MapRound == IF phase = "mapping" THEN "first"
            ELSE IF phase = "remapping" THEN "second" ELSE "none"

\* The tasks whose lines for reducer r are written.
MappedBy(calls, done) ==
    [r \in Reducer |-> done \cup {c.task : c \in {d \in calls : d.file > r}}]
Mapped == MappedBy(map_calls, mapper_responses)

\* Calls that have written nothing yet add nothing.
LEMMA MappedMore ==
    ASSUME NEW calls, NEW done, NEW new, \A c \in new : c.file = 0
    PROVE  MappedBy(calls \cup new, done) = MappedBy(calls, done)
  <1>1. \A r \in Reducer : {d \in calls \cup new : d.file > r} = {d \in calls : d.file > r}
    BY SizeAssumption DEF Reducer
  <1> QED BY <1>1 DEF MappedBy

\* A call that is replaced by one of the same task that has written as much.
LEMMA MappedSame ==
    ASSUME NEW calls, NEW done, NEW c \in calls, NEW d, d.task = c.task, d.file = c.file
    PROVE  MappedBy((calls \ {c}) \cup {d}, done) = MappedBy(calls, done)
  BY DEF MappedBy

\* An answer: of a task that is all written, or not at all.
LEMMA MappedCollect ==
    ASSUME NEW calls, NEW done, NEW c \in calls,
           \A d \in calls : d.task = c.task => d = c
    PROVE  /\ c.file = NumReducers =>
                  MappedBy(calls \ {c}, done \cup {c.task}) = MappedBy(calls, done)
           /\ c.file = 0 => MappedBy(calls \ {c}, done) = MappedBy(calls, done)
  <1>1. \A r \in Reducer : NumReducers > r /\ ~(0 > r)
    BY SizeAssumption DEF Reducer
  <1>2. ASSUME c.file = NumReducers
        PROVE  MappedBy(calls \ {c}, done \cup {c.task}) = MappedBy(calls, done)
    <2>1. \A r \in Reducer : {d.task : d \in {e \in calls : e.file > r}}
                = {c.task} \cup {d.task : d \in {e \in calls \ {c} : e.file > r}}
      BY <1>1, <1>2
    <2> QED BY <2>1 DEF MappedBy
  <1>3. ASSUME c.file = 0
        PROVE  MappedBy(calls \ {c}, done) = MappedBy(calls, done)
    <2>1. \A r \in Reducer : {e \in calls : e.file > r} = {e \in calls \ {c} : e.file > r}
      BY <1>1, <1>3
    <2> QED BY <2>1 DEF MappedBy
  <1> QED BY <1>2, <1>3

\* One more file is written.
LEMMA MappedWrites ==
    ASSUME NEW calls, NEW done, NEW c \in calls, c.file \in Reducer, NEW d,
           d.task = c.task, d.file = c.file + 1
    PROVE  MappedBy((calls \ {c}) \cup {d}, done)
             = [MappedBy(calls, done) EXCEPT ![c.file] = @ \cup {c.task}]
  <1>1. \A r \in Reducer : d.file > r <=> c.file > r \/ r = c.file
    BY SizeAssumption DEF Reducer
  <1>2. ASSUME NEW r \in Reducer
        PROVE  {e.task : e \in {f \in (calls \ {c}) \cup {d} : f.file > r}}
                 = {e.task : e \in {f \in calls : f.file > r}}
                   \cup (IF r = c.file THEN {c.task} ELSE {})
    <2>1. ~(c.file > c.file)
      BY DEF Reducer
    <2> QED BY <1>1, <2>1
  <1>3. PICK M : M = MappedBy(calls, done)
    OBVIOUS
  <1>4. /\ M = [r \in Reducer |-> M[r]]
        /\ \A r \in Reducer : M[r] = done \cup {e.task : e \in {f \in calls : f.file > r}}
    BY <1>3 DEF MappedBy
  <1>5. PICK N : N = MappedBy((calls \ {c}) \cup {d}, done)
    OBVIOUS
  <1>6. /\ N = [r \in Reducer |-> N[r]]
        /\ \A r \in Reducer :
              N[r] = done \cup {e.task : e \in {f \in (calls \ {c}) \cup {d} : f.file > r}}
    BY <1>5 DEF MappedBy
  <1>7. \A r \in Reducer : N[r] = IF r = c.file THEN M[r] \cup {c.task} ELSE M[r]
    BY <1>2, <1>4, <1>6
  <1>8. N = [M EXCEPT ![c.file] = @ \cup {c.task}]
    BY <1>4, <1>6, <1>7
  <1> QED BY <1>3, <1>5, <1>8

\* A task's lines are at its own mapper, or at one whose own task is done.
AtHome(home) ==
    /\ \A r \in Reducer : \A i \in Mapped[r] : home[i] \in {i} \cup mapper_responses
    /\ \A c \in map_calls : c.file > 0 => home[c.task] = c.worker
MapFiles ==
    \E home \in [Mapper -> Mapper] :
        AtHome(home) /\ FiledTo(partitions, nearest, Mapped, home)

MapCalls ==
    /\ Round(map_calls, mapper_responses, failed_mappers, MapRound, Mapper)
    /\ \A c \in map_calls : c.nearest = nearest /\ c.lost = 0
    /\ phase \in {"reduce", "reducing", "rereducing", "done"} => mapper_responses = Mapper

MapTrue == MapCalls /\ MapFiles

\* Empty files hold the lines of no task.
LEMMA NothingFiled ==
    ASSUME NEW a
    PROVE  \E home \in [Mapper -> Mapper] : FiledTo(NoFiles, a, MappedBy({}, {}), home)
  <1>1. PICK home : home = [i \in Mapper |-> i]
    OBVIOUS
  <1>2. \A r \in Reducer : MappedBy({}, {})[r] = {}
    BY DEF MappedBy
  <1>3. FiledTo(NoFiles, a, MappedBy({}, {}), home)
    BY <1>2 DEF FiledTo, NoFiles, EmptyBag
  <1> QED BY <1>1, <1>3

\* The files stay as they are while nothing is written.
LEMMA MapFilesKept ==
    ASSUME MapFiles, UNCHANGED <<partitions, nearest>>, Mapped' = Mapped,
           mapper_responses \subseteq mapper_responses',
           \A d \in map_calls' : d.file > 0 =>
               \E c \in map_calls : c.file > 0 /\ c.task = d.task /\ c.worker = d.worker
    PROVE  MapFiles'
  <1>1. PICK home \in [Mapper -> Mapper] :
            AtHome(home) /\ FiledTo(partitions, nearest, Mapped, home)
    BY DEF MapFiles
  <1>2. AtHome(home)'
    BY <1>1 DEF AtHome
  <1>3. FiledTo(partitions', nearest', Mapped', home)
    BY <1>1
  <1> QED BY <1>2, <1>3 DEF MapFiles

LEMMA MapTrueFrame ==
    ASSUME MapTrue, UNCHANGED <<map_calls, mapper_responses, failed_mappers, nearest,
                                partitions>>,
           MapRound' = MapRound,
           phase' \in {"reduce", "reducing", "rereducing", "done"} => mapper_responses = Mapper
    PROVE  MapTrue'
  <1>1. Mapped' = Mapped
    BY DEF Mapped
  <1>2. MapFiles'
    BY <1>1, MapFilesKept DEF MapTrue
  <1>3. MapCalls'
    BY DEF MapTrue, MapCalls
  <1> QED BY <1>2, <1>3 DEF MapTrue

\* Every task has its response when there are as many as mappers.
LEMMA AllMapped ==
    ASSUME mapper_responses \subseteq Mapper, Cardinality(mapper_responses) >= NumMappers
    PROVE  mapper_responses = Mapper
  <1>1. 0 \in Int /\ NumMappers - 1 \in Int /\ ~(0 > NumMappers - 1)
        /\ (NumMappers - 1) - 0 + 1 = NumMappers
    BY SizeAssumption
  <1>2. IsFiniteSet(Mapper) /\ Cardinality(Mapper) = NumMappers
    BY <1>1, FS_Interval DEF Mapper
  <1>3. /\ IsFiniteSet(mapper_responses)
        /\ Cardinality(mapper_responses) <= NumMappers
    BY <1>2, FS_Subset
  <1>4. Cardinality(mapper_responses) = NumMappers
    <2>1. Cardinality(mapper_responses) \in Nat
      BY <1>3, FS_CardinalityType
    <2> QED BY <1>3, <2>1, SizeAssumption
  <1> QED BY <1>2, <1>4, FS_Subset

LEMMA MapTrueRounds ==
    ASSUME Types, MapTrue, InvokeMappers \/ ReassignMappers \/ EndRemap \/ EndMap
    PROVE  MapTrue'
  <1>1. /\ UNCHANGED <<nearest, mapper_responses, partitions>>
        /\ failed_mappers' \in SUBSET failed_mappers
    BY DEF InvokeMappers, ReassignMappers, EndRemap, EndMap, inputVars, mapVars, Forgiven
  <1>2. \A i, w : LET d == MapCall(i, w) IN
            /\ d.task = i /\ d.worker = w /\ d.lost = 0 /\ d.file = 0
            /\ d.nearest = nearest
    BY DEF MapCall
  <1>3. ASSUME NEW new, map_calls' = map_calls \cup new,
               \A c \in new : /\ c.lost = 0 /\ c.file = 0 /\ c.nearest = nearest,
               Round(map_calls \cup new, mapper_responses, failed_mappers', MapRound', Mapper),
               phase' \notin {"reduce", "reducing", "rereducing", "done"}
        PROVE  MapTrue'
    <2>1. Mapped' = Mapped
      BY <1>1, <1>3, MappedMore DEF Mapped
    <2>2. MapFiles'
      <3>1. \A d \in map_calls' : d.file > 0 => d \in map_calls
        BY <1>3
      <3> QED BY <1>1, <2>1, <3>1, MapFilesKept DEF MapTrue
    <2>3. MapCalls'
      BY <1>1, <1>3 DEF MapTrue, MapCalls
    <2> QED BY <2>2, <2>3 DEF MapTrue
  <1>4. Round(map_calls, mapper_responses, failed_mappers, MapRound, Mapper)
    BY DEF MapTrue, MapCalls
  <1>5. CASE InvokeMappers
    <2>1. PICK S : S = Mapper \ (mapper_responses \cup failed_mappers)
      OBVIOUS
    <2>2. PICK new : new = {MapCall(i, i) : i \in S}
      OBVIOUS
    <2>3. /\ map_calls' = map_calls \cup new /\ failed_mappers' = failed_mappers
          /\ MapRound = "none" /\ MapRound' = "first" /\ phase' = "mapping"
      BY <1>5, <2>1, <2>2 DEF InvokeMappers, mapVars, MapRound
    <2>4. /\ \A c \in new : c.worker = c.task /\ c.lost = 0 /\ c.file = 0
                            /\ c.nearest = nearest /\ c = MapCall(c.task, c.task)
          /\ {c.task : c \in new} = S
      BY <1>2, <2>2
    <2>5. Round(map_calls \cup new, mapper_responses, failed_mappers, "first", Mapper)
      BY <1>4, <2>1, <2>3, <2>4, RoundFirst
    <2> QED BY <1>3, <2>3, <2>4, <2>5
  <1>6. CASE ReassignMappers
    <2>1. map_calls = {} /\ MapRound = "first"
      BY <1>6 DEF ReassignMappers, RoundOver, Waiting, MapTrue, MapCalls, MapRound
    <2>2. CASE phase' = "map"
      <3>1. map_calls' = map_calls /\ MapRound' = "none"
        BY <1>6, <2>2 DEF ReassignMappers, MapRound
      <3>2. Round(map_calls, mapper_responses, failed_mappers', "none", Mapper)
        BY <1>1, <1>4, <2>1, RoundEnds
      <3>3. PICK new : new = {}
        OBVIOUS
      <3>4. map_calls \cup new = map_calls
        BY <3>3
      <3> QED BY <1>3, <2>2, <3>1, <3>2, <3>3, <3>4
    <2>3. CASE phase' # "map"
      <3>1. /\ phase' = "remapping" /\ failed_mappers' = failed_mappers
            /\ \E home \in [failed_mappers -> Mapper] :
                   /\ \A i \in failed_mappers :
                          home[i] \in NewWorker(Mapper \ failed_mappers, i, Mapper)
                   /\ map_calls' = map_calls \cup {MapCall(i, home[i]) : i \in failed_mappers}
        BY <1>6, <2>3 DEF ReassignMappers
      <3>2. PICK home \in [failed_mappers -> Mapper] :
                /\ \A i \in failed_mappers :
                       home[i] \in NewWorker(Mapper \ failed_mappers, i, Mapper)
                /\ map_calls' = map_calls \cup {MapCall(i, home[i]) : i \in failed_mappers}
        BY <3>1
      <3>3. PICK new : new = {MapCall(i, home[i]) : i \in failed_mappers}
        OBVIOUS
      <3>4. \A c \in new :
                /\ c.lost = 0 /\ c.file = 0 /\ c.nearest = nearest
                /\ c.task \in failed_mappers /\ c.worker = home[c.task]
                /\ c = MapCall(c.task, home[c.task])
        BY <1>2, <3>3
      <3>5. \A c, d \in new : c.task = d.task => c = d
        BY <3>4
      <3>6. Round(map_calls \cup new, mapper_responses, failed_mappers, "second", Mapper)
        BY <1>4, <2>1, <3>2, <3>4, <3>5, RoundSecond
      <3>7. MapRound' = "second"
        BY <3>1 DEF MapRound
      <3> QED BY <1>3, <3>1, <3>2, <3>3, <3>4, <3>6, <3>7
    <2> QED BY <2>2, <2>3
  <1>7. CASE EndRemap \/ EndMap
    <2>1. map_calls = {} /\ MapRound' = "none" /\ map_calls' = map_calls
      BY <1>7 DEF EndRemap, EndMap, RoundOver, Waiting, MapTrue, MapCalls, MapRound, Round
    <2>2. Round(map_calls, mapper_responses, failed_mappers', "none", Mapper)
      BY <1>1, <1>4, <2>1, RoundEnds
    <2>3. phase' \in {"reduce", "reducing", "rereducing", "done"} => mapper_responses' = Mapper
      BY <1>1, <1>7, AllMapped DEF EndRemap, EndMap, Types, ListTypes
    <2>4. MapCalls'
      BY <1>1, <2>1, <2>2, <2>3 DEF MapTrue, MapCalls
    <2>5. MapFiles'
      BY <1>1, <2>1, MapFilesKept DEF MapTrue, Mapped
    <2> QED BY <2>4, <2>5 DEF MapTrue
  <1> QED BY <1>5, <1>6, <1>7

\* A mapper that fails, and a master that takes an answer, leave the files alone.
LEMMA MapTrueAnswered ==
    ASSUME Types, MapTrue, NEW c \in map_calls, MapFails(c) \/ CollectMap(c)
    PROVE  MapTrue'
  <1>1. UNCHANGED <<phase, nearest, partitions>> /\ MapRound' = MapRound
    BY DEF MapFails, CollectMap, masterVars, inputVars, MapRound
  <1>2. /\ Round(map_calls, mapper_responses, failed_mappers, MapRound, Mapper)
        /\ c.nearest = nearest /\ c.lost = 0 /\ c \in MapCallType
        /\ \A d \in map_calls : d.task = c.task => d = c
    BY DEF MapTrue, MapCalls, Round, Types, CallTypes
  <1>3. CASE MapFails(c)
    <2>1. PICK d : d = [c EXCEPT !.status = "FAILED"]
      OBVIOUS
    <2>2. /\ d.task = c.task /\ d.worker = c.worker /\ d.nearest = c.nearest
          /\ d.lost = c.lost /\ d.file = c.file
      BY <1>2, <2>1 DEF MapCallType, MapCallFields
    <2>3. /\ map_calls' = (map_calls \ {c}) \cup {d}
          /\ UNCHANGED <<mapper_responses, failed_mappers>>
      BY <1>2, <1>3, <2>1 DEF MapFails, Answer, mapVars
    <2>4. MapCalls'
      <3>1. Round(map_calls', mapper_responses, failed_mappers, MapRound, Mapper)
        BY <1>2, <2>2, <2>3, RoundAnswer
      <3> QED BY <1>1, <1>2, <2>2, <2>3, <3>1 DEF MapTrue, MapCalls
    <2>5. Mapped' = Mapped
      BY <2>2, <2>3, MappedSame DEF Mapped
    <2>6. MapFiles'
      BY <1>1, <2>2, <2>3, <2>5, MapFilesKept DEF MapTrue
    <2> QED BY <2>4, <2>6 DEF MapTrue
  <1>4. CASE CollectMap(c)
    <2>1. /\ map_calls' = map_calls \ {c} /\ phase \in {"mapping", "remapping"}
          /\ \/ /\ c.file = NumReducers /\ mapper_responses' = mapper_responses \cup {c.task}
                /\ failed_mappers' = failed_mappers \ {c.task}
             \/ /\ c.file = 0 /\ mapper_responses' = mapper_responses
                /\ failed_mappers' = failed_mappers \cup {c.task}
      BY <1>2, <1>4 DEF CollectMap, MapCallType, MapCallFields, Status
    <2>2. Round(map_calls', mapper_responses', failed_mappers', MapRound, Mapper)
      <3>1. /\ Round(map_calls \ {c}, mapper_responses \cup {c.task}, failed_mappers \ {c.task},
                     MapRound, Mapper)
            /\ Round(map_calls \ {c}, mapper_responses, failed_mappers \cup {c.task},
                     MapRound, Mapper)
        BY <1>2, RoundCollect
      <3> QED BY <2>1, <3>1
    <2>3. MapCalls'
      BY <1>1, <2>1, <2>2 DEF MapTrue, MapCalls
    <2>4. Mapped' = Mapped
      <3>1. /\ c.file = NumReducers => MappedBy(map_calls \ {c}, mapper_responses \cup {c.task})
                                       = MappedBy(map_calls, mapper_responses)
            /\ c.file = 0 => MappedBy(map_calls \ {c}, mapper_responses)
                                       = MappedBy(map_calls, mapper_responses)
        BY <1>2, MappedCollect
      <3> QED BY <2>1, <3>1 DEF Mapped
    <2>5. MapFiles'
      BY <1>1, <2>1, <2>4, MapFilesKept DEF MapTrue
    <2> QED BY <2>3, <2>5 DEF MapTrue
  <1> QED BY <1>3, <1>4

\* The files a call has still to write hold nothing of its task, and nothing at all if
\* they are its own mapper's.
LEMMA NotWritten ==
    ASSUME Types, MapTrue, NEW c \in map_calls, c.status = "sent",
           NEW home \in [Mapper -> Mapper], AtHome(home)
    PROVE  /\ c.task \in Mapper /\ c.worker \in Mapper /\ c.file \in Reducer
           /\ Mapped \in [Reducer -> SUBSET Mapper]
           /\ c.task \notin mapper_responses /\ c.worker \in {c.task} \cup mapper_responses
           /\ \A r \in Reducer : c.task \in Mapped[r] <=> c.file > r
           /\ c.worker = c.task => \A j \in Mapped[c.file] : home[j] # c.worker
  <1>1. /\ Round(map_calls, mapper_responses, failed_mappers, MapRound, Mapper)
        /\ c \in MapCallType
    BY DEF MapTrue, MapCalls, Types, CallTypes
  <1>2. c.task \in Mapper /\ c.worker \in Mapper /\ c.file \in Reducer
    BY <1>1, SizeAssumption DEF MapCallType, MapCallFields, Reducer
  <1>3. /\ c.task \notin mapper_responses /\ c.worker \in {c.task} \cup mapper_responses
        /\ mapper_responses \subseteq Mapper
        /\ \A d \in map_calls : d.task \in Mapper /\ (d.task = c.task => d = c)
    BY <1>1 DEF Round
  <1>4. \A r \in Reducer :
            Mapped[r] = mapper_responses \cup {d.task : d \in {e \in map_calls : e.file > r}}
    BY DEF Mapped, MappedBy
  <1>5. Mapped \in [Reducer -> SUBSET Mapper]
    <2>1. \A r \in Reducer : Mapped[r] \subseteq Mapper
      BY <1>3, <1>4
    <2>2. DOMAIN Mapped = Reducer /\ Mapped = [r \in Reducer |-> Mapped[r]]
      BY DEF Mapped, MappedBy
    <2> QED BY <2>1, <2>2
  <1>6. \A r \in Reducer : c.task \in Mapped[r] <=> c.file > r
    BY <1>3, <1>4
  <1>7. ASSUME c.worker = c.task, NEW j \in Mapped[c.file] PROVE home[j] # c.worker
    <2>1. home[j] \in {j} \cup mapper_responses
      BY <1>2 DEF AtHome
    <2>2. ~(c.file > c.file)
      BY <1>2 DEF Reducer
    <2>3. j # c.task
      BY <1>2, <1>6, <2>2
    <2> QED BY <1>3, <1>7, <2>1, <2>3
  <1> QED BY <1>2, <1>3, <1>5, <1>6, <1>7

\* The mapper's own file it opens is empty, and stays so; another's stays as it is.
LEMMA MapTrueOpens ==
    ASSUME Types, MapTrue, NEW c \in map_calls, MapOpens(c)
    PROVE  MapTrue'
  <1>1. /\ c.nearest = nearest /\ c.lost = 0 /\ c.status = "sent" /\ c \in MapCallType
        /\ Round(map_calls, mapper_responses, failed_mappers, MapRound, Mapper)
    BY DEF MapTrue, MapCalls, MapOpens, Types, CallTypes
  <1>2. PICK home \in [Mapper -> Mapper] :
            AtHome(home) /\ FiledTo(partitions, nearest, Mapped, home)
    BY DEF MapTrue, MapFiles
  <1>3. PICK d : d = [c EXCEPT !.open = TRUE]
    OBVIOUS
  <1>4. /\ d.task = c.task /\ d.worker = c.worker /\ d.nearest = c.nearest
        /\ d.lost = c.lost /\ d.file = c.file
    BY <1>1, <1>3 DEF MapCallType, MapCallFields
  <1>5. /\ map_calls' = (map_calls \ {c}) \cup {d}
        /\ UNCHANGED <<phase, nearest, mapper_responses, failed_mappers>>
        /\ MapRound' = MapRound
    BY <1>3 DEF MapOpens, mapVars, masterVars, inputVars, MapRound
  <1>6. partitions' = partitions
    <2>1. /\ c.worker \in Mapper /\ c.file \in Reducer
          /\ c.worker = c.task => \A j \in Mapped[c.file] : home[j] # c.worker
      BY <1>1, <1>2, NotWritten
    <2>2. c.worker = c.task => partitions[c.worker][c.file] = EmptyBag
      <3> SUFFICES ASSUME c.worker = c.task PROVE partitions[c.worker][c.file] = EmptyBag
        OBVIOUS
      <3>1. {j \in Mapped[c.file] : home[j] = c.worker} = {}
        BY <2>1
      <3>2. partitions[c.worker][c.file] = SetToBag({})
        BY <1>2, <2>1, <3>1 DEF FiledTo
      <3> QED BY <3>2 DEF EmptyBag
    <2>3. partitions' = [partitions EXCEPT ![c.worker][c.file] = partitions[c.worker][c.file]]
      BY <2>2 DEF MapOpens, Opened
    <2>4. partitions \in [Mapper -> [Reducer -> BagsOf(Line)]]
      BY DEF Types, FileTypes
    <2> QED BY <2>3, <2>4
  <1>7. MapCalls'
    <2>1. Round(map_calls', mapper_responses, failed_mappers, MapRound, Mapper)
      BY <1>1, <1>4, <1>5, RoundAnswer
    <2> QED BY <1>1, <1>4, <1>5, <2>1 DEF MapTrue, MapCalls
  <1>8. Mapped' = Mapped
    BY <1>4, <1>5, MappedSame DEF Mapped
  <1>9. MapFiles'
    BY <1>4, <1>5, <1>6, <1>8, MapFilesKept DEF MapTrue
  <1> QED BY <1>7, <1>9 DEF MapTrue

\* A mapper files its lines where they will be read.
LEMMA MapTrueWrites ==
    ASSUME Types, MapTrue, NEW c \in map_calls, MapWrites(c)
    PROVE  MapTrue'
  <1>1. /\ c.nearest = nearest /\ c.lost = 0 /\ c.status = "sent" /\ c \in MapCallType
        /\ Round(map_calls, mapper_responses, failed_mappers, MapRound, Mapper)
        /\ \A d \in map_calls : d.task = c.task => d = c
    BY DEF MapTrue, MapCalls, Round, MapWrites, Types, CallTypes, MapCallType, MapCallFields
  <1>2. PICK home \in [Mapper -> Mapper] :
            AtHome(home) /\ FiledTo(partitions, nearest, Mapped, home)
    BY DEF MapTrue, MapFiles
  <1>3. /\ c.task \in Mapper /\ c.worker \in Mapper /\ c.file \in Reducer
        /\ Mapped \in [Reducer -> SUBSET Mapper]
        /\ c.task \notin mapper_responses /\ c.worker \in {c.task} \cup mapper_responses
        /\ \A r \in Reducer : c.task \in Mapped[r] <=> c.file > r
        /\ c.worker = c.task => \A j \in Mapped[c.file] : home[j] # c.worker
    BY <1>1, <1>2, NotWritten
  <1>4. PICK d : /\ map_calls' = (map_calls \ {c}) \cup {d}
                 /\ d.task = c.task /\ d.worker = c.worker /\ d.nearest = c.nearest
                 /\ d.lost = c.lost /\ d.file = c.file + 1
    <2>1. PICK d : d = [c EXCEPT !.open = FALSE, !.file = @ + 1]
      OBVIOUS
    <2>2. PICK e : e = [d EXCEPT !.status = "SUCCESS"]
      OBVIOUS
    <2>3. /\ d.task = c.task /\ d.worker = c.worker /\ d.nearest = c.nearest
          /\ d.lost = c.lost /\ d.file = c.file + 1
      BY <1>1, <2>1 DEF MapCallType, MapCallFields
    <2>4. /\ e.task = c.task /\ e.worker = c.worker /\ e.nearest = c.nearest
          /\ e.lost = c.lost /\ e.file = c.file + 1
      BY <1>1, <2>1, <2>2, <2>3 DEF MapCallType, MapCallFields
    <2>5. \/ map_calls' = (map_calls \ {c}) \cup {d}
          \/ map_calls' = (map_calls \ {c}) \cup {e}
      BY <1>1, <2>1, <2>2 DEF MapWrites, Answer
    <2> QED BY <2>3, <2>4, <2>5
  <1>5. /\ UNCHANGED <<phase, nearest, mapper_responses, failed_mappers>>
        /\ MapRound' = MapRound
    BY DEF MapWrites, mapVars, masterVars, inputVars, MapRound
  <1>6. MapCalls'
    <2>1. Round(map_calls', mapper_responses, failed_mappers, MapRound, Mapper)
      BY <1>1, <1>4, RoundAnswer
    <2> QED BY <1>1, <1>4, <1>5, <2>1 DEF MapTrue, MapCalls
  <1>7. Mapped' = [Mapped EXCEPT ![c.file] = @ \cup {c.task}]
    <2>1. MappedBy((map_calls \ {c}) \cup {d}, mapper_responses)
            = [MappedBy(map_calls, mapper_responses) EXCEPT ![c.file] = @ \cup {c.task}]
      BY <1>3, <1>4, MappedWrites
    <2> QED BY <1>4, <1>5, <2>1 DEF Mapped
  <1>8. PICK h : h = [home EXCEPT ![c.task] = c.worker]
    OBVIOUS
  <1>9. home[c.task] = c.worker \/ \A r \in Reducer : c.task \notin Mapped[r]
    <2>1. CASE c.file > 0
      BY <1>2, <2>1 DEF AtHome
    <2>2. CASE ~(c.file > 0)
      <3>1. \A r \in Reducer : ~(c.file > r)
        BY <1>3, <2>2, SizeAssumption DEF Reducer
      <3> QED BY <1>3, <3>1
    <2> QED BY <2>1, <2>2
  <1>10. FiledTo(partitions', nearest, Mapped', h)
    <2>1. PICK file \in Written(partitions[c.worker][c.file], c) :
              partitions' = [partitions EXCEPT ![c.worker][c.file] = file]
      BY DEF MapWrites
    <2>2. partitions \in [Mapper -> [Reducer -> BagsOf(Line)]]
      BY DEF Types, FileTypes
    <2>3. c.task \notin Mapped[c.file]
      BY <1>3 DEF Reducer
    <2> QED BY <1>1, <1>2, <1>3, <1>7, <1>8, <1>9, <2>1, <2>2, <2>3, FilesOneMore
  <1>11. h \in [Mapper -> Mapper]
    BY <1>3, <1>8
  <1>12. AtHome(h)'
    <2>1. ASSUME NEW r \in Reducer, NEW i \in Mapped'[r]
          PROVE  h[i] \in {i} \cup mapper_responses'
      <3>1. i \in Mapper /\ (i \in Mapped[r] \/ i = c.task)
        BY <1>3, <1>7
      <3>2. CASE i = c.task
        BY <1>3, <1>5, <1>8, <3>2
      <3>3. CASE i # c.task
        <4>1. i \in Mapped[r] /\ h[i] = home[i]
          BY <1>8, <3>1, <3>3
        <4> QED BY <1>2, <1>5, <4>1 DEF AtHome
      <3> QED BY <3>2, <3>3
    <2>2. ASSUME NEW e \in map_calls', e.file > 0 PROVE h[e.task] = e.worker
      <3>1. CASE e = d
        BY <1>3, <1>4, <1>8, <3>1
      <3>2. CASE e # d
        <4>1. e \in map_calls /\ e.task # c.task
          BY <1>1, <1>4, <3>2
        <4>2. home[e.task] = e.worker
          BY <1>2, <2>2, <4>1 DEF AtHome
        <4>3. h[e.task] = home[e.task]
          BY <1>8, <4>1
        <4> QED BY <4>2, <4>3
      <3> QED BY <3>1, <3>2
    <2> QED BY <2>1, <2>2 DEF AtHome
  <1>13. MapFiles'
    BY <1>5, <1>10, <1>11, <1>12 DEF MapFiles
  <1> QED BY <1>6, <1>13 DEF MapTrue

LEMMA MapTrueCompile == ASSUME MapTrue, CompileCentroids PROVE MapTrue'
  <1>1. MapRound = "none" /\ MapRound' = "none"
        /\ (map_calls' = map_calls \/ map_calls' \in FilesDeleted(map_calls))
    BY DEF CompileCentroids, MapRound
  <1>2. map_calls = {} /\ map_calls' = {}
    <2>1. map_calls = {}
      BY <1>1 DEF MapTrue, MapCalls, Round
    <2> QED BY <1>1, <2>1 DEF FilesDeleted
  <1>3. CASE phase' = "done"
    <2>1. /\ UNCHANGED <<mapper_responses, failed_mappers, nearest, partitions>>
          /\ phase = "reduce"
      BY <1>3 DEF CompileCentroids, inputVars, mapVars
    <2>2. mapper_responses = Mapper
      BY <2>1 DEF MapTrue, MapCalls
    <2> QED BY <1>1, <1>2, <2>1, <2>2, MapTrueFrame
  <1>4. CASE phase' = "map"
    <2>1. mapper_responses' = {} /\ failed_mappers' = {} /\ partitions' = NoFiles
      BY <1>4 DEF CompileCentroids
    <2>2. MapCalls'
      BY <1>1, <1>2, <1>4, <2>1 DEF MapCalls, Round
    <2>3. Mapped' = MappedBy({}, {})
      BY <1>2, <2>1 DEF Mapped
    <2>4. MapFiles'
      BY <1>2, <2>1, <2>3, NothingFiled DEF MapFiles, AtHome, MappedBy
    <2> QED BY <2>2, <2>4 DEF MapTrue
  <1> QED BY <1>3, <1>4 DEF CompileCentroids

MapInv == errors = 0 => MapTrue

\* Errors are not taken back.
LEMMA ErrorsStay ==
    ASSUME Types, [Next]_vars, errors' = 0
    PROVE  errors = 0
  <1> SUFFICES errors' = errors \/ errors' = errors + 1
    BY DEF Types, CountTypes
  <1>1. CASE \/ InvokeMappers \/ ReassignMappers \/ EndRemap \/ EndMap
             \/ InvokeReducers \/ ReassignReducers \/ EndRereduce \/ CompileCentroids
    BY <1>1 DEF InvokeMappers, ReassignMappers, EndRemap, EndMap, InvokeReducers,
       ReassignReducers, EndRereduce, CompileCentroids, faultVars
  <1>2. CASE \/ \E c \in map_calls : MapOpens(c) \/ MapWrites(c) \/ CollectMap(c)
             \/ \E c \in reduce_calls : Shuffle(c) \/ ReduceSaves(c) \/ CollectReduce(c)
    BY <1>2 DEF MapOpens, MapWrites, CollectMap, Shuffle, ReduceSaves, CollectReduce, faultVars
  <1>3. CASE \/ \E c \in map_calls : MapFails(c) \/ MapTimesOut(c)
             \/ \E c \in reduce_calls : ReduceFails(c) \/ ShuffleMisses(c) \/ ReduceBreaks(c)
    BY <1>3 DEF MapFails, MapTimesOut, ReduceFails, ShuffleMisses, ReduceBreaks, faultVars
  <1>4. CASE UNCHANGED vars
    BY <1>4 DEF vars, faultVars
  <1> QED BY <1>1, <1>2, <1>3, <1>4 DEF Next, Work, Fault, Done

\* What the master and reducers do after the map phase leaves its result alone.
LEMMA MapTrueReducing ==
    ASSUME MapTrue,
           \/ InvokeReducers \/ ReassignReducers \/ EndRereduce
           \/ \E c \in reduce_calls : \/ Shuffle(c) \/ ReduceSaves(c) \/ ReduceFails(c)
                                      \/ CollectReduce(c)
    PROVE  MapTrue'
  <1>1. /\ UNCHANGED <<map_calls, mapper_responses, failed_mappers, nearest, partitions>>
        /\ \/ phase' = phase
           \/ /\ phase \in {"reduce", "reducing", "rereducing"}
              /\ phase' \in {"reduce", "reducing", "rereducing"}
    BY DEF InvokeReducers, ReassignReducers, EndRereduce, Shuffle, ReduceSaves,
       ReduceFails, CollectReduce, masterVars, inputVars, mapVars
  <1>2. MapRound' = MapRound
    BY <1>1 DEF MapRound
  <1>3. phase' \in {"reduce", "reducing", "rereducing", "done"} => mapper_responses = Mapper
    BY <1>1 DEF MapTrue, MapCalls
  <1> QED BY <1>1, <1>2, <1>3, MapTrueFrame

LEMMA MapInit == Init => MapInv
  <1> SUFFICES ASSUME Init PROVE MapTrue
    BY DEF MapInv
  <1>1. MapCalls
    BY DEF Init, MapCalls, MapRound, Round
  <1>2. Mapped = MappedBy({}, {}) /\ partitions = NoFiles /\ map_calls = {}
    BY DEF Init, Mapped
  <1>3. MapFiles
    BY <1>2, NothingFiled DEF MapFiles, AtHome, MappedBy
  <1> QED BY <1>1, <1>3 DEF MapTrue

LEMMA MapNext == Types /\ MapInv /\ [Next]_vars => MapInv'
  <1> SUFFICES ASSUME Types, MapInv, [Next]_vars, errors' = 0 PROVE MapTrue'
    BY DEF MapInv
  <1>1. errors = 0 /\ MapTrue
    BY ErrorsStay DEF MapInv
  <1>2. CASE InvokeMappers \/ ReassignMappers \/ EndRemap \/ EndMap
    BY <1>1, <1>2, MapTrueRounds
  <1>3. CASE \E c \in map_calls : MapOpens(c) \/ MapWrites(c) \/ MapFails(c) \/ CollectMap(c)
    BY <1>1, <1>3, MapTrueOpens, MapTrueWrites, MapTrueAnswered
  <1>4. CASE \/ InvokeReducers \/ ReassignReducers \/ EndRereduce
             \/ \E c \in reduce_calls : \/ Shuffle(c) \/ ReduceSaves(c) \/ ReduceFails(c)
                                        \/ CollectReduce(c)
    BY <1>1, <1>4, MapTrueReducing
  <1>5. CASE CompileCentroids
    BY <1>1, <1>5, MapTrueCompile
  <1>6. CASE UNCHANGED vars
    <2>1. /\ UNCHANGED <<phase, map_calls, mapper_responses, failed_mappers, nearest, partitions>>
      BY <1>6 DEF vars, masterVars, inputVars, mapVars
    <2>2. phase \in {"reduce", "reducing", "rereducing", "done"} => mapper_responses = Mapper
      BY <1>1 DEF MapTrue, MapCalls
    <2> QED BY <1>1, <2>1, <2>2, MapTrueFrame DEF MapRound
  <1>7. CASE \/ \E c \in map_calls : MapTimesOut(c)
             \/ \E c \in reduce_calls : ShuffleMisses(c) \/ ReduceBreaks(c)
    BY <1>1, <1>7 DEF MapTimesOut, ShuffleMisses, ReduceBreaks
  <1> QED BY <1>2, <1>3, <1>4, <1>5, <1>6, <1>7 DEF Next, Work, Fault, Done

-----------------------------------------------------------------------------
(* What the reducers find. *)

\* The mapper whose own task point p is in.
Owner(p) == CHOOSE i \in Mapper : p \in Split(i)

LEMMA OwnerIs ==
    ASSUME NEW p \in Point
    PROVE  /\ Owner(p) \in Mapper /\ p \in Split(Owner(p))
           /\ \A j \in Mapper : p \in Split(j) => j = Owner(p)
  BY SplitsPartition DEF Owner

\* When all is filed, a file holds the lines of the points that belong there, once.
LEMMA FileHolds ==
    ASSUME NEW files, NEW a, NEW home, Filed(files, a, Mapper, home),
           NEW m \in Mapper, NEW r \in Reducer
    PROVE  /\ DOMAIN files[m][r] = {<<a[p], p>> : p \in {q \in Point :
                                        Partition(a[q]) = r /\ home[Owner(q)] = m}}
           /\ files[m][r] = SetToBag(DOMAIN files[m][r])
  <1> DEFINE D == UNION {LinesOf(a, i, r) : i \in {j \in Mapper : home[j] = m}}
             E == {<<a[p], p>> : p \in {q \in Point :
                                        Partition(a[q]) = r /\ home[Owner(q)] = m}}
  <1>1. files[m][r] = SetToBag(D)
    BY DEF Filed, FiledTo
  <1>2. DOMAIN files[m][r] = D
    BY <1>1 DEF SetToBag
  <1>3. D \subseteq E
    <2> SUFFICES ASSUME NEW i \in Mapper, home[i] = m, NEW p \in Split(i), Partition(a[p]) = r
                 PROVE  <<a[p], p>> \in E
      BY DEF LinesOf
    <2>1. p \in Point /\ i = Owner(p)
      BY OwnerIs DEF Split
    <2> QED BY <2>1
  <1>4. E \subseteq D
    <2> SUFFICES ASSUME NEW p \in Point, Partition(a[p]) = r, home[Owner(p)] = m
                 PROVE  <<a[p], p>> \in D
      OBVIOUS
    <2>1. Owner(p) \in Mapper /\ p \in Split(Owner(p))
      BY OwnerIs
    <2>2. <<a[p], p>> \in LinesOf(a, Owner(p), r)
      BY <2>1 DEF LinesOf
    <2> QED BY <2>1, <2>2
  <1> QED BY <1>1, <1>2, <1>3, <1>4

\* In the reduce phase all is filed.
LEMMA AllFiled ==
    ASSUME MapTrue, phase \in {"reduce", "reducing", "rereducing", "done"}
    PROVE  \E home \in [Mapper -> Mapper] : Filed(partitions, nearest, Mapper, home)
  <1>1. mapper_responses = Mapper /\ map_calls = {}
    BY DEF MapTrue, MapCalls, Round, MapRound
  <1>2. Mapped = [r \in Reducer |-> Mapper]
    BY <1>1 DEF Mapped, MappedBy
  <1> QED BY <1>2 DEF MapTrue, MapFiles, Filed

\* When the reducers start and every call was answered, every point is in one file,
\* once, whichever tasks failed and whoever they were reassigned to.
THEOREM PointsOnce == Spec => []EveryPointOnce
  <1>1. Types /\ MapInv => EveryPointOnce
    <2> SUFFICES ASSUME Types, MapTrue, Reducing, NEW p \in Point
                 PROVE  \E m \in Mapper :
                            LET r == Partition(nearest[p])
                                line == <<nearest[p], p>>
                            IN  Places(p) = {<<m, r, line>>} /\ partitions[m][r][line] = 1
      BY DEF MapInv, EveryPointOnce
    <2>1. PICK home \in [Mapper -> Mapper] : Filed(partitions, nearest, Mapper, home)
      BY AllFiled DEF Reducing
    <2>2. PICK m : m = home[Owner(p)]
      OBVIOUS
    <2>3. PICK r : r = Partition(nearest[p])
      OBVIOUS
    <2>4. PICK line : line = <<nearest[p], p>>
      OBVIOUS
    <2>5. nearest[p] \in Centroid /\ m \in Mapper /\ r \in Reducer /\ line \in Line
      <3>1. nearest[p] \in Centroid
        BY NearestType DEF Types, InputTypes
      <3>2. r \in Reducer
        BY <2>3, <3>1, SizeAssumption DEF Partition, Reducer, Centroid
      <3> QED BY <2>2, <2>4, <3>1, <3>2, OwnerIs DEF Line, Centroid
    <2>6. \A n \in Mapper, s \in Reducer :
              /\ DOMAIN partitions[n][s] = {<<nearest[q], q>> : q \in {q \in Point :
                                        Partition(nearest[q]) = s /\ home[Owner(q)] = n}}
              /\ partitions[n][s] = SetToBag(DOMAIN partitions[n][s])
      BY <2>1, FileHolds
    <2>7. line \in DOMAIN partitions[m][r]
      BY <2>2, <2>3, <2>4, <2>5, <2>6
    <2>8. partitions[m][r][line] = 1
      <3>1. PICK D : D = DOMAIN partitions[m][r]
        OBVIOUS
      <3>2. partitions[m][r] = SetToBag(D) /\ line \in D
        BY <2>5, <2>6, <2>7, <3>1
      <3> QED BY <3>2 DEF SetToBag
    <2>9. <<m, r, line>> \in Places(p)
      BY <2>4, <2>5, <2>7 DEF Places
    <2>10. ASSUME NEW x \in Places(p) PROVE x = <<m, r, line>>
      <3>1. x \in Mapper \X Reducer \X Line /\ x[3][2] = p /\ x[3] \in DOMAIN partitions[x[1]][x[2]]
        BY DEF Places
      <3>2. PICK n \in Mapper, s \in Reducer, z \in Line : x = <<n, s, z>>
        BY <3>1
      <3>3. z[2] = p /\ z \in DOMAIN partitions[n][s]
        BY <3>1, <3>2
      <3>4. PICK q \in Point : /\ z = <<nearest[q], q>>
                               /\ Partition(nearest[q]) = s /\ home[Owner(q)] = n
        BY <2>6, <3>3
      <3>5. q = p
        BY <3>3, <3>4
      <3> QED BY <2>2, <2>3, <2>4, <3>2, <3>4, <3>5
    <2> QED BY <2>3, <2>4, <2>5, <2>8, <2>9, <2>10
  <1> QED BY <1>1, TypesInit, TypesNext, MapInit, MapNext, PTL DEF Spec

-----------------------------------------------------------------------------
(* What the reducers make of the lines. *)

\* The points nearest to a centroid, and the responses of reducer i, when a is nearest.
ExactOf(a, d) == SetToBag({p \in Point : a[p] = d})
OldOf(a, i) == {a[p] : p \in {q \in Point : Partition(a[q]) = i}}
MeansOf(a, i) == {[task |-> i, centroid |-> d, points |-> ExactOf(a, d)] : d \in OldOf(a, i)}

\* The files of the reducers hold the responses of the tasks of S, each once, and each
\* task's at its home.
Stored(files, a, S, home) ==
    \A w \in Reducer :
        files[w] = SetToBag(UNION {MeansOf(a, i) : i \in {j \in S : home[j] = w}})

\* A call has gathered all that the mappers before the next one have for it.
Gathered(c, files) ==
    c.data = SetToBag(UNION {DOMAIN files[m][c.task] : m \in 0..(c.next - 1)})

\* A response tells its task and its points by its centroid.
LEMMA MeanIs ==
    ASSUME NEW a, NEW i, NEW x \in MeansOf(a, i)
    PROVE  /\ x = [task |-> i, centroid |-> x.centroid, points |-> ExactOf(a, x.centroid)]
           /\ x.centroid \in OldOf(a, i) /\ x.task = i /\ i = Partition(x.centroid)
           /\ x.points = ExactOf(a, x.centroid)
  <1>1. PICK d \in OldOf(a, i) : x = [task |-> i, centroid |-> d, points |-> ExactOf(a, d)]
    BY DEF MeansOf
  <1>2. i = Partition(d)
    BY DEF OldOf
  <1> QED BY <1>1, <1>2

\* A reducer files the responses of one more task: its own, in a file that holds
\* nothing, or another's.
LEMMA StoresOneMore ==
    ASSUME NEW files \in [Reducer -> BagsOf(Response)], NEW a,
           NEW S \in SUBSET Reducer, NEW home \in [Reducer -> Reducer],
           Stored(files, a, S, home),
           NEW c, c.task \in Reducer \ S, c.worker \in Reducer,
           c.worker # c.task \/ \A j \in S : home[j] # c.worker,
           NEW new, new = [files EXCEPT ![c.worker] = Saved(@, c, MeansOf(a, c.task))]
    PROVE  Stored(new, a, S \cup {c.task}, [home EXCEPT ![c.task] = c.worker])
  <1> DEFINE J(m) == {j \in S : home[j] = m}
             All(m) == UNION {MeansOf(a, i) : i \in J(m)}
             h == [home EXCEPT ![c.task] = c.worker]
             K(m) == {j \in S \cup {c.task} : h[j] = m}
             Now(m) == UNION {MeansOf(a, i) : i \in K(m)}
  <1>1. K(c.worker) = J(c.worker) \cup {c.task} /\ \A m \in Reducer \ {c.worker} : K(m) = J(m)
    OBVIOUS
  <1>2. \A m \in Reducer : files[m] = SetToBag(All(m))
    BY DEF Stored
  <1> HIDE DEF J, K, h
  <1>3. ASSUME NEW m \in Reducer PROVE new[m] = SetToBag(Now(m))
    <2>1. CASE m # c.worker
      <3>1. new[m] = files[m]
        BY <2>1
      <3> QED BY <1>1, <1>2, <2>1, <3>1
    <2>2. CASE m = c.worker
      <3>1. new[m] = Saved(files[m], c, MeansOf(a, c.task))
        BY <2>2
      <3>2. Now(m) = All(m) \cup MeansOf(a, c.task)
        BY <1>1, <2>2
      <3>3. CASE c.worker = c.task
        <4>1. J(m) = {}
          BY <2>2, <3>3 DEF J
        <4>2. All(m) = {}
          BY <4>1
        <4> QED BY <3>1, <3>2, <3>3, <4>2 DEF Saved
      <3>4. CASE c.worker # c.task
        <4>1. All(m) \cap MeansOf(a, c.task) = {}
          <5>1. \A i \in J(m) : i \in Reducer /\ i # c.task
            BY DEF J
          <5>2. \A i \in J(m) : MeansOf(a, i) \cap MeansOf(a, c.task) = {}
            BY <5>1, MeanIs
          <5> QED BY <5>2
        <4> HIDE DEF All, Now
        <4>2. SetToBag(All(m)) (+) SetToBag(MeansOf(a, c.task)) = SetToBag(Now(m))
          BY <3>2, <4>1, SumOfSets
        <4> QED BY <1>2, <3>1, <3>4, <4>2 DEF Saved
      <3> QED BY <3>3, <3>4
    <2> QED BY <2>1, <2>2
  <1> QED BY <1>3 DEF Stored, h, K

\* The lines in the files of two mappers are of different points.
LEMMA FilesApart ==
    ASSUME NEW files, NEW a, NEW home, Filed(files, a, Mapper, home),
           NEW m \in Mapper, NEW n \in Mapper, m # n, NEW r \in Reducer
    PROVE  DOMAIN files[m][r] \cap DOMAIN files[n][r] = {}
  <1>1. /\ DOMAIN files[m][r] = {<<a[p], p>> : p \in {q \in Point :
                                      Partition(a[q]) = r /\ home[Owner(q)] = m}}
        /\ DOMAIN files[n][r] = {<<a[p], p>> : p \in {q \in Point :
                                      Partition(a[q]) = r /\ home[Owner(q)] = n}}
    BY FileHolds
  <1> QED BY <1>1

\* A reducer gathers the lines of one more mapper.
LEMMA GatherOneMore ==
    ASSUME NEW files, NEW a, NEW home, Filed(files, a, Mapper, home),
           NEW c \in ReduceCallType, Gathered(c, files), c.next < NumMappers,
           NEW d, d.task = c.task, d.next = c.next + 1,
           d.data = c.data (+) files[c.next][c.task]
    PROVE  Gathered(d, files)
  <1>1. c.next \in Mapper /\ c.task \in Reducer /\ c.next \in Nat
        /\ \A m \in 0..(c.next - 1) : m \in Mapper /\ m # c.next
    BY SizeAssumption DEF ReduceCallType, Mapper
  <1>2. PICK n : n = c.next
    OBVIOUS
  <1>3. PICK r : r = c.task
    OBVIOUS
  <1>4. PICK L : L = UNION {DOMAIN files[m][r] : m \in 0..(n - 1)}
    OBVIOUS
  <1>5. PICK D : D = DOMAIN files[n][r]
    OBVIOUS
  <1>6. files[n][r] = SetToBag(D)
    BY <1>1, <1>2, <1>3, <1>5, FileHolds
  <1>7. L \cap D = {}
    <2>1. \A m \in 0..(n - 1) : DOMAIN files[m][r] \cap D = {}
      BY <1>1, <1>2, <1>3, <1>5, FilesApart
    <2> QED BY <1>4, <2>1
  <1>8. d.data = SetToBag(L \cup D)
    BY <1>2, <1>3, <1>4, <1>6, <1>7, SumOfSets DEF Gathered
  <1>9. 0..((n + 1) - 1) = 0..(n - 1) \cup {n}
    BY <1>1, <1>2
  <1>10. UNION {DOMAIN files[m][r] : m \in 0..((n + 1) - 1)} = L \cup D
    BY <1>4, <1>5, <1>9
  <1> QED BY <1>2, <1>3, <1>8, <1>10 DEF Gathered

\* When it has asked every mapper, a reducer has each of its centroids, with exactly the
\* points nearest to it.
LEMMA GatheredAll ==
    ASSUME NEW files, NEW a, NEW home \in [Mapper -> Mapper], Filed(files, a, Mapper, home),
           NEW c, c.task \in Reducer, Gathered(c, files), c.next = NumMappers
    PROVE  Responses(c) = MeansOf(a, c.task)
  <1>1. PICK r : r = c.task
    OBVIOUS
  <1>2. PICK L : L = {<<a[p], p>> : p \in {q \in Point : Partition(a[q]) = r}}
    OBVIOUS
  <1>3. c.data = SetToBag(L)
    <2>1. \A m \in Mapper : DOMAIN files[m][r] = {<<a[p], p>> : p \in {q \in Point :
                                      Partition(a[q]) = r /\ home[Owner(q)] = m}}
      BY <1>1, FileHolds
    <2>2. \A q \in Point : home[Owner(q)] \in Mapper
      BY OwnerIs
    <2>3. UNION {DOMAIN files[m][r] : m \in Mapper} = L
      BY <1>2, <2>1, <2>2
    <2> QED BY <1>1, <2>3 DEF Gathered, Mapper
  <1>4. DOMAIN c.data = L /\ \A x \in L : c.data[x] = 1
    BY <1>3 DEF SetToBag
  <1>5. {line[1] : line \in L} = OldOf(a, r)
    <2>1. PICK Q : Q = {q \in Point : Partition(a[q]) = r}
      OBVIOUS
    <2>2. L = {<<a[p], p>> : p \in Q} /\ OldOf(a, r) = {a[p] : p \in Q}
      BY <1>2, <2>1 DEF OldOf
    <2>3. \A line \in L : line[1] \in OldOf(a, r)
      BY <2>2
    <2>4. \A d \in OldOf(a, r) : \E line \in L : line[1] = d
      <3>1. ASSUME NEW p \in Q PROVE \E line \in L : line[1] = a[p]
        <4>1. PICK line : line = <<a[p], p>>
          OBVIOUS
        <4> QED BY <2>2, <4>1
      <3> QED BY <2>2, <3>1
    <2>5. PICK O : O = OldOf(a, r)
      OBVIOUS
    <2> QED BY <2>3, <2>4, <2>5
  <1>6. ASSUME NEW d \in OldOf(a, r)
        PROVE  [p \in {q \in Point : <<d, q>> \in L} |-> c.data[<<d, p>>]] = ExactOf(a, d)
    <2>1. {q \in Point : <<d, q>> \in L} = {q \in Point : a[q] = d}
      <3>1. Partition(d) = r
        BY DEF OldOf
      <3>2. \A q \in Point : <<d, q>> \in L <=> a[q] = d
        BY <1>2, <3>1
      <3> QED BY <3>2
    <2>2. \A p \in {q \in Point : <<d, q>> \in L} : c.data[<<d, p>>] = 1
      BY <1>4
    <2> QED BY <2>1, <2>2 DEF ExactOf, SetToBag
  <1>7. Responses(c) =
            {[task |-> r, centroid |-> d,
              points |-> [p \in {q \in Point : <<d, q>> \in L} |-> c.data[<<d, p>>]]] :
                d \in OldOf(a, r)}
    BY <1>1, <1>4, <1>5 DEF Responses
  <1> QED BY <1>1, <1>6, <1>7 DEF MeansOf

-----------------------------------------------------------------------------
(* The reduce phase while every call is answered. *)

ReduceRound == IF phase = "reducing" THEN "first"
               ELSE IF phase = "rereducing" THEN "second" ELSE "none"
Reduced == Carried(reduce_calls, Completed)

\* A task's responses are at its own reducer, or at one whose own task is done.
AtReducer(home) == \A i \in Reduced : home[i] \in {i} \cup Completed
ReduceFiles ==
    \E home \in [Reducer -> Reducer] : AtReducer(home) /\ Stored(output, nearest, Reduced, home)

ReduceCalls ==
    /\ Round(reduce_calls, Completed, failed_reducers, ReduceRound, Reducer)
    /\ \A c \in reduce_calls :
          c.lost = 0 /\ Gathered(c, partitions) /\ (c.status # "sent" => c.next = NumMappers)
    /\ phase \in {"map", "mapping", "remapping"} => Completed = {} /\ failed_reducers = {}

\* The responses collected are right, and there is one for a centroid.
ResponsesTrue ==
    /\ \A n \in 1..Len(reducer_responses) :
          reducer_responses[n] \in MeansOf(nearest, reducer_responses[n].task)
    /\ \A m, n \in 1..Len(reducer_responses) :
          reducer_responses[m].centroid = reducer_responses[n].centroid => m = n

ReduceTrue == ReduceCalls /\ ReduceFiles /\ ResponsesTrue

\* Empty files hold the responses of no task.
LEMMA NothingStored ==
    ASSUME NEW a, NEW files, files = [r \in Reducer |-> EmptyBag]
    PROVE  \E home \in [Reducer -> Reducer] : Stored(files, a, {}, home)
  <1>1. PICK home : home = [i \in Reducer |-> i]
    OBVIOUS
  <1>2. Stored(files, a, {}, home)
    BY DEF Stored, EmptyBag
  <1> QED BY <1>1, <1>2

\* The files stay as they are while no task is stored.
LEMMA ReduceFilesKept ==
    ASSUME ReduceFiles, UNCHANGED <<output, nearest>>, Reduced' = Reduced,
           Completed \subseteq Completed'
    PROVE  ReduceFiles'
  BY DEF ReduceFiles, AtReducer

LEMMA ReduceTrueFrame ==
    ASSUME ReduceTrue, UNCHANGED <<reduce_calls, reducer_responses, reducer_no_tasks,
                                   failed_reducers, nearest, partitions, output>>,
           ReduceRound' = ReduceRound,
           phase' \in {"map", "mapping", "remapping"}
               => phase \in {"map", "mapping", "remapping"}
    PROVE  ReduceTrue'
  <1>1. Completed' = Completed
    BY DEF Completed, Answered
  <1>2. Reduced' = Reduced
    BY <1>1 DEF Reduced
  <1>3. ReduceFiles'
    BY <1>1, <1>2, ReduceFilesKept DEF ReduceTrue
  <1>4. ReduceCalls'
    BY <1>1 DEF ReduceTrue, ReduceCalls
  <1>5. ResponsesTrue'
    BY DEF ReduceTrue, ResponsesTrue
  <1> QED BY <1>3, <1>4, <1>5 DEF ReduceTrue

\* There are no reduce calls outside the rounds of the reduce phase.
LEMMA NoReduceCalls ==
    ASSUME ReduceTrue, ReduceRound = "none"
    PROVE  reduce_calls = {}
  BY DEF ReduceTrue, ReduceCalls, Round

\* The map phase leaves the reducers alone.
LEMMA ReduceTrueMapping ==
    ASSUME MapTrue, ReduceTrue,
           \/ InvokeMappers \/ ReassignMappers \/ EndRemap \/ EndMap
           \/ \E c \in map_calls : MapOpens(c) \/ MapWrites(c) \/ MapFails(c) \/ CollectMap(c)
    PROVE  ReduceTrue'
  <1>1. /\ UNCHANGED <<reduce_calls, reducer_responses, reducer_no_tasks,
                       failed_reducers, nearest, output>>
        /\ \/ UNCHANGED phase /\ map_calls # {}
           \/ /\ phase \in {"map", "mapping", "remapping"}
              /\ phase' \in {"map", "mapping", "remapping", "reduce"}
    BY DEF InvokeMappers, ReassignMappers, EndRemap, EndMap, MapOpens, MapWrites, MapFails,
       CollectMap, masterVars, inputVars, reduceVars
  <1>2. map_calls # {} => phase \in {"mapping", "remapping"}
    BY DEF MapTrue, MapCalls, Round, MapRound
  <1>3. ReduceRound = "none" /\ ReduceRound' = "none" /\ phase \in {"map", "mapping", "remapping"}
    BY <1>1, <1>2 DEF ReduceRound
  <1>4. reduce_calls = {}
    BY <1>3, NoReduceCalls
  <1>5. Completed' = Completed
    BY <1>1 DEF Completed, Answered
  <1>6. ReduceFiles'
    BY <1>1, <1>5, ReduceFilesKept DEF ReduceTrue, Reduced
  <1>7. ReduceCalls'
    BY <1>1, <1>3, <1>4, <1>5 DEF ReduceTrue, ReduceCalls
  <1>8. ResponsesTrue'
    BY <1>1 DEF ReduceTrue, ResponsesTrue
  <1> QED BY <1>6, <1>7, <1>8 DEF ReduceTrue

LEMMA ReduceTrueCompile == ASSUME ReduceTrue, CompileCentroids PROVE ReduceTrue'
  <1>1. ReduceRound = "none" /\ ReduceRound' = "none" /\ reduce_calls' = reduce_calls
    BY DEF CompileCentroids, ReduceRound
  <1>2. reduce_calls = {}
    BY <1>1, NoReduceCalls
  <1>3. CASE phase' = "done"
    <2>1. UNCHANGED <<reducer_responses, reducer_no_tasks, failed_reducers, nearest,
                      partitions, output>>
      BY <1>3 DEF CompileCentroids, inputVars, reduceVars
    <2> QED BY <1>1, <1>3, <2>1, ReduceTrueFrame
  <1>4. CASE phase' = "map"
    <2>1. /\ reducer_responses' = <<>> /\ reducer_no_tasks' = {} /\ failed_reducers' = {}
          /\ output' = [r \in Reducer |-> EmptyBag]
      BY <1>4 DEF CompileCentroids
    <2>2. Completed' = {}
      BY <2>1 DEF Completed, Answered
    <2>3. ReduceCalls'
      BY <1>1, <1>2, <2>1, <2>2 DEF ReduceCalls, Round
    <2>4. Reduced' = {}
      BY <1>1, <1>2, <2>2 DEF Reduced, Carried
    <2>5. ReduceFiles'
      BY <2>1, <2>4, NothingStored DEF ReduceFiles, AtReducer
    <2>6. ResponsesTrue'
      BY <2>1 DEF ResponsesTrue
    <2> QED BY <2>3, <2>5, <2>6 DEF ReduceTrue
  <1> QED BY <1>3, <1>4 DEF CompileCentroids

LEMMA ReduceTrueRounds ==
    ASSUME ReduceTrue, InvokeReducers \/ ReassignReducers \/ EndRereduce
    PROVE  ReduceTrue'
  <1>1. /\ UNCHANGED <<nearest, reducer_responses, reducer_no_tasks, partitions, output>>
        /\ failed_reducers' \in SUBSET failed_reducers
        /\ phase' \in {"reduce", "reducing", "rereducing"}
    BY DEF InvokeReducers, ReassignReducers, EndRereduce, inputVars, mapVars, reduceVars,
       Forgiven
  <1>2. Completed' = Completed
    BY <1>1 DEF Completed, Answered
  <1>3. \A i, w : LET d == ReduceCall(i, w) IN
            /\ d.task = i /\ d.worker = w /\ d.lost = 0 /\ d.status = "sent"
            /\ Gathered(d, partitions)
    BY DEF ReduceCall, Gathered, EmptyBag
  <1>4. ASSUME NEW new, reduce_calls' = reduce_calls \cup new,
               \A c \in new : c.lost = 0 /\ c.status = "sent" /\ Gathered(c, partitions),
               Round(reduce_calls \cup new, Completed, failed_reducers', ReduceRound', Reducer)
        PROVE  ReduceTrue'
    <2>1. Reduced' = Reduced
      BY <1>2, <1>4, CarriedMore DEF Reduced
    <2>2. ReduceFiles'
      BY <1>1, <1>2, <2>1, ReduceFilesKept DEF ReduceTrue
    <2>3. ReduceCalls'
      BY <1>1, <1>2, <1>4 DEF ReduceTrue, ReduceCalls
    <2>4. ResponsesTrue'
      BY <1>1 DEF ReduceTrue, ResponsesTrue
    <2> QED BY <2>2, <2>3, <2>4 DEF ReduceTrue
  <1>5. Round(reduce_calls, Completed, failed_reducers, ReduceRound, Reducer)
    BY DEF ReduceTrue, ReduceCalls
  <1>6. CASE InvokeReducers
    <2>1. PICK S : S = Reducer \ (Completed \cup failed_reducers)
      OBVIOUS
    <2>2. PICK new : new = {ReduceCall(i, i) : i \in S}
      OBVIOUS
    <2>3. /\ reduce_calls' = reduce_calls \cup new /\ failed_reducers' = failed_reducers
          /\ ReduceRound = "none" /\ ReduceRound' = "first"
      BY <1>6, <2>1, <2>2 DEF InvokeReducers, reduceVars, ReduceRound
    <2>4. /\ \A c \in new : /\ c.worker = c.task /\ c.lost = 0 /\ c.status = "sent"
                            /\ Gathered(c, partitions) /\ c = ReduceCall(c.task, c.task)
          /\ {c.task : c \in new} = S
      BY <1>3, <2>2
    <2>5. Round(reduce_calls \cup new, Completed, failed_reducers, "first", Reducer)
      BY <1>5, <2>1, <2>3, <2>4, RoundFirst
    <2> QED BY <1>4, <2>3, <2>4, <2>5
  <1>7. CASE ReassignReducers
    <2>1. reduce_calls = {} /\ ReduceRound = "first"
      BY <1>7 DEF ReassignReducers, Waiting, ReduceTrue, ReduceCalls, ReduceRound
    <2>2. CASE phase' = "reduce"
      <3>1. reduce_calls' = reduce_calls /\ ReduceRound' = "none"
        BY <1>7, <2>2 DEF ReassignReducers, ReduceRound
      <3>2. Round(reduce_calls, Completed, failed_reducers', "none", Reducer)
        BY <1>1, <1>5, <2>1, RoundEnds
      <3>3. PICK new : new = {}
        OBVIOUS
      <3>4. reduce_calls \cup new = reduce_calls
        BY <3>3
      <3> QED BY <1>4, <3>1, <3>2, <3>3, <3>4
    <2>3. CASE phase' # "reduce"
      <3>1. /\ phase' = "rereducing" /\ failed_reducers' = failed_reducers
            /\ \E home \in [failed_reducers -> Reducer] :
                   /\ \A i \in failed_reducers :
                          home[i] \in NewWorker(Reducer \ failed_reducers, i, Reducer)
                   /\ reduce_calls' = reduce_calls \cup
                          {ReduceCall(i, home[i]) : i \in failed_reducers}
        BY <1>7, <2>3 DEF ReassignReducers
      <3>2. PICK home \in [failed_reducers -> Reducer] :
                /\ \A i \in failed_reducers :
                       home[i] \in NewWorker(Reducer \ failed_reducers, i, Reducer)
                /\ reduce_calls' = reduce_calls \cup
                       {ReduceCall(i, home[i]) : i \in failed_reducers}
        BY <3>1
      <3>3. PICK new : new = {ReduceCall(i, home[i]) : i \in failed_reducers}
        OBVIOUS
      <3>4. \A c \in new :
                /\ c.lost = 0 /\ c.status = "sent" /\ Gathered(c, partitions)
                /\ c.task \in failed_reducers /\ c.worker = home[c.task]
                /\ c = ReduceCall(c.task, home[c.task])
        BY <1>3, <3>3
      <3>5. \A c, d \in new : c.task = d.task => c = d
        BY <3>4
      <3>6. Round(reduce_calls \cup new, Completed, failed_reducers, "second", Reducer)
        BY <1>5, <2>1, <3>2, <3>4, <3>5, RoundSecond
      <3>7. ReduceRound' = "second"
        BY <3>1 DEF ReduceRound
      <3> QED BY <1>4, <3>1, <3>2, <3>3, <3>4, <3>6, <3>7
    <2> QED BY <2>2, <2>3
  <1>8. CASE EndRereduce
    <2>1. /\ reduce_calls = {} /\ ReduceRound' = "none" /\ reduce_calls' = reduce_calls
          /\ failed_reducers' = failed_reducers
      BY <1>8 DEF EndRereduce, Waiting, ReduceTrue, ReduceCalls, ReduceRound, reduceVars
    <2>2. Round(reduce_calls, Completed, failed_reducers', "none", Reducer)
      BY <1>1, <1>5, <2>1, RoundEnds
    <2>3. PICK new : new = {}
      OBVIOUS
    <2>4. reduce_calls \cup new = reduce_calls
      BY <2>3
    <2> QED BY <1>4, <2>1, <2>2, <2>3, <2>4
  <1> QED BY <1>6, <1>7, <1>8

\* A call in the reduce phase: the mappers' files are complete.
LEMMA ReduceCallIs ==
    ASSUME Types, MapTrue, ReduceTrue, NEW c \in reduce_calls
    PROVE  /\ c \in ReduceCallType /\ c.lost = 0 /\ Gathered(c, partitions)
           /\ c.status # "sent" => c.next = NumMappers
           /\ \A d \in reduce_calls : d.task = c.task => d = c
           /\ c.task \in Reducer \ Completed /\ c.worker \in {c.task} \cup Completed
           /\ phase \in {"reducing", "rereducing"}
           /\ \E home \in [Mapper -> Mapper] : Filed(partitions, nearest, Mapper, home)
  <1>1. phase \in {"reducing", "rereducing"}
    BY DEF ReduceTrue, ReduceCalls, Round, ReduceRound
  <1>2. \E home \in [Mapper -> Mapper] : Filed(partitions, nearest, Mapper, home)
    BY <1>1, AllFiled
  <1>3. c \in ReduceCallType
    BY DEF Types, CallTypes
  <1> QED BY <1>1, <1>2, <1>3 DEF ReduceTrue, ReduceCalls, Round

\* It asks a mapper for its lines, or fails.
LEMMA ReduceTrueGathers ==
    ASSUME Types, MapTrue, ReduceTrue, NEW c \in reduce_calls, Shuffle(c) \/ ReduceFails(c)
    PROVE  ReduceTrue'
  <1>1. /\ UNCHANGED <<phase, nearest, partitions, output, reducer_responses,
                       reducer_no_tasks, failed_reducers>>
        /\ c.status = "sent"
    BY DEF Shuffle, ReduceFails, masterVars, inputVars, reduceVars
  <1>2. /\ c \in ReduceCallType /\ c.lost = 0 /\ Gathered(c, partitions)
        /\ \A d \in reduce_calls : d.task = c.task => d = c
    BY ReduceCallIs
  <1>3. \E d : /\ reduce_calls' = (reduce_calls \ {c}) \cup {d}
               /\ d.task = c.task /\ d.worker = c.worker /\ d.lost = 0
               /\ d.status # "SUCCESS" /\ Gathered(d, partitions)
               /\ d.status # "sent" => d.next = NumMappers
    <2>1. CASE Shuffle(c)
      <3>1. PICK d : d = [c EXCEPT !.data = @ (+) partitions[c.next][c.task], !.next = @ + 1]
        OBVIOUS
      <3>2. /\ d.task = c.task /\ d.worker = c.worker /\ d.lost = c.lost
            /\ d.status = c.status /\ d.next = c.next + 1
            /\ d.data = c.data (+) partitions[c.next][c.task]
        BY <1>2, <3>1 DEF ReduceCallType
      <3>3. reduce_calls' = (reduce_calls \ {c}) \cup {d} /\ c.next < NumMappers
        BY <2>1, <3>1 DEF Shuffle
      <3>4. PICK home \in [Mapper -> Mapper] : Filed(partitions, nearest, Mapper, home)
        BY ReduceCallIs
      <3>5. Gathered(d, partitions)
        BY <1>2, <3>2, <3>3, <3>4, GatherOneMore
      <3> QED BY <1>1, <1>2, <3>2, <3>3, <3>5
    <2>2. CASE ReduceFails(c)
      <3>1. PICK d : d = [c EXCEPT !.status = "FAILED"]
        OBVIOUS
      <3>2. /\ d.task = c.task /\ d.worker = c.worker /\ d.lost = c.lost
            /\ d.status = "FAILED" /\ d.next = c.next /\ d.data = c.data
        BY <1>2, <3>1 DEF ReduceCallType
      <3>3. reduce_calls' = (reduce_calls \ {c}) \cup {d} /\ c.next = NumMappers
        BY <1>2, <2>2, <3>1 DEF ReduceFails, Answer
      <3>4. Gathered(d, partitions)
        BY <1>2, <3>2 DEF Gathered
      <3> QED BY <1>2, <3>2, <3>3, <3>4
    <2> QED BY <2>1, <2>2
  <1>4. PICK d : /\ reduce_calls' = (reduce_calls \ {c}) \cup {d}
                 /\ d.task = c.task /\ d.worker = c.worker /\ d.lost = 0
                 /\ d.status # "SUCCESS" /\ Gathered(d, partitions)
                 /\ d.status # "sent" => d.next = NumMappers
    BY <1>3
  <1>5. Completed' = Completed /\ ReduceRound' = ReduceRound
    BY <1>1 DEF Completed, Answered, ReduceRound
  <1>6. ReduceCalls'
    <2>1. Round(reduce_calls', Completed, failed_reducers, ReduceRound, Reducer)
      BY <1>4, RoundAnswer DEF ReduceTrue, ReduceCalls
    <2> QED BY <1>1, <1>4, <1>5, <2>1 DEF ReduceTrue, ReduceCalls
  <1>7. Reduced' = Reduced
    BY <1>1, <1>4, <1>5, CarriedAnswer DEF Reduced
  <1>8. ReduceFiles'
    BY <1>1, <1>5, <1>7, ReduceFilesKept DEF ReduceTrue
  <1>9. ResponsesTrue'
    BY <1>1 DEF ReduceTrue, ResponsesTrue
  <1> QED BY <1>6, <1>8, <1>9 DEF ReduceTrue

\* A reducer that succeeds stores the responses of its task, and no others.
LEMMA ReduceTrueSaves ==
    ASSUME Types, MapTrue, ReduceTrue, NEW c \in reduce_calls, ReduceSaves(c)
    PROVE  ReduceTrue'
  <1>1. /\ c \in ReduceCallType /\ c.lost = 0 /\ Gathered(c, partitions)
        /\ c.status = "sent" /\ c.next = NumMappers
        /\ \A d \in reduce_calls : d.task = c.task => d = c
        /\ c.task \in Reducer \ Completed /\ c.worker \in {c.task} \cup Completed
    BY ReduceCallIs DEF ReduceSaves
  <1>2. Responses(c) = MeansOf(nearest, c.task)
    <2>1. PICK home \in [Mapper -> Mapper] : Filed(partitions, nearest, Mapper, home)
      BY ReduceCallIs
    <2> QED BY <1>1, <2>1, GatheredAll
  <1>3. c.task \notin Reduced /\ Reduced \in SUBSET Reducer /\ Completed \subseteq Reducer
    BY <1>1 DEF Reduced, Carried, Round, ReduceTrue, ReduceCalls
  <1>4. PICK d : d = [c EXCEPT !.status = "SUCCESS"]
    OBVIOUS
  <1>5. /\ d.task = c.task /\ d.worker = c.worker /\ d.lost = c.lost
        /\ d.status = "SUCCESS" /\ d.next = c.next /\ d.data = c.data
        /\ c.worker \in Reducer
    BY <1>1, <1>3, <1>4 DEF ReduceCallType
  <1>6. /\ reduce_calls' = (reduce_calls \ {c}) \cup {d}
        /\ UNCHANGED <<phase, nearest, partitions, reducer_responses, reducer_no_tasks,
                       failed_reducers>>
    BY <1>1, <1>4 DEF ReduceSaves, Answer, masterVars, inputVars, reduceVars
  <1>7. Completed' = Completed /\ ReduceRound' = ReduceRound
    BY <1>6 DEF Completed, Answered, ReduceRound
  <1>8. ReduceCalls'
    <2>1. Round(reduce_calls', Completed, failed_reducers, ReduceRound, Reducer)
      BY <1>5, <1>6, RoundAnswer DEF ReduceTrue, ReduceCalls
    <2>2. Gathered(d, partitions)
      BY <1>1, <1>5 DEF Gathered
    <2> QED BY <1>1, <1>5, <1>6, <1>7, <2>1, <2>2 DEF ReduceTrue, ReduceCalls
  <1>9. Reduced' = Reduced \cup {c.task}
    BY <1>1, <1>5, <1>6, <1>7, CarriedAnswer DEF Reduced
  <1>10. PICK home \in [Reducer -> Reducer] :
             AtReducer(home) /\ Stored(output, nearest, Reduced, home)
    BY DEF ReduceTrue, ReduceFiles
  <1>11. c.worker # c.task \/ \A j \in Reduced : home[j] # c.worker
    BY <1>1, <1>3, <1>10 DEF AtReducer
  <1>12. output' = [output EXCEPT ![c.worker] = Saved(@, c, MeansOf(nearest, c.task))]
    BY <1>2 DEF ReduceSaves
  <1>13. PICK h : h = [home EXCEPT ![c.task] = c.worker]
    OBVIOUS
  <1>14. Stored(output', nearest, Reduced \cup {c.task}, h)
    BY <1>1, <1>3, <1>5, <1>10, <1>11, <1>12, <1>13, StoresOneMore DEF Types, FileTypes
  <1>15. h \in [Reducer -> Reducer] /\ AtReducer(h)'
    BY <1>1, <1>3, <1>5, <1>7, <1>9, <1>10, <1>13 DEF AtReducer
  <1>16. ReduceFiles'
    BY <1>6, <1>9, <1>14, <1>15 DEF ReduceFiles
  <1>17. ResponsesTrue'
    BY <1>6 DEF ReduceTrue, ResponsesTrue
  <1> QED BY <1>8, <1>16, <1>17 DEF ReduceTrue

\* The elements that t has after those of s are the members of got, each once.
Extends(t, s, got) ==
    /\ \A n \in 1..Len(s) : n \in 1..Len(t) /\ t[n] = s[n]
    /\ \A n \in 1..Len(t) : n \notin 1..Len(s) => t[n] \in got
    /\ \A m, n \in 1..Len(t) :
           m \notin 1..Len(s) /\ n \notin 1..Len(s) /\ t[m] = t[n] => m = n
    /\ \A x \in got : \E n \in 1..Len(t) : t[n] = x

LEMMA ListedAfter ==
    ASSUME NEW S, NEW s \in Seq(S), NEW got \in SUBSET S, IsFiniteSet(got)
    PROVE  Extends(s \o SetToSeq(got), s, got)
  <1> SUFFICES ASSUME NEW t, t = s \o SetToSeq(got) PROVE Extends(t, s, got)
    OBVIOUS
  <1>1. PICK u : u = SetToSeq(got)
    OBVIOUS
  <1>2. PICK k : k = Cardinality(got)
    OBVIOUS
  <1>3. /\ u \in Seq(got) /\ Len(u) = k
        /\ \A i, j \in 1..k : u[i] = u[j] => i = j
    BY <1>1, <1>2, Listed
  <1>4. k \in Nat
    BY <1>2, FS_CardinalityType
  <1>5. u \in Seq(S) /\ \A i \in 1..k : u[i] \in got
    BY <1>3, ElementOfSeq
  <1>6. /\ t \in Seq(S) /\ Len(t) = Len(s) + k
        /\ \A i \in 1..(Len(s) + k) : t[i] = IF i <= Len(s) THEN s[i] ELSE u[i - Len(s)]
    BY <1>1, <1>3, <1>5, ConcatProperties
  <1>7. PICK l \in Nat : l = Len(s)
    BY LenProperties
  <1>8. \A n \in 1..(l + k) : n \notin 1..l => n - l \in 1..k /\ t[n] = u[n - l]
    BY <1>4, <1>6, <1>7
  <1>9. \A n \in 1..l : n \in 1..(l + k) /\ t[n] = s[n]
    BY <1>4, <1>6, <1>7
  <1>10. ASSUME NEW x \in got PROVE \E n \in 1..(l + k) : t[n] = x
    <2>1. PICK i \in 1..k : u[i] = x
      <3>1. PICK f : f \in [1..k -> got] /\ f = u
        BY <1>3, LenProperties
      <3>2. f \in Injection(1..k, got)
        BY <1>3, <3>1 DEF Injection, IsInjective
      <3>3. IsFiniteSet(1..k) /\ Cardinality(1..k) = k
        <4>1. PICK one : one = 1
          OBVIOUS
        <4>2. one \in Int /\ k \in Int
          BY <1>4, <4>1
        <4> QED BY <1>4, <4>1, <4>2, FS_Interval
      <3>4. f \in Surjection(1..k, got)
        BY <1>2, <3>2, <3>3, FS_Injection
      <3> QED BY <3>1, <3>4 DEF Surjection
    <2>2. l + i \in 1..(l + k) /\ l + i \notin 1..l /\ (l + i) - l = i
      BY <1>4
    <2> QED BY <1>8, <2>1, <2>2
  <1>11. \A m, n \in 1..(l + k) : m \notin 1..l /\ n \notin 1..l /\ t[m] = t[n] => m = n
    <2> SUFFICES ASSUME NEW m \in 1..(l + k), NEW n \in 1..(l + k), m \notin 1..l,
                        n \notin 1..l, t[m] = t[n]
                 PROVE  m = n
      OBVIOUS
    <2>1. m - l = n - l
      BY <1>3, <1>8
    <2> QED BY <1>4, <2>1
  <1>12. \A n \in 1..(l + k) : n \notin 1..l => t[n] \in got
    BY <1>5, <1>8
  <1> QED BY <1>4, <1>6, <1>7, <1>9, <1>10, <1>11, <1>12 DEF Extends

\* The master takes the responses of a task: as many as it has centroids.
LEMMA ReduceTrueCollects ==
    ASSUME Types, MapTrue, ReduceTrue, NEW c \in reduce_calls, CollectReduce(c)
    PROVE  ReduceTrue'
  <1>1. /\ c \in ReduceCallType /\ c.lost = 0 /\ Gathered(c, partitions)
        /\ c.status # "sent" /\ c.next = NumMappers
        /\ \A d \in reduce_calls : d.task = c.task => d = c
        /\ c.task \in Reducer \ Completed
        /\ phase \in {"reducing", "rereducing"}
    BY ReduceCallIs DEF CollectReduce
  <1>2. /\ UNCHANGED <<phase, nearest, partitions, output>> /\ reduce_calls' = reduce_calls \ {c}
        /\ \/ /\ c.status = "SUCCESS"
              /\ reducer_responses' = reducer_responses \o SetToSeq(Responses(c))
              /\ reducer_no_tasks' = reducer_no_tasks \cup {i \in {c.task} : Responses(c) = {}}
              /\ failed_reducers' = failed_reducers \ {c.task}
           \/ /\ c.status # "SUCCESS"
              /\ UNCHANGED <<reducer_responses, reducer_no_tasks>>
              /\ failed_reducers' = failed_reducers \cup {c.task}
    BY DEF CollectReduce, masterVars, inputVars
  <1>3. ReduceRound' = ReduceRound
    BY <1>2 DEF ReduceRound
  <1>4. Round(reduce_calls, Completed, failed_reducers, ReduceRound, Reducer)
    BY DEF ReduceTrue, ReduceCalls
  <1>5. CASE c.status # "SUCCESS"
    <2>1. Completed' = Completed
      BY <1>2, <1>5 DEF Completed, Answered
    <2>2. Reduced' = Reduced
      BY <1>1, <1>2, <1>5, <2>1, CarriedCollect DEF Reduced
    <2>3. ReduceFiles'
      BY <1>2, <2>1, <2>2, ReduceFilesKept DEF ReduceTrue
    <2>4. Round(reduce_calls', Completed, failed_reducers', ReduceRound, Reducer)
      <3>1. Round(reduce_calls \ {c}, Completed, failed_reducers \cup {c.task}, ReduceRound,
                  Reducer)
        BY <1>4, RoundCollect
      <3> QED BY <1>2, <1>5, <3>1
    <2>5. ReduceCalls'
      BY <1>1, <1>2, <1>3, <2>1, <2>4 DEF ReduceTrue, ReduceCalls
    <2>6. ResponsesTrue'
      BY <1>2, <1>5 DEF ReduceTrue, ResponsesTrue
    <2> QED BY <2>3, <2>5, <2>6 DEF ReduceTrue
  <1>6. CASE c.status = "SUCCESS"
    <2>1. PICK i : i = c.task
      OBVIOUS
    <2>2. PICK got : got = Responses(c)
      OBVIOUS
    <2>3. got = MeansOf(nearest, i) /\ got \in SUBSET Response /\ IsFiniteSet(got)
      <3>1. PICK home \in [Mapper -> Mapper] : Filed(partitions, nearest, Mapper, home)
        BY ReduceCallIs
      <3> QED BY <1>1, <2>1, <2>2, <3>1, GatheredAll, ResponsesType
    <2>4. PICK s \in Seq(Response) : s = reducer_responses
      BY DEF Types, ListTypes
    <2>5. PICK t : t = s \o SetToSeq(got)
      OBVIOUS
    <2>6. /\ reducer_responses' = t
          /\ reducer_no_tasks' = reducer_no_tasks \cup {j \in {i} : got = {}}
          /\ failed_reducers' = failed_reducers \ {i}
      BY <1>2, <1>6, <2>1, <2>2, <2>4, <2>5
    <2>7. /\ \A n \in 1..Len(s) : n \in 1..Len(t) /\ t[n] = s[n]
          /\ \A n \in 1..Len(t) : n \notin 1..Len(s) => t[n] \in got
          /\ \A m, n \in 1..Len(t) :
                 m \notin 1..Len(s) /\ n \notin 1..Len(s) /\ t[m] = t[n] => m = n
          /\ \A x \in got : \E n \in 1..Len(t) : t[n] = x
      <3>1. Extends(t, s, got)
        BY <2>3, <2>5, ListedAfter
      <3> QED BY <3>1 DEF Extends
    <2>8. \A x \in got : /\ x.task = i /\ i = Partition(x.centroid)
                         /\ x = [task |-> i, centroid |-> x.centroid,
                                 points |-> ExactOf(nearest, x.centroid)]
      BY <2>3, MeanIs
    <2>9. /\ \A n \in 1..Len(s) : s[n] \in MeansOf(nearest, s[n].task)
          /\ \A m, n \in 1..Len(s) : s[m].centroid = s[n].centroid => m = n
      BY <2>4 DEF ReduceTrue, ResponsesTrue
    <2>10. \A n \in 1..Len(s) : s[n].task # i /\ s[n].task = Partition(s[n].centroid)
      <3>1. \A n \in 1..Len(s) : s[n].task \in Completed
        BY <2>4 DEF Completed, Answered
      <3> QED BY <1>1, <2>1, <2>9, <3>1, MeanIs
    <2>11. Completed' = Completed \cup {i}
      <3>1. PICK A : A = {s[n].task : n \in 1..Len(s)}
        OBVIOUS
      <3>2. PICK B : B = {t[n].task : n \in 1..Len(t)}
        OBVIOUS
      <3>3. B \subseteq A \cup {i}
        BY <2>7, <2>8, <3>1, <3>2
      <3>4. A \subseteq B
        BY <2>7, <3>1, <3>2
      <3>5. got # {} => i \in B
        BY <2>7, <2>8, <3>2
      <3>6. Completed = A \cup reducer_no_tasks /\ Completed' = B \cup reducer_no_tasks'
        BY <2>4, <2>6, <3>1, <3>2 DEF Completed, Answered
      <3> QED BY <2>6, <3>3, <3>4, <3>5, <3>6
    <2>12. Reduced' = Reduced
      BY <1>1, <1>2, <1>6, <2>1, <2>11, CarriedCollect DEF Reduced
    <2>13. ReduceFiles'
      BY <1>2, <2>11, <2>12, ReduceFilesKept DEF ReduceTrue
    <2>14. Round(reduce_calls', Completed', failed_reducers', ReduceRound, Reducer)
      <3>1. Round(reduce_calls \ {c}, Completed \cup {c.task}, failed_reducers \ {c.task},
                  ReduceRound, Reducer)
        BY <1>4, RoundCollect
      <3> QED BY <1>2, <2>1, <2>6, <2>11, <3>1
    <2>15. ReduceCalls'
      BY <1>1, <1>2, <1>3, <2>14 DEF ReduceTrue, ReduceCalls
    <2>16. ASSUME NEW n \in 1..Len(t) PROVE t[n] \in MeansOf(nearest, t[n].task)
      BY <2>3, <2>7, <2>8, <2>9
    <2>17. ASSUME NEW m \in 1..Len(t), NEW n \in 1..Len(t), t[m].centroid = t[n].centroid
           PROVE  m = n
      <3>1. CASE m \in 1..Len(s) /\ n \in 1..Len(s)
        BY <2>7, <2>9, <2>17, <3>1
      <3>2. CASE m \notin 1..Len(s) /\ n \notin 1..Len(s)
        <4>1. t[m] \in got /\ t[n] \in got
          BY <2>7, <3>2
        <4>2. t[m] = t[n]
          BY <2>8, <2>17, <4>1
        <4> QED BY <2>7, <3>2, <4>2
      <3>3. CASE m \in 1..Len(s) /\ n \notin 1..Len(s)
        BY <2>7, <2>8, <2>10, <2>17, <3>3
      <3>4. CASE m \notin 1..Len(s) /\ n \in 1..Len(s)
        BY <2>7, <2>8, <2>10, <2>17, <3>4
      <3> QED BY <3>1, <3>2, <3>3, <3>4
    <2>18. ResponsesTrue'
      BY <1>2, <2>6, <2>16, <2>17 DEF ResponsesTrue
    <2> QED BY <2>13, <2>15, <2>18 DEF ReduceTrue
  <1> QED BY <1>5, <1>6

ReduceInv == errors = 0 => ReduceTrue

LEMMA ReduceInit == Init => ReduceInv
  <1> SUFFICES ASSUME Init PROVE ReduceTrue
    BY DEF ReduceInv
  <1>1. Completed = {}
    BY DEF Init, Completed, Answered
  <1>2. Reduced = {}
    BY <1>1 DEF Init, Reduced, Carried
  <1>3. ReduceFiles
    BY <1>2, NothingStored DEF Init, ReduceFiles, AtReducer
  <1>4. ReduceCalls
    BY <1>1 DEF Init, ReduceCalls, ReduceRound, Round
  <1>5. ResponsesTrue
    BY DEF Init, ResponsesTrue
  <1> QED BY <1>3, <1>4, <1>5 DEF ReduceTrue

LEMMA ReduceNext == Types /\ MapInv /\ ReduceInv /\ [Next]_vars => ReduceInv'
  <1> SUFFICES ASSUME Types, MapInv, ReduceInv, [Next]_vars, errors' = 0 PROVE ReduceTrue'
    BY DEF ReduceInv
  <1>1. errors = 0 /\ MapTrue /\ ReduceTrue
    BY ErrorsStay DEF MapInv, ReduceInv
  <1>2. CASE \/ InvokeMappers \/ ReassignMappers \/ EndRemap \/ EndMap
             \/ \E c \in map_calls : MapOpens(c) \/ MapWrites(c) \/ MapFails(c) \/ CollectMap(c)
    BY <1>1, <1>2, ReduceTrueMapping
  <1>3. CASE InvokeReducers \/ ReassignReducers \/ EndRereduce
    BY <1>1, <1>3, ReduceTrueRounds
  <1>4. CASE \E c \in reduce_calls : \/ Shuffle(c) \/ ReduceFails(c)
                                     \/ ReduceSaves(c) \/ CollectReduce(c)
    BY <1>1, <1>4, ReduceTrueGathers, ReduceTrueSaves, ReduceTrueCollects
  <1>5. CASE CompileCentroids
    BY <1>1, <1>5, ReduceTrueCompile
  <1>6. CASE UNCHANGED vars
    BY <1>1, <1>6, ReduceTrueFrame DEF vars, masterVars, inputVars, reduceVars, ReduceRound
  <1>7. CASE \/ \E c \in map_calls : MapTimesOut(c)
             \/ \E c \in reduce_calls : ShuffleMisses(c) \/ ReduceBreaks(c)
    BY <1>1, <1>7 DEF MapTimesOut, ShuffleMisses, ReduceBreaks
  <1> QED BY <1>2, <1>3, <1>4, <1>5, <1>6, <1>7 DEF Next, Work, Fault, Done

-----------------------------------------------------------------------------
(* What the master compiles. *)

\* With as many responses as centroids, and no two for the same one, there is one for
\* every centroid there can be.
LEMMA AllAnswered ==
    ASSUME Types, ReduceTrue, Enough
    PROVE  \A d \in Centroid :
               \E n \in 1..Len(reducer_responses) : reducer_responses[n].centroid = d
  <1>1. PICK s \in Seq(Response) : s = reducer_responses
    BY DEF Types, ListTypes
  <1>2. PICK l \in Nat : l = Len(s)
    BY LenProperties
  <1>3. l >= NumCentroids /\ \A m, n \in 1..l : s[m].centroid = s[n].centroid => m = n
    BY <1>1, <1>2 DEF Enough, ReduceTrue, ResponsesTrue
  <1>4. \A n \in 1..l : s[n].centroid \in Centroid
    <2>1. \A n \in 1..l : s[n] \in Response
      BY <1>2, ElementOfSeq
    <2> QED BY <2>1 DEF Response
  <1>5. PICK f : f = [n \in 1..l |-> s[n].centroid]
    OBVIOUS
  <1>6. f \in Injection(1..l, Centroid)
    BY <1>3, <1>4, <1>5 DEF Injection, IsInjective
  <1>7. IsFiniteSet(1..l) /\ Cardinality(1..l) = l
    <2>1. PICK one : one = 1
      OBVIOUS
    <2>2. one \in Int /\ l \in Int
      BY <2>1
    <2> QED BY <2>1, <2>2, FS_Interval
  <1>8. l <= NumCentroids /\ l = NumCentroids => f \in Surjection(1..l, Centroid)
    BY <1>6, <1>7, CentroidsFinite, FS_Injection
  <1>9. f \in Surjection(1..l, Centroid)
    <2>1. l <= NumCentroids
      BY <1>6, <1>7, CentroidsFinite, FS_Injection
    <2> QED BY <1>3, <1>8, <2>1, SizeAssumption
  <1> QED BY <1>1, <1>2, <1>5, <1>9 DEF Surjection

\* Then every centroid is nearest to some point, and its response is at its index.
LEMMA AnswerOf ==
    ASSUME Types, ReduceTrue, Enough, NEW d \in Centroid
    PROVE  \E n \in 1..Len(reducer_responses) :
               /\ reducer_responses[n] = [task |-> Partition(d), centroid |-> d,
                                          points |-> ExactOf(nearest, d)]
               /\ \A m \in 1..Len(reducer_responses) :
                      reducer_responses[m].centroid = d => m = n
               /\ d \in OldOf(nearest, Partition(d))
               /\ Partition(d) \in Completed
  <1>1. PICK n \in 1..Len(reducer_responses) : reducer_responses[n].centroid = d
    BY AllAnswered
  <1>2. reducer_responses[n] \in MeansOf(nearest, reducer_responses[n].task)
    BY DEF ReduceTrue, ResponsesTrue
  <1>3. PICK x : x = reducer_responses[n]
    OBVIOUS
  <1>4. /\ x = [task |-> Partition(d), centroid |-> d, points |-> ExactOf(nearest, d)]
        /\ d \in OldOf(nearest, Partition(d))
    BY <1>1, <1>2, <1>3, MeanIs
  <1>5. Partition(d) \in Completed
    <2>1. x.task = Partition(d)
      BY <1>4
    <2>2. reducer_responses[n].task \in Answered
      BY DEF Answered
    <2> QED BY <1>3, <2>1, <2>2 DEF Completed
  <1>6. \A m \in 1..Len(reducer_responses) : reducer_responses[m].centroid = d => m = n
    BY <1>1 DEF ReduceTrue, ResponsesTrue
  <1> QED BY <1>3, <1>4, <1>5, <1>6

LEMMA OldCentroids ==
    ASSUME Types, ReduceTrue, Enough
    PROVE  {nearest[p] : p \in Point} = Centroid
  <1>1. \A p \in Point : nearest[p] \in Centroid
    BY NearestType DEF Types, InputTypes
  <1>2. \A d \in Centroid : \E p \in Point : nearest[p] = d
    BY AnswerOf DEF OldOf
  <1> QED BY <1>1, <1>2

\* The centroids the master compiles from the responses are the means of exactly the
\* points nearest to each of the old ones, and none is missing, whichever tasks failed
\* and whoever they were reassigned to, as long as every call was answered.
THEOREM CentroidsRight == Spec => []CentroidsExact
  <1>1. Types /\ ReduceInv => CentroidsExact
    <2> SUFFICES ASSUME Types, ReduceTrue, Enough
                 PROVE  Compile(reducer_responses) =
                            [c \in {nearest[p] : p \in Point} |-> Exact(c)]
      BY DEF ReduceInv, CentroidsExact
    <2>1. PICK s : s = reducer_responses
      OBVIOUS
    <2>2. {s[n].centroid : n \in 1..Len(s)} = Centroid
      <3>1. \A n \in 1..Len(s) : s[n].centroid \in Centroid
        <4>1. \A n \in 1..Len(s) : s[n] \in Response
          BY <2>1, ElementOfSeq DEF Types, ListTypes
        <4> QED BY <4>1 DEF Response
      <3> QED BY <2>1, <3>1, AllAnswered
    <2>3. ASSUME NEW d \in Centroid
          PROVE  s[CHOOSE n \in 1..Len(s) :
                       /\ s[n].centroid = d
                       /\ \A m \in (n + 1)..Len(s) : s[m].centroid # d].points = Exact(d)
      <3>1. PICK k \in 1..Len(s) :
                /\ s[k] = [task |-> Partition(d), centroid |-> d,
                           points |-> ExactOf(nearest, d)]
                /\ \A m \in 1..Len(s) : s[m].centroid = d => m = k
        BY <2>1, AnswerOf
      <3>2. Len(s) \in Nat /\ \A m \in (k + 1)..Len(s) : m \in 1..Len(s) /\ m # k
        BY <2>1, LenProperties DEF Types, ListTypes
      <3>3. s[k].centroid = d /\ \A m \in (k + 1)..Len(s) : s[m].centroid # d
        BY <3>1, <3>2
      <3>4. (CHOOSE n \in 1..Len(s) :
                 /\ s[n].centroid = d
                 /\ \A m \in (n + 1)..Len(s) : s[m].centroid # d) = k
        BY <3>1, <3>3
      <3>5. s[k].points = Exact(d)
        BY <3>1 DEF ExactOf, Exact
      <3> QED BY <3>4, <3>5
    <2>4. Compile(s) = [d \in Centroid |-> Exact(d)]
      BY <2>2, <2>3 DEF Compile
    <2> QED BY <2>1, <2>4, OldCentroids
  <1> QED BY <1>1, TypesInit, TypesNext, MapInit, MapNext, ReduceInit, ReduceNext, PTL DEF Spec

\* By then the reducers' files hold each new centroid once, in the file of its own
\* reducer or of the one its task was reassigned to.
THEOREM OutputRight == Spec => []OutputComplete
  <1>1. Types /\ ReduceInv => OutputComplete
    <2> SUFFICES ASSUME Types, ReduceTrue, Enough, NEW c \in {nearest[p] : p \in Point}
                 PROVE  \E w \in Reducer :
                            {x \in UNION {{v} \X DOMAIN output[v] : v \in Reducer} :
                                 x[2].centroid = c}
                            = {<<w, [task |-> Partition(c), centroid |-> c,
                                     points |-> Exact(c)]>>}
      BY DEF ReduceInv, OutputComplete
    <2>1. PICK mean : mean = [task |-> Partition(c), centroid |-> c,
                              points |-> ExactOf(nearest, c)]
      OBVIOUS
    <2>2. PICK i : i = Partition(c)
      OBVIOUS
    <2>3. c \in Centroid
      BY OldCentroids
    <2>4. c \in OldOf(nearest, i) /\ i \in Completed
      BY <2>2, <2>3, AnswerOf
    <2>5. i \in Reduced /\ i \in Reducer
      BY <2>4 DEF Reduced, Carried, ReduceTrue, ReduceCalls, Round
    <2>6. PICK home \in [Reducer -> Reducer] : Stored(output, nearest, Reduced, home)
      BY DEF ReduceTrue, ReduceFiles
    <2>7. PICK w \in Reducer : w = home[i]
      BY <2>5
    <2>8. \A v \in Reducer :
              DOMAIN output[v] = UNION {MeansOf(nearest, j) : j \in {k \in Reduced : home[k] = v}}
      <3> SUFFICES ASSUME NEW v \in Reducer, NEW R,
                          R = UNION {MeansOf(nearest, j) : j \in {k \in Reduced : home[k] = v}}
                   PROVE  DOMAIN output[v] = R
        OBVIOUS
      <3>1. output[v] = SetToBag(R)
        BY <2>6 DEF Stored
      <3> QED BY <3>1 DEF SetToBag
    <2>9. mean \in DOMAIN output[w]
      <3>1. mean \in MeansOf(nearest, i)
        BY <2>1, <2>2, <2>4 DEF MeansOf
      <3> QED BY <2>5, <2>7, <2>8, <3>1
    <2>10. ASSUME NEW v \in Reducer, NEW x \in DOMAIN output[v], x.centroid = c
           PROVE  v = w /\ x = mean
      <3>1. PICK j \in Reduced : home[j] = v /\ x \in MeansOf(nearest, j)
        BY <2>8
      <3>2. /\ x = [task |-> j, centroid |-> x.centroid, points |-> ExactOf(nearest, x.centroid)]
            /\ j = Partition(x.centroid)
        BY <3>1, MeanIs
      <3> QED BY <2>1, <2>2, <2>7, <2>10, <3>1, <3>2
    <2>11. PICK All : All = UNION {{v} \X DOMAIN output[v] : v \in Reducer}
      OBVIOUS
    <2>12. <<w, mean>> \in All /\ <<w, mean>>[2].centroid = c
      BY <2>1, <2>9, <2>11
    <2>13. ASSUME NEW x \in All, x[2].centroid = c PROVE x = <<w, mean>>
      <3>1. PICK v \in Reducer : x \in {v} \X DOMAIN output[v]
        BY <2>11
      <3>2. PICK y \in DOMAIN output[v] : x = <<v, y>>
        BY <3>1
      <3>3. y.centroid = c
        BY <2>13, <3>2
      <3> QED BY <2>10, <3>2, <3>3
    <2>14. {x \in All : x[2].centroid = c} = {<<w, mean>>}
      BY <2>12, <2>13
    <2>15. mean = [task |-> Partition(c), centroid |-> c, points |-> Exact(c)]
      BY <2>1 DEF ExactOf, Exact
    <2> QED BY <2>11, <2>14, <2>15
  <1> QED BY <1>1, TypesInit, TypesNext, MapInit, MapNext, ReduceInit, ReduceNext, PTL DEF Spec
=============================================================================
