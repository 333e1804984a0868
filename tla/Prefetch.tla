------------------------------ MODULE Prefetch ------------------------------
(***************************************************************************)
(* The prefetch engine (prefetch.rs): it logs accesses, counts what came   *)
(* after the two latest whenever those two came before, and predicts what  *)
(* it counted more than once.  The log forgets its oldest entry when it is *)
(* full; the patterns stay.                                                *)
(***************************************************************************)
EXTENDS Integers, Sequences, FiniteSets

CONSTANTS
  Accessed,     \* particles
  MaxLog,       \* entries the log keeps
  MaxAccesses   \* bound

ASSUME PrefetchAssumption == MaxLog \in Nat /\ MaxAccesses \in Nat

VARIABLES
  access_log,
  patterns,        \* frequency of <<a, b, c>>: c after a and b
  prefetch_queue,
  hits, misses,
  trace            \* history: every access

prefetchVars == <<access_log, patterns, prefetch_queue, hits, misses, trace>>

Triples == Accessed \X Accessed \X Accessed

PrefetchInit ==
  /\ access_log = <<>>
  /\ patterns = [t \in Triples |-> 0]
  /\ prefetch_queue = {}
  /\ hits = 0 /\ misses = 0
  /\ trace = <<>>

\* The triples of a log, at the positions where they begin.
TripleAt(log, i) == <<log[i], log[i + 1], log[i + 2]>>
Latest(log) == <<log[Len(log) - 1], log[Len(log)]>>
Then(pair, c) == <<pair[1], pair[2], c>>

\* Mutant: what came between the pair and its repetition counts too.
DetectedLoosely(log, t) ==
  IF Len(log) < 3 \/ <<t[1], t[2]>> # Latest(log) THEN patterns[t]
  ELSE patterns[t] + Cardinality({i \in 1 .. Len(log) - 2 :
         log[i] = t[1] /\ log[i + 1] = t[2] /\ \E j \in i + 2 .. Len(log) : log[j] = t[3]})

\* detect_patterns: the occurrences in the log are counted again each time
\* the pair comes up, the one that ends with the latest access included.
Detected(log, t) ==
  IF Len(log) < 3 \/ <<t[1], t[2]>> # Latest(log) THEN patterns[t]
  ELSE patterns[t] + Cardinality({i \in 1 .. Len(log) - 2 : TripleAt(log, i) = t})

Logged(id) ==
  IF Len(access_log) < MaxLog THEN Append(access_log, id) ELSE Tail(Append(access_log, id))

RecordAccess(id) ==
  LET log == Logged(id)
  IN  /\ Len(trace) < MaxAccesses
      /\ access_log' = log
      /\ IF id \in prefetch_queue THEN hits' = hits + 1 /\ UNCHANGED misses
                                  ELSE misses' = misses + 1 /\ UNCHANGED hits
      /\ prefetch_queue' = prefetch_queue \ {id}
      /\ patterns' = [t \in Triples |-> Detected(log, t)]
      /\ trace' = Append(trace, id)

PredictNext ==
  IF Len(access_log) < 2 THEN {}
  ELSE {c \in Accessed : patterns[Then(Latest(access_log), c)] > 1}

\* queue_prefetch of what is predicted.
QueuePrefetch ==
  /\ PredictNext \ prefetch_queue # {}
  /\ prefetch_queue' = prefetch_queue \cup PredictNext
  /\ UNCHANGED <<access_log, patterns, hits, misses, trace>>

PrefetchNext ==
  \/ \E id \in Accessed : RecordAccess(id)
  \/ QueuePrefetch

PrefetchSpec == PrefetchInit /\ [][PrefetchNext]_prefetchVars

-----------------------------------------------------------------------------

Occurrences(pair) == {i \in 1 .. Len(trace) - 1 : <<trace[i], trace[i + 1]>> = pair}

\* Counting old occurrences again, with a log that has forgotten others,
\* makes a frequency no number of anything (prefetch.rs:97).  Still, what is
\* predicted rests on repetition: it followed the latest two accesses before,
\* and they have come up at least three times.
PredictionsRepeat ==
  \A c \in PredictNext :
    LET pair == Latest(trace)
    IN  /\ \E i \in 1 .. Len(trace) - 2 : TripleAt(trace, i) = Then(pair, c)
        /\ \E i, j, k \in Occurrences(pair) : i < j /\ j < k
=============================================================================
