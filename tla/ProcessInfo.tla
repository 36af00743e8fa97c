---------------------------- MODULE ProcessInfo ----------------------------
(***************************************************************************)
(* What base/process_info.cpp takes from /proc/self while other threads    *)
(* start and end, files are opened and closed, and others ask the same:    *)
(* directories are read entry by entry, with the results gathered through  *)
(* thread-local variables; stat is a text to be searched.                  *)
(***************************************************************************)
EXTENDS Integers, Sequences, FiniteSets, Functions

CONSTANTS
  Callers,     \* threads that call, their thread numbers
  Workers,     \* numbers of threads that start and end
  Files,       \* descriptors that are opened and closed
  ProcNames    \* names of the process, as sequences of words

ASSUME InfoAssumption ==
  /\ Callers \cup Workers \subseteq Nat \ {0} /\ Files \subseteq Nat
  /\ ProcNames \subseteq Seq(STRING)

VARIABLES
  tasks,       \* the threads of the process
  descriptors, \* the open descriptors; -c is that of the directory c reads
  scan,        \* per caller: what it reads, the entries it has seen, and (history)
               \*   those there all the time and those there at some time
  t_pids,      \* per thread: the caller whose vector it points to; 0 is NULL
  t_numOpenedFiles,
  result,      \* per caller: its vector
  comm         \* the name of the process

infoVars == <<tasks, descriptors, scan, t_pids, t_numOpenedFiles, result, comm>>

NoScan == [dir |-> "none", seen |-> {}, all |-> {}, some |-> {}]

InfoInit ==
  /\ tasks = Callers /\ descriptors = {}
  /\ scan = [c \in Callers |-> NoScan]
  /\ t_pids = [c \in Callers |-> 0]
  /\ t_numOpenedFiles = [c \in Callers |-> 0]
  /\ result = [c \in Callers |-> <<>>]
  /\ comm = <<>>

-----------------------------------------------------------------------------
(* The process meanwhile. *)

\* The callers that read now notice what comes and goes.
Noticed ==
  scan' = [c \in Callers |->
             LET now == IF scan[c].dir = "task" THEN tasks' ELSE descriptors'
             IN  IF scan[c].dir = "none" THEN scan[c]
                 ELSE [scan[c] EXCEPT !.all = @ \cap now, !.some = @ \cup now]]

Others ==
  /\ \/ \E t \in Workers : tasks' \in {tasks \cup {t}, tasks \ {t}} /\ UNCHANGED descriptors
     \/ \E n \in Files :
          descriptors' \in {descriptors \cup {n}, descriptors \ {n}} /\ UNCHANGED tasks
  /\ Noticed
  /\ UNCHANGED <<t_pids, t_numOpenedFiles, result, comm>>

\* prctl(PR_SET_NAME).  (Bound: once, and the last thing that happens.)
Rename(name) ==
  /\ comm = <<>> /\ \A c \in Callers : scan[c].dir = "none"
  /\ comm' = name
  /\ UNCHANGED <<tasks, descriptors, scan, t_pids, t_numOpenedFiles, result>>

-----------------------------------------------------------------------------
(* threads() and openedFiles(). *)

Idle(c) == scan[c].dir = "none" /\ comm = <<>>

\* scandir opens the directory, itself a descriptor.
scanDir(c, dir) ==
  /\ descriptors' = descriptors \cup {-c}
  /\ scan' = [d \in Callers |->
       LET there == IF dir = "task" THEN tasks ELSE descriptors'
       IN  IF d = c THEN [dir |-> dir, seen |-> {}, all |-> there, some |-> there]
           ELSE IF scan[d].dir = "fd" THEN [scan[d] EXCEPT !.some = @ \cup {-c}] ELSE scan[d]]

\* Mutant: one variable for all threads.
MutBeginThreads(c) ==
  /\ Idle(c)
  /\ t_pids' = [d \in Callers |-> c]
  /\ result' = [result EXCEPT ![c] = <<>>]
  /\ scanDir(c, "task")
  /\ UNCHANGED <<tasks, t_numOpenedFiles, comm>>

beginThreads(c) ==
  /\ Idle(c)
  /\ t_pids' = [t_pids EXCEPT ![c] = c]
  /\ result' = [result EXCEPT ![c] = <<>>]
  /\ scanDir(c, "task")
  /\ UNCHANGED <<tasks, t_numOpenedFiles, comm>>

beginOpenedFiles(c) ==
  /\ Idle(c)
  /\ t_numOpenedFiles' = [t_numOpenedFiles EXCEPT ![c] = 0]
  /\ scanDir(c, "fd")
  /\ UNCHANGED <<tasks, t_pids, result, comm>>

\* scandir cannot open the directory (EMFILE, ENOMEM): its result is ignored,
\* and the answer is the empty vector, or 0.
threadsFails(c) ==
  /\ Idle(c)
  /\ t_pids' = [t_pids EXCEPT ![c] = 0]
  /\ result' = [result EXCEPT ![c] = <<>>]
  /\ UNCHANGED <<tasks, descriptors, scan, t_numOpenedFiles, comm>>

openedFilesFails(c) ==
  /\ Idle(c)
  /\ t_numOpenedFiles' = [t_numOpenedFiles EXCEPT ![c] = 0]
  /\ UNCHANGED <<tasks, descriptors, scan, t_pids, result, comm>>

\* The next entry, in whatever order; those that are not numbers are passed over.
taskDirFilter(c) ==
  /\ scan[c].dir = "task" /\ t_pids[c] # 0
  /\ \E t \in tasks \ scan[c].seen :
       /\ scan' = [scan EXCEPT ![c].seen = @ \cup {t}]
       /\ result' = [result EXCEPT ![t_pids[c]] = Append(@, t)]
  /\ UNCHANGED <<tasks, descriptors, t_pids, t_numOpenedFiles, comm>>

fdDirFilter(c) ==
  /\ scan[c].dir = "fd"
  /\ \E n \in descriptors \ scan[c].seen :
       scan' = [scan EXCEPT ![c].seen = @ \cup {n}]
  /\ t_numOpenedFiles' = [t_numOpenedFiles EXCEPT ![c] = @ + 1]
  /\ UNCHANGED <<tasks, descriptors, t_pids, result, comm>>

\* scandir closes the directory: it has met every entry that was there all the
\* time, or else readdir failed in between and it returns -1, which is ignored.
EndScan(c, complete) ==
  /\ complete => scan[c].all \subseteq scan[c].seen
  /\ descriptors' = descriptors \ {-c}
  /\ scan' = [d \in Callers |->
       IF d = c THEN NoScan
       ELSE IF scan[d].dir = "fd" THEN [scan[d] EXCEPT !.all = @ \ {-c}] ELSE scan[d]]

\* The answer of threads(): std::sort puts the elements in ascending order.
Sorted(c) ==
  LET r == result[c]
      p == CHOOSE p \in Bijection(DOMAIN r, DOMAIN r) :
             \A i, j \in DOMAIN r : i < j => r[p[i]] <= r[p[j]]
  IN  [i \in DOMAIN r |-> r[p[i]]]

endThreads(c, complete) ==
  /\ scan[c].dir = "task" /\ EndScan(c, complete)
  /\ t_pids' = [t_pids EXCEPT ![c] = 0]
  /\ result' = [result EXCEPT ![c] = <<>>]
  /\ UNCHANGED <<tasks, t_numOpenedFiles, comm>>

endOpenedFiles(c, complete) ==
  /\ scan[c].dir = "fd" /\ EndScan(c, complete)
  /\ UNCHANGED <<tasks, t_pids, t_numOpenedFiles, result, comm>>

-----------------------------------------------------------------------------
(* procname(). *)

npos == 0
find(text, w) ==
  LET at == {i \in DOMAIN text : text[i] = w}
  IN  IF at = {} THEN npos ELSE CHOOSE i \in at : \A j \in at : i <= j
rfind(text, w) ==
  LET at == {i \in DOMAIN text : text[i] = w}
  IN  IF at = {} THEN npos ELSE CHOOSE i \in at : \A j \in at : i >= j

\* What readFile may return of /proc/self/stat: all of it, or, when it fails,
\* which is ignored, nothing.
procStat == {<<>>, <<"4711", " ", "(">> \o comm \o <<")", " ", "S", " ", "1">>}

procname(stat) ==
  LET lp == find(stat, "(")  rp == rfind(stat, ")")
  IN  IF lp # npos /\ rp # npos /\ lp < rp THEN SubSeq(stat, lp + 1, rp - 1) ELSE <<>>

-----------------------------------------------------------------------------
InfoNext ==
  \/ Others \/ \E name \in ProcNames : Rename(name)
  \/ \E c \in Callers :
       \/ beginThreads(c) \/ taskDirFilter(c) \/ threadsFails(c)
       \/ beginOpenedFiles(c) \/ fdDirFilter(c) \/ openedFilesFails(c)
       \/ \E complete \in BOOLEAN : endThreads(c, complete) \/ endOpenedFiles(c, complete)

InfoSpec == InfoInit /\ [][InfoNext]_infoVars

-----------------------------------------------------------------------------
(* Properties. *)

\* threads() returns, in ascending order and each once, threads that were
\* there at some time, whatever other callers do.  It leaves out none that was
\* there all the time unless scandir failed, of which nobody is told.
ThreadsListed ==
  \A c \in Callers, complete \in BOOLEAN : endThreads(c, complete) =>
    /\ complete => scan[c].all \subseteq Range(Sorted(c))
    /\ Range(Sorted(c)) \subseteq scan[c].some
    /\ \A i, j \in DOMAIN Sorted(c) : i < j => Sorted(c)[i] < Sorted(c)[j]

\* openedFiles() counts what is open, its own descriptor included, and starts
\* at nothing: never more than there was, and less only if scandir failed.
FilesCounted ==
  \A c \in Callers, complete \in BOOLEAN : endOpenedFiles(c, complete) =>
    /\ complete => t_numOpenedFiles[c] >= Cardinality(scan[c].all)
    /\ t_numOpenedFiles[c] <= Cardinality(scan[c].some)

\* procname() is the name of the process, parentheses in it included, or
\* nothing if stat could not be read.
NameIsWhole == \A stat \in procStat : procname(stat) = IF stat = <<>> THEN <<>> ELSE comm

\* What the process learns of itself is so, whoever else asks and whatever
\* changes meanwhile, and wherever the reading of /proc fails no more than so.
InfoIsTrue == [][ThreadsListed /\ FilesCounted /\ NameIsWhole']_infoVars
=============================================================================
