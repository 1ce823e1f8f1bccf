----------------------------- MODULE ProcCpuinfo -----------------------------
(***************************************************************************)
(* How the physical cores are counted on Linux: the part of init_cpu_info  *)
(* that reads /proc/cpuinfo (src/src/cpuinfo.cpp).  The file is a sequence *)
(* of lines with a key and a number; its text, and the lines nobody looks  *)
(* for, are abstracted.                                                    *)
(***************************************************************************)
EXTENDS Integers, Sequences, SequencesExt

Line(key, id) == [key |-> key, id |-> id]
Keys == {"processor", "physical id", "core id"}

Missing == -1
NoneRead == [key \in Keys |-> Missing]

\* One line is read.  last: the values read for a processor so far (lastProcessor,
\* lastPhysicalId, lastCoreId); a second one before the first was used is an error.
Read(parser, line) ==
    LET last == [parser.last EXCEPT ![line.key] = line.id]
    IN  IF parser.failed THEN parser
        ELSE IF parser.last[line.key] # Missing THEN [parser EXCEPT !.failed = TRUE]
        ELSE IF Missing \in Range(last) THEN [parser EXCEPT !.last = last]
        ELSE [parser EXCEPT !.last = NoneRead, !.ids = Append(@, last)]

\* Mistake: processors are sorted by socket, core ids within that are not looked at.
BeforeUnsorted(x, y) == x["physical id"] < y["physical id"]

\* physical_core_id's operator < ...
Before(x, y) ==
    \/ x["core id"] < y["core id"]
    \/ /\ x["core id"] = y["core id"]
       /\ \/ x["physical id"] < y["physical id"]
          \/ x["physical id"] = y["physical id"] /\ x["processor"] < y["processor"]

\* ... and operator ==.
SameCore(x, y) == x["core id"] = y["core id"] /\ x["physical id"] = y["physical id"]

\* std::unique: an element goes if it equals the one kept last.
Unique(s) == FoldLeft(LAMBDA kept, x : IF kept # << >> /\ SameCore(Last(kept), x)
                                       THEN kept ELSE Append(kept, x), << >>, s)

\* The vector of core thread ids, or that an exception has left the noexcept function.
CoreThreadIds(file) ==
    LET parser == FoldLeft(Read, [failed |-> FALSE, last |-> NoneRead, ids |-> << >>], file)
        unique == Unique(SortSeq(parser.ids, Before))
    IN  [terminated |-> parser.failed,
         ids |-> SortSeq([k \in 1 .. Len(unique) |-> unique[k]["processor"]],
                         LAMBDA x, y : x < y)]

----------------------------------------------------------------------------

\* A machine is a sequence of processors, each with the socket and the core it is part
\* of; the system lists them one after the other, on some architectures without socket
\* and core.
File(machine, withCores) ==
    FlattenSeq([k \in 1 .. Len(machine) |->
        IF withCores
        THEN << Line("processor", machine[k].processor),
                Line("physical id", machine[k].socket), Line("core id", machine[k].core) >>
        ELSE << Line("processor", machine[k].processor) >>])

\* "Returns a list of thread ids, where each thread is situated on a distinct physical
\* core" (include/patton/thread.hpp:24), in order, and for every core: cores are told
\* apart by core id and socket, whatever the order and the numbers of the processors.
\* For machines whose system names sockets and cores.
OneThreadPerCore(machine) ==
    LET result == CoreThreadIds(File(machine, TRUE))
        cores  == { <<machine[k].socket, machine[k].core>> : k \in DOMAIN machine }
        CoreOf(id) == LET m == machine[CHOOSE k \in DOMAIN machine : machine[k].processor = id]
                      IN  <<m.socket, m.core>>
    IN  /\ ~result.terminated
        /\ Len(result.ids) = Cardinality(cores)
        /\ { CoreOf(result.ids[k]) : k \in DOMAIN result.ids } = cores
        /\ \A j, k \in DOMAIN result.ids : j < k => result.ids[j] < result.ids[k]

\* "CHECK(physicalConcurrency != 0)" and "CHECK(physicalConcurrency <=
\* std::thread::hardware_concurrency())" (test/test-thread.cpp:19-20): a system that runs
\* this program has a core, and no more cores than processors, which are found out
\* without ending the program, whatever the system says of sockets and cores.
SomeCoreIsFound(machine, withCores) ==
    LET result == CoreThreadIds(File(machine, withCores))
    IN  ~result.terminated /\ Len(result.ids) \in 1 .. Len(machine)

==============================================================================
