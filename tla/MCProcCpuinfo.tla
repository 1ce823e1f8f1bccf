---------------------------- MODULE MCProcCpuinfo ----------------------------
(***************************************************************************)
(* Evaluates the counting of cores for small machines.  A state is one     *)
(* input of one function: here, one machine.                               *)
(***************************************************************************)
EXTENDS ProcCpuinfo

\* Up to three processors of two sockets of two cores, listed in any order and with gaps
\* in their numbers, on systems that name sockets and cores and on others.
CpuinfoInputs ==
    [of : {"cpuinfo"}, withCores : BOOLEAN,
     machine : { m \in UNION { [1 .. k -> [processor : 0 .. 4, socket : 0 .. 1, core : 0 .. 1]]
                              : k \in 1 .. 3 } :
                     \A j, k \in DOMAIN m : m[j].processor = m[k].processor => j = k }]

VARIABLE input

CpuinfoSpec == input \in CpuinfoInputs /\ [][UNCHANGED input]_input

\* OneThreadPerCore: init_cpu_info finds one thread for every physical core that is listed.
CoresAreCounted ==
    input.of = "cpuinfo" /\ input.withCores => OneThreadPerCore(input.machine)

\* SomeCoreIsFound: physical_concurrency() is not 0 (test/test-thread.cpp:19).
CoresAreFound ==
    input.of = "cpuinfo" => SomeCoreIsFound(input.machine, input.withCores)

==============================================================================
