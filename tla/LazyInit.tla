------------------------------ MODULE LazyInit ------------------------------
(***************************************************************************)
(* hardware_cache_line_size(), hardware_page_size() and                    *)
(* hardware_large_page_size() (src/src/new.cpp, the Linux branch): three   *)
(* constants, each computed by whoever asks first (detail/lazy-init.hpp).  *)
(* Computing one calls another, to check that it divides the result, so    *)
(* that a thread may be in up to three initializations at once, while other*)
(* threads are in the same ones.                                           *)
(***************************************************************************)
EXTENDS Integers, Sequences

CONSTANTS
    Caller,         \* the threads
    Machines,       \* what the system may report for the three sizes
    Unset, Unknown  \* the default value size_t(-1); that a size cannot be determined

Size == {"cache_line", "page", "large_page"}

\* 0 stands for no support of large pages.
ASSUME LazyInitAssumption ==
    /\ Machines \subseteq [cache_line : (Nat \ {0}) \cup {Unknown},
                           page : Nat \ {0},
                           large_page : Nat \cup {Unknown}]
    /\ Unset \notin Nat /\ Unknown \notin Nat /\ Unset # Unknown

VARIABLES
    machine,    \* what the system reports
    value,      \* the atomic variables
    stack,      \* the calls a thread is in, the innermost one first
    told,       \* the last size a thread was told, and which one that was
    ended       \* whether the program was terminated

lazyVars == <<machine, value, stack, told, ended>>

Nothing == [size |-> "none", is |-> Unset]

LazyInit ==
    /\ machine \in Machines
    /\ value = [s \in Size |-> Unset]
    /\ stack = [t \in Caller |-> << >>]
    /\ told = [t \in Caller |-> Nothing]
    /\ ended = FALSE

Frame(s) == [size |-> s, at |-> "load", result |-> Unset]

At(t, label) == ~ended /\ stack[t] # << >> /\ Head(stack[t]).at = label

\* The size every result must be a multiple of.
Divisor(s) == IF s = "page" THEN "cache_line" ELSE "page"

\* The innermost call of thread t returns v: to its user, or to the initializer that
\* called it and that fails fast if v does not divide its result.
Return(t, v) ==
    LET callers == Tail(stack[t])
    IN  IF callers = << >>
        THEN /\ told' = [told EXCEPT ![t] = [size |-> Head(stack[t]).size, is |-> v]]
             /\ stack' = [stack EXCEPT ![t] = << >>]
             /\ UNCHANGED ended
        ELSE /\ ended' = (Head(callers).result % v # 0)
             /\ stack' = [stack EXCEPT ![t] =
                              << [Head(callers) EXCEPT !.at = "store"] >> \o Tail(callers)]
             /\ UNCHANGED told

----------------------------------------------------------------------------

CallSize(t, s) ==
    /\ ~ended /\ stack[t] = << >>
    /\ stack' = [stack EXCEPT ![t] = << Frame(s) >>]
    /\ UNCHANGED <<machine, value, told, ended>>

\* lazy_init returns a value that is there, and calls initFunc otherwise.
Load(t) ==
    /\ At(t, "load")
    /\ LET v == value[Head(stack[t]).size]
       IN  IF v # Unset
           THEN Return(t, v)
           ELSE /\ stack' = [stack EXCEPT ![t][1].at = "query"]
                /\ UNCHANGED <<told, ended>>
    /\ UNCHANGED <<machine, value>>

\* Mistake: what the system reports is made known before it is checked.
QueryPublishing(t) ==
    /\ At(t, "query")
    /\ LET s == Head(stack[t]).size
           r == machine[s]
       IN  /\ ended' = (r = Unknown)
           /\ value' = IF r = Unknown THEN value ELSE [value EXCEPT ![s] = r]
           /\ stack' = [stack EXCEPT ![t] =
                  IF s = "cache_line"
                  THEN << [@[1] EXCEPT !.at = "store", !.result = r] >> \o Tail(@)
                  ELSE << Frame(Divisor(s)), [@[1] EXCEPT !.at = "check", !.result = r] >>
                         \o Tail(@)]
    /\ UNCHANGED <<machine, told>>

\* initFunc asks the system; an exception leaves a noexcept function.  The result for
\* pages is checked, which calls for the next smaller size.
Query(t) ==
    /\ At(t, "query")
    /\ LET s == Head(stack[t]).size
           r == machine[s]
       IN  /\ ended' = (r = Unknown)
           /\ stack' = [stack EXCEPT ![t] =
                  IF s = "cache_line"
                  THEN << [@[1] EXCEPT !.at = "store", !.result = r] >> \o Tail(@)
                  ELSE << Frame(Divisor(s)), [@[1] EXCEPT !.at = "check", !.result = r] >>
                         \o Tail(@)]
    /\ UNCHANGED <<machine, value, told>>

\* lazy_init stores the result of initFunc and returns it.
StoreResult(t) ==
    /\ At(t, "store")
    /\ LET frame == Head(stack[t])
       IN  /\ value' = [value EXCEPT ![frame.size] = frame.result]
           /\ Return(t, frame.result)
    /\ UNCHANGED machine

----------------------------------------------------------------------------

LazyNext ==
    \E t \in Caller :
        \/ \E s \in Size : CallSize(t, s)
        \/ Load(t) \/ Query(t) \/ StoreResult(t)

----------------------------------------------------------------------------

\* "In this library we assume that the large page size is a multiple of page size, and
\* thus a multiple of cache line size as well" (new.cpp:79): whoever is told a size can
\* rely on that, also when another thread is still checking, and everybody is told the
\* same.
SizesFit ==
    \A t \in Caller :
        LET s == told[t].size
        IN  told[t] # Nothing =>
                /\ told[t].is = machine[s]
                /\ s \in {"page", "large_page"} =>
                       machine.cache_line # Unknown /\ machine.page % machine.cache_line = 0
                /\ s = "large_page" => machine.large_page % machine.page = 0

==============================================================================
