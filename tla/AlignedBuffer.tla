---------------------------- MODULE AlignedBuffer ----------------------------
(***************************************************************************)
(* The lifetimes of elements and their memory: patton::aligned_buffer and  *)
(* patton::aligned_row_buffer (include/patton/buffer.hpp), and the arrays  *)
(* and objects of allocate_unique (include/patton/memory.hpp), which live  *)
(* in a std::unique_ptr.  All of them are buffers here: one of elements is *)
(* one of rows of one element each, an object is an array of one.          *)
(*                                                                         *)
(* One action is one constructor or destructor call of an element, with the*)
(* bookkeeping around it.  A constructor of a buffer that throws before it *)
(* has memory (an overflow, std::bad_alloc) leaves no trace.               *)
(***************************************************************************)
EXTENDS Arithmetic

CONSTANTS
    Elements, Rows,     \* the aligned_buffer and the aligned_row_buffer variables
    Arrays,             \* the std::unique_ptr variables
    Throwing,           \* those whose elements' constructors may throw
    Block, Null,        \* pieces of memory, all of them aligned; the null pointer
    SizeOf, Alignment,  \* sizeof(T) and the alignment in bytes
    MaxRows, MaxCols,   \* bounds: the sizes of buffers
    Garbage             \* bound: what an uninitialized variable may hold

Buffer == Elements \cup Rows \cup Arrays

ASSUME BufferAssumption ==
    /\ Elements \cap Rows = {} /\ Arrays \cap (Elements \cup Rows) = {}
    /\ Throwing \subseteq Buffer
    /\ Null \notin Buffer \cup Block
    /\ SizeOf \in Nat \ {0} /\ Alignment \in Nat \ {0}
    /\ MaxRows \in Nat /\ MaxCols \in Nat /\ Garbage \subseteq Nat

VARIABLES
    exists,     \* the buffers that are objects
    buf,        \* their data members; those of a buffer under construction, too
    heap,       \* how many bytes were allocated for every block, if any
    live,       \* the offsets in a block at which an element is alive
    call        \* the constructor or destructor of a buffer in progress

vars == <<exists, buf, heap, live, call>>

Free == -1
Empty == [data |-> Null, rows |-> 0, cols |-> 0, stride |-> 0]

\* from: the buffer to be moved from once the old contents are destroyed.
\* count: numElementsConstructed.  next: the element the loop has come to.
Idle == [op |-> "idle", of |-> Null, from |-> Null, count |-> 0, next |-> 0]

Init ==
    /\ exists = {} /\ buf = [b \in Buffer |-> Empty]
    /\ heap = [k \in Block |-> Free] /\ live = [k \in Block |-> {}]
    /\ call = Idle

----------------------------------------------------------------------------

\* Mistake: rows are not padded.
StrideUnpadded(cols) == SizeOf * cols

\* computeBytesPerElement and computeBytesPerRow.
Stride(cols) == Ceil(SizeOf * cols, Alignment)

Size(b)     == buf[b].rows * buf[b].cols
NumBytes(b) == buf[b].rows * buf[b].stride

\* Where element k of buffer b is, counting along the rows.
Offset(b, k) == (k \div buf[b].cols) * buf[b].stride + (k % buf[b].cols) * SizeOf

\* bytesPerElement_ and bytesPerRow_; the elements of an array are not padded.
StrideOf(b, cols) == IF b \in Arrays THEN SizeOf ELSE Stride(cols)

\* The default constructor: no size, no stride, no memory.
DefaultConstruct(b) ==
    /\ call = Idle /\ b \in (Elements \cup Rows) \ exists
    /\ exists' = exists \cup {b}
    /\ buf' = [buf EXCEPT ![b] = Empty]
    /\ UNCHANGED <<heap, live, call>>

\* The internal constructor asked for no elements allocates nothing.
ConstructEmpty(b, r, c) ==
    /\ call = Idle /\ b \in (Elements \cup Rows) \ exists
    /\ r = 0 \/ c = 0
    /\ exists' = exists \cup {b}
    /\ buf' = [buf EXCEPT ![b] = [data |-> Null, rows |-> r, cols |-> c,
                                  stride |-> Stride(c)]]
    /\ UNCHANGED <<heap, live, call>>

\* Memory is allocated and the loop over the elements begins; n is the count by then.
Allocate(b, r, c, k, n) ==
    /\ call = Idle /\ b \notin exists /\ heap[k] = Free
    /\ buf' = [buf EXCEPT ![b] = [data |-> k, rows |-> r, cols |-> c,
                                  stride |-> StrideOf(b, c)]]
    /\ heap' = [heap EXCEPT ![k] = r * StrideOf(b, c)]
    /\ call' = [Idle EXCEPT !.op = "construct", !.of = b, !.count = n]
    /\ UNCHANGED <<exists, live>>

\* The same with elements, up to construct_aligned_buffer or
\* construct_aligned_row_buffer, of which only the latter sets the count to 0.
Construct(b, r, c, k, n) ==
    /\ b \in Elements \cup Rows /\ r > 0 /\ c > 0
    /\ n = 0 \/ (b \in Elements \cap Throwing /\ n \in Garbage)
    /\ Allocate(b, r, c, k, n)

\* allocate and allocate_array_impl, the latter for no elements, too.
ConstructArray(b, r, k) == b \in Arrays /\ Allocate(b, r, 1, k, 0)

\* Mistake: the element is counted before it exists.
ElementThrowsCounted(b) ==
    /\ call.op = "construct" /\ call.of = b /\ b \in Throwing
    /\ call.next < Size(b)
    /\ call' = [call EXCEPT !.op = "rollback", !.next = 0, !.count = @ + 1]
    /\ UNCHANGED <<exists, buf, heap, live>>

\* The constructor of an element throws, and the transaction rolls back.
ElementThrows(b) ==
    /\ call.op = "construct" /\ call.of = b /\ b \in Throwing
    /\ call.next < Size(b)
    /\ call' = [call EXCEPT !.op = "rollback", !.next = 0]
    /\ UNCHANGED <<exists, buf, heap, live>>

\* One round of the loop of construct_aligned_buffer or construct_aligned_row_buffer.
ConstructElement(b) ==
    /\ call.op = "construct" /\ call.of = b
    /\ call.next < Size(b)
    /\ live' = [live EXCEPT ![buf[b].data] = @ \cup {Offset(b, call.next)}]
    /\ call' = [call EXCEPT !.next = @ + 1, !.count = @ + 1]
    /\ UNCHANGED <<exists, buf, heap>>

\* All elements exist: the transaction is committed and the constructor returns.
Commit(b) ==
    /\ call.op = "construct" /\ call.of = b
    /\ call.next = Size(b)
    /\ exists' = exists \cup {b}
    /\ call' = Idle
    /\ UNCHANGED <<buf, heap, live>>

----------------------------------------------------------------------------

\* How many elements the loop in progress destroys: all of them, or in a rollback as
\* many as the count says.  Only destroy_aligned_row_buffer stops at the last one.
ToDestroy(b) ==
    IF call.op = "destroy" \/ (b \in Rows /\ call.count > Size(b))
    THEN Size(b)
    ELSE call.count

\* The element it has come to.  Only allocate_array_impl rolls back from the last element
\* to the first.
Doomed(b) == IF b \in Arrays /\ call.op = "rollback"
             THEN call.count - 1 - call.next
             ELSE call.next

\* One round of the loop of destroy_aligned_buffer or destroy_aligned_row_buffer, of the
\* rollback of allocate_array_impl or of allocator_deleter.
DestroyElement(b) ==
    /\ call.op \in {"rollback", "destroy"} /\ call.of = b
    /\ call.next < ToDestroy(b)
    /\ live' = [live EXCEPT ![buf[b].data] = @ \ {Offset(b, Doomed(b))}]
    /\ call' = [call EXCEPT !.next = @ + 1]
    /\ UNCHANGED <<exists, buf, heap>>

\* b takes over what `from` has.
Steal(b, from, rest) == [buf EXCEPT ![b] = buf[from], ![from] = rest]

\* What an assignment leaves behind of a buffer that is moved from.
Assigned(from) == IF from \in Arrays THEN [buf[from] EXCEPT !.data = Null] ELSE Empty

\* Deallocation, after which the constructor rethrows, the destructor returns or the
\* assignment goes on.
Deallocate(b) ==
    /\ call.op \in {"rollback", "destroy"} /\ call.of = b
    /\ call.next = ToDestroy(b)
    /\ heap' = [heap EXCEPT ![buf[b].data] = Free]
    /\ call' = Idle
    /\ IF call.from = Null
       THEN buf' = [buf EXCEPT ![b] = Empty] /\ exists' = exists \ {b}
       ELSE buf' = Steal(b, call.from, Assigned(call.from)) /\ exists' = exists
    /\ UNCHANGED live

\* The destructor.
Destroy(b) ==
    /\ call = Idle /\ b \in exists
    /\ IF buf[b].data = Null
       THEN /\ exists' = exists \ {b}
            /\ buf' = [buf EXCEPT ![b] = Empty]
            /\ UNCHANGED call
       ELSE /\ call' = [Idle EXCEPT !.op = "destroy", !.of = b]
            /\ UNCHANGED <<exists, buf>>
    /\ UNCHANGED <<heap, live>>

SameType(b, from) ==
    \E type \in {Elements, Rows, Arrays} : {b, from} \subseteq type

\* Mistake: the buffer that is moved from keeps its pointer.
MoveConstructKeeping(b, from) ==
    /\ call = Idle /\ b \notin exists /\ from \in exists /\ SameType(b, from)
    /\ exists' = exists \cup {b}
    /\ buf' = Steal(b, from, buf[from])
    /\ UNCHANGED <<heap, live, call>>

\* What a move leaves behind.  The move constructor of aligned_buffer leaves
\* bytesPerElement_ where it was, that of std::unique_ptr the size in allocator_deleter.
LeftBehind(from) ==
    CASE from \in Elements -> [Empty EXCEPT !.stride = buf[from].stride]
      [] from \in Rows -> Empty
      [] from \in Arrays -> [buf[from] EXCEPT !.data = Null]

MoveConstruct(b, from) ==
    /\ call = Idle /\ b \notin exists /\ from \in exists /\ SameType(b, from)
    /\ exists' = exists \cup {b}
    /\ buf' = Steal(b, from, LeftBehind(from))
    /\ UNCHANGED <<heap, live, call>>

\* Mistake: the old contents are forgotten.
MoveAssignOver(b, from) ==
    /\ call = Idle /\ {b, from} \subseteq exists /\ b # from /\ SameType(b, from)
    /\ buf' = Steal(b, from, Empty)
    /\ UNCHANGED <<exists, heap, live, call>>

\* Assigning a buffer to itself does nothing.
MoveAssign(b, from) ==
    /\ call = Idle /\ {b, from} \subseteq exists /\ b # from /\ SameType(b, from)
    /\ IF buf[b].data = Null
       THEN buf' = Steal(b, from, Assigned(from)) /\ UNCHANGED call
       ELSE /\ call' = [Idle EXCEPT !.op = "destroy", !.of = b, !.from = from]
            /\ UNCHANGED buf
    /\ UNCHANGED <<exists, heap, live>>

----------------------------------------------------------------------------

Next ==
    \E b \in Buffer :
        \/ \E r \in 0 .. MaxRows, c \in (IF b \in Rows THEN 0 .. MaxCols ELSE {1}) :
              \/ ConstructEmpty(b, r, c)
              \/ \E k \in Block, n \in Garbage \cup {0} : Construct(b, r, c, k, n)
        \/ \E r \in 0 .. MaxRows, k \in Block : ConstructArray(b, r, k)
        \/ DefaultConstruct(b)
        \/ ElementThrows(b) \/ ConstructElement(b) \/ Commit(b)
        \/ DestroyElement(b) \/ Deallocate(b) \/ Destroy(b)
        \/ \E from \in Buffer : MoveConstruct(b, from) \/ MoveAssign(b, from)

Spec == Init /\ [][Next]_vars

----------------------------------------------------------------------------

\* Whenever an element is about to be destroyed, by the destructor, an assignment or a
\* rollback, there is one, and it has not been destroyed before.
DestroysOnlyTheLiving ==
    call.op \in {"rollback", "destroy"} /\ call.next < ToDestroy(call.of) =>
        Offset(call.of, Doomed(call.of)) \in live[buf[call.of].data]

\* A buffer, array or object that exists has all its elements, each within its memory and
\* apart from the others, every row aligned; or it has no elements and no memory, as
\* after it was moved from.
BuffersAreWhole ==
    \A b \in exists :
        IF buf[b].data = Null
        THEN b \notin Arrays => Size(b) = 0
        ELSE call.of # b =>
             LET here == live[buf[b].data]
             IN  /\ here = { Offset(b, k) : k \in 0 .. Size(b)-1 }
                 /\ b \notin Arrays => \A r \in 0 .. buf[b].rows-1 :
                        Offset(b, r * buf[b].cols) % Alignment = 0
                 /\ \A o \in here : o + SizeOf <= heap[buf[b].data]
                 /\ \A o, p \in here : o < p => o + SizeOf <= p

\* Memory is owned by one buffer until it is returned, with the size it was allocated
\* with, and no element is left in it by then; no exception leaks any.
MemoryIsReturned ==
    LET owners == exists \cup ({call.of} \ {Null})
    IN  /\ \A k \in Block : live[k] \subseteq 0 .. heap[k]-1
        /\ \A k \in Block : heap[k] = Free => live[k] = {}
        /\ \A k \in Block : heap[k] # Free => \E b \in owners : buf[b].data = k
        /\ \A b1, b2 \in owners : b1 # b2 /\ buf[b1].data # Null
                                    => buf[b1].data # buf[b2].data
        /\ \A b \in owners : buf[b].data # Null => heap[buf[b].data] = NumBytes(b)

==============================================================================
