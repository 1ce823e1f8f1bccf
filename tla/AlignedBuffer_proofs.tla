------------------------- MODULE AlignedBuffer_proofs -------------------------
(***************************************************************************)
(* Proofs about aligned_buffer, aligned_row_buffer and the arrays and      *)
(* objects of allocate_unique, for any number, sizes and alignment of      *)
(* buffers.  Where the constructor of an aligned_buffer's element throws,  *)
(* the program destroys what it never constructed (MCAlignedBuffer_rollback*)
(* shows how); the theorems are about programs in which none does.         *)
(***************************************************************************)
EXTENDS AlignedBuffer, Basics_proofs

----------------------------------------------------------------------------
(* The inductive invariant.                                                *)

Members == [data : Block \cup {Null}, rows : Nat, cols : Nat, stride : Nat]

Calls == [op : {"idle", "construct", "rollback", "destroy"}, of : Buffer \cup {Null},
          from : Buffer \cup {Null}, count : Nat, next : Nat]

Types ==
    /\ exists \subseteq Buffer
    /\ buf \in [Buffer -> Members]
    /\ heap \in [Block -> Nat \cup {Free}]
    /\ live \in [Block -> SUBSET Nat]
    /\ call \in Calls

\* Size, NumBytes and Offset in terms of the data members x.
Count(x)      == x.rows * x.cols
Extent(x)     == x.rows * x.stride
At(x, k)      == (k \div x.cols) * x.stride + (k % x.cols) * SizeOf
Fill(x, m, n) == { At(x, k) : k \in m .. n-1 }

\* Rows do not overlap and are aligned; without memory there are no elements.
Shape(b, x) ==
    /\ x.data # Null =>
           /\ x.cols > 0 /\ SizeOf * x.cols <= x.stride
           /\ b \notin Arrays => x.stride % Alignment = 0
    /\ x.data = Null /\ b \notin Arrays => Count(x) = 0

\* Those that exist, and the one being constructed or destroyed.
Owners == exists \cup ({call.of} \ {Null})

\* Where elements are alive in the memory of b.
Alive(b) ==
    LET x == buf[b]
    IN  IF call.of # b THEN Fill(x, 0, Count(x))
        ELSE IF call.op = "construct" THEN Fill(x, 0, call.next)
        ELSE IF call.op = "destroy" THEN Fill(x, call.next, Count(x))
        ELSE IF b \in Arrays THEN Fill(x, 0, call.count - call.next)
        ELSE Fill(x, call.next, call.count)

InProgress ==
    /\ call.op = "idle" => call = Idle
    /\ call.op # "idle" => call.of \in Buffer /\ buf[call.of].data # Null
    /\ call.op \in {"construct", "rollback"} => call.of \notin exists /\ call.from = Null
    /\ call.op = "construct" => call.count = call.next /\ call.next <= Size(call.of)
    /\ call.op = "rollback" => call.next <= call.count /\ call.count <= Size(call.of)
    /\ call.op = "destroy" =>
           /\ call.of \in exists /\ call.next <= Size(call.of)
           /\ call.from # Null =>
                  call.from \in exists \ {call.of} /\ SameType(call.of, call.from)

Ownership ==
    /\ \A k \in Block : heap[k] = Free => live[k] = {}
    /\ \A k \in Block : heap[k] # Free => \E b \in Owners : buf[b].data = k
    /\ \A b1, b2 \in Owners : b1 # b2 /\ buf[b1].data # Null => buf[b1].data # buf[b2].data
    /\ \A b \in Owners :
        /\ Shape(b, buf[b])
        /\ buf[b].data # Null =>
               heap[buf[b].data] = Extent(buf[b]) /\ live[buf[b].data] = Alive(b)

BufferInv == Types /\ InProgress /\ Ownership

----------------------------------------------------------------------------
(* Where elements are.                                                     *)

\* Elements are within the memory, and one comes after the other.
LEMMA AtFacts ==
    ASSUME NEW b, NEW x \in Members, x.data # Null, Shape(b, x), NEW k \in 0 .. Count(x)-1
    PROVE  /\ At(x, k) \in Nat
           /\ At(x, k) + SizeOf <= Extent(x)
           /\ \A l \in 0 .. k-1 : At(x, l) + SizeOf <= At(x, k)
  <1> DEFINE c  == x.cols
             st == x.stride
             r  == x.rows
             s  == SizeOf
  <1>1. c \in Nat \ {0} /\ st \in Nat /\ r \in Nat /\ s \in Nat \ {0} /\ s * c <= st
    BY BufferAssumption DEF Shape, Members
  <1>2. \A j : At(x, j) = (j \div c) * st + (j % c) * s BY DEF At
  <1>3. Count(x) = r * c /\ Extent(x) = r * st BY DEF Count, Extent
  <1> HIDE DEF c, st, r, s
  <1>4. r * c \in Nat /\ r * st \in Nat /\ s * c \in Nat BY <1>1
  <1>5. ASSUME NEW j \in Nat
        PROVE  /\ j \div c \in Nat /\ j % c \in 0 .. c-1 /\ j = c * (j \div c) + (j % c)
               /\ (j \div c) * st \in Nat /\ (j % c) * s \in Nat
    <2>1. j \div c \in Nat /\ j % c \in 0 .. c-1 /\ j = c * (j \div c) + (j % c)
      BY <1>1, DivMod
    <2>2. (j % c) \in Nat BY <2>1, <1>1
    <2> QED BY <2>1, <2>2, <1>1
  <1>6. ASSUME NEW j \in Nat PROVE At(x, j) \in Nat BY <1>2, <1>5
  \* An element ends before the next row begins.
  <1>7. ASSUME NEW j \in Nat, NEW q \in Nat, j \div c < q
        PROVE  At(x, j) + s <= q * st
    <2> DEFINE u == j \div c
               v == j % c
    <2>1. u \in Nat /\ v \in 0 .. c-1 /\ u * st \in Nat /\ v * s \in Nat BY <1>5
    <2>2. At(x, j) = u * st + v * s BY <1>2
    <2> HIDE DEF u, v
    <2>3. s * (v + 1) <= s * c
      <3>1. v + 1 \in Nat /\ v + 1 <= c BY <2>1, <1>1
      <3> QED BY <3>1, <1>1, TimesMono
    <2>4. s * (v + 1) = v * s + s BY <2>1, <1>1
    <2>5. st * (u + 1) <= st * q
      <3>1. u + 1 \in Nat /\ u + 1 <= q BY <2>1, <1>7 DEF u
      <3> QED BY <3>1, <1>1, TimesMono
    <2>6. st * (u + 1) = u * st + st /\ st * q = q * st BY <2>1, <1>1
    <2>7. q * st \in Nat BY <1>1
    <2> QED BY <2>1, <2>2, <2>3, <2>4, <2>5, <2>6, <2>7, <1>1, <1>4
  <1>8. k \in Nat /\ k < r * c BY <1>3, <1>4
  <1>9. k \div c < r
    <2> SUFFICES ASSUME r <= k \div c PROVE FALSE BY <1>1, <1>5, <1>8
    <2>1. c * r <= c * (k \div c) BY <1>1, <1>5, <1>8, TimesMono
    <2>2. c * r = r * c /\ c * (k \div c) \in Nat BY <1>1, <1>5, <1>8
    <2>3. k = c * (k \div c) + (k % c) /\ (k % c) >= 0 BY <1>1, <1>5, <1>8
    <2> DEFINE u == c * (k \div c)
               v == k % c
               w == r * c
    <2>4. w <= u /\ u \in Nat /\ k = u + v /\ v \in Nat /\ k < w /\ w \in Nat
      BY <2>1, <2>2, <1>1, <1>4, <1>5, <1>8
    <2> HIDE DEF u, v, w
    <2> QED BY <2>4, <1>8
  <1>10. At(x, k) + s <= r * st BY <1>1, <1>7, <1>8, <1>9
  <1>11. ASSUME NEW l \in 0 .. k-1 PROVE At(x, l) + s <= At(x, k)
    <2> DEFINE u1 == l \div c
               v1 == l % c
               u2 == k \div c
               v2 == k % c
    <2>0. l \in Nat /\ l < k BY <1>8
    <2>1. u1 \in Nat /\ v1 \in 0 .. c-1 /\ l = c * u1 + v1 /\ u1 * st \in Nat /\ v1 * s \in Nat
      BY <2>0, <1>5
    <2>2. u2 \in Nat /\ v2 \in 0 .. c-1 /\ k = c * u2 + v2 /\ u2 * st \in Nat /\ v2 * s \in Nat
      BY <1>8, <1>5
    <2>3. At(x, k) = u2 * st + v2 * s /\ At(x, l) = u1 * st + v1 * s BY <1>2
    <2>4. CASE u1 < u2
      <3>1. At(x, l) + s <= u2 * st BY <2>0, <2>2, <2>4, <1>7
      <3> HIDE DEF u1, u2, v1, v2
      <3> QED BY <3>1, <2>2, <2>3, <1>1, <1>6, <2>0
    <2> HIDE DEF u1, u2, v1, v2
    <2>5. CASE u1 = u2
      <3>1. c * u1 \in Nat /\ c * u2 \in Nat /\ c * u1 = c * u2 BY <1>1, <2>1, <2>2, <2>5
      <3>2. v1 + 1 <= v2 BY <3>1, <2>0, <2>1, <2>2, <1>1
      <3>3. v1 + 1 \in Nat /\ v2 \in Nat BY <2>1, <2>2, <1>1
      <3>4. s * (v1 + 1) <= s * v2 BY <3>2, <3>3, <1>1, TimesMono
      <3>5. s * (v1 + 1) = v1 * s + s /\ s * v2 = v2 * s BY <3>3, <2>1, <1>1
      <3>6. u1 * st = u2 * st BY <2>5
      <3> QED BY <3>4, <3>5, <3>6, <2>1, <2>2, <2>3, <1>1
    <2>6. ~(u2 < u1)
      <3> SUFFICES ASSUME u2 < u1 PROVE FALSE OBVIOUS
      <3>1. u2 + 1 \in Nat /\ u2 + 1 <= u1 BY <2>1, <2>2
      <3>2. c * (u2 + 1) <= c * u1 BY <3>1, <2>1, <1>1, TimesMono
      <3>3. c * (u2 + 1) = c * u2 + c /\ c * u2 \in Nat /\ c * u1 \in Nat BY <2>1, <2>2, <1>1
      <3> QED BY <3>2, <3>3, <2>0, <2>1, <2>2, <1>1
    <2> QED BY <2>1, <2>2, <2>4, <2>5, <2>6
  <1> QED BY <1>3, <1>6, <1>8, <1>10, <1>11 DEF s

\* Nothing, and one element more.
LEMMA FillEmpty == ASSUME NEW x, NEW m \in Nat PROVE Fill(x, m, m) = {}
BY DEF Fill

LEMMA FillNext ==
    ASSUME NEW x, NEW m \in Nat, NEW n \in Nat, m <= n
    PROVE  Fill(x, m, n + 1) = Fill(x, m, n) \cup {At(x, n)}
  <1>1. m .. (n + 1) - 1 = (m .. n - 1) \cup {n} OBVIOUS
  <1> QED BY <1>1 DEF Fill

\* Elements added to or taken from either end.
LEMMA FillFacts ==
    ASSUME NEW b, NEW x \in Members, x.data # Null, Shape(b, x), NEW m \in Nat, NEW n \in Nat
    PROVE  /\ m < n /\ n <= Count(x) => /\ Fill(x, m + 1, n) = Fill(x, m, n) \ {At(x, m)}
                                        /\ At(x, m) \in Fill(x, m, n)
           /\ m <= n /\ n < Count(x) => /\ Fill(x, m, n) = Fill(x, m, n + 1) \ {At(x, n)}
                                        /\ At(x, n) \in Fill(x, m, n + 1)
  <1>1. Count(x) \in Nat /\ SizeOf \in Nat \ {0} BY BufferAssumption DEF Members, Count
  <1>2. ASSUME NEW i \in 0 .. Count(x)-1, NEW j \in 0 .. Count(x)-1, i # j
        PROVE  At(x, i) # At(x, j)
    <2>1. CASE i < j
      <3>1. At(x, j) \in Nat /\ At(x, i) \in Nat /\ At(x, i) + SizeOf <= At(x, j)
        BY <2>1, <1>1, AtFacts
      <3> QED BY <3>1, <1>1
    <2>2. CASE j < i
      <3>1. At(x, j) \in Nat /\ At(x, i) \in Nat /\ At(x, j) + SizeOf <= At(x, i)
        BY <2>2, <1>1, AtFacts
      <3> QED BY <3>1, <1>1
    <2> QED BY <2>1, <2>2, <1>1, <1>2
  <1>3. ASSUME m < n, n <= Count(x)
        PROVE  /\ Fill(x, m + 1, n) = Fill(x, m, n) \ {At(x, m)}
               /\ At(x, m) \in Fill(x, m, n)
    <2>1. m .. n - 1 = ((m + 1) .. n - 1) \cup {m} BY <1>3
    <2>2. \A k \in (m + 1) .. n - 1 : At(x, k) # At(x, m) BY <1>1, <1>2, <1>3
    <2> QED BY <2>1, <2>2 DEF Fill
  <1>4. ASSUME m <= n, n < Count(x)
        PROVE  /\ Fill(x, m, n) = Fill(x, m, n + 1) \ {At(x, n)}
               /\ At(x, n) \in Fill(x, m, n + 1)
    <2>1. m .. (n + 1) - 1 = (m .. n - 1) \cup {n} BY <1>4
    <2>2. \A k \in m .. n - 1 : At(x, k) # At(x, n) BY <1>1, <1>2, <1>4
    <2> QED BY <2>1, <2>2 DEF Fill
  <1> QED BY <1>3, <1>4

----------------------------------------------------------------------------
(* The steps.                                                              *)

LEMMA BufferInit == Init => BufferInv
  <1> SUFFICES ASSUME Init PROVE BufferInv OBVIOUS
  <1>1. Types BY DEF Init, Types, Empty, Members, Idle, Calls
  <1>2. InProgress BY DEF Init, InProgress, Idle
  <1>3. Owners = {} BY DEF Init, Owners, Idle
  <1>4. Ownership BY <1>3 DEF Init, Ownership
  <1> QED BY <1>1, <1>2, <1>4 DEF BufferInv

\* Who owns what between two calls, and during one.
LEMMA OwnersAre ==
    ASSUME BufferInv
    PROVE  /\ call = Idle => Owners = exists
           /\ call.of # Null => Owners = exists \cup {call.of} /\ call.of \in Owners
           /\ call.of # Null <=> call.op # "idle"
           /\ Owners \subseteq Buffer
           /\ Null \notin Buffer /\ Null \notin Block
           /\ \A b \in Owners : buf[b] \in Members
  <1>1. Null \notin Buffer /\ Null \notin Block BY BufferAssumption
  <1>2. call.op = "idle" => call = Idle BY DEF BufferInv, InProgress
  <1>3. call.op # "idle" => call.of \in Buffer BY DEF BufferInv, InProgress
  <1> QED BY <1>1, <1>2, <1>3 DEF Owners, Idle, BufferInv, Types

\* A buffer that owns memory is the only one that owns it.
LEMMA MemoryFacts ==
    ASSUME BufferInv, NEW b \in Owners, buf[b].data # Null
    PROVE  /\ buf[b].data \in Block
           /\ Count(buf[b]) \in Nat /\ Extent(buf[b]) \in Nat
           /\ Size(b) = Count(buf[b]) /\ NumBytes(b) = Extent(buf[b])
           /\ \A k : Offset(b, k) = At(buf[b], k)
           /\ heap[buf[b].data] # Free
           /\ \A o \in Owners \ {b} : buf[o].data # buf[b].data
  <1>1. buf[b] \in Members BY OwnersAre
  <1>2. Extent(buf[b]) \in Nat /\ Count(buf[b]) \in Nat BY <1>1 DEF Extent, Count, Members
  <1>3. heap[buf[b].data] = Extent(buf[b]) BY DEF BufferInv, Ownership
  <1>4. heap[buf[b].data] # Free BY <1>2, <1>3 DEF Free
  <1>5. Size(b) = Count(buf[b]) /\ NumBytes(b) = Extent(buf[b]) BY DEF Size, Count, NumBytes, Extent
  <1>6. \A k : Offset(b, k) = At(buf[b], k) BY DEF Offset, At
  <1>7. \A o \in Owners \ {b} : buf[o].data # buf[b].data BY DEF BufferInv, Ownership
  <1> QED BY <1>1, <1>2, <1>4, <1>5, <1>6, <1>7 DEF Members

\* A step of a constructor or destructor that constructs or destroys in its own memory.
LEMMA GoesOn ==
    ASSUME BufferInv, NEW b, call.of = b, call'.of = b, call.op # "idle",
           UNCHANGED <<exists, buf, heap>>,
           \A k \in Block : live'[k] = IF k = buf[b].data THEN Alive(b)' ELSE live[k],
           Types', InProgress'
    PROVE  BufferInv'
  <1>1. b # Null /\ b \in Owners /\ Owners = exists \cup {b} /\ buf[b].data # Null
    BY OwnersAre DEF BufferInv, InProgress
  <1>2. /\ buf[b].data \in Block /\ heap[buf[b].data] # Free
        /\ \A o \in Owners \ {b} : buf[o].data # buf[b].data
    BY <1>1, MemoryFacts
  <1>3. Owners' = Owners BY <1>1 DEF Owners
  <1>4. \A o \in Owners \ {b} : Alive(o)' = Alive(o) BY DEF Alive
  <1>5. Ownership'
    <2>1. \A k \in Block : heap'[k] = Free => live'[k] = {}
      BY <1>2 DEF BufferInv, Ownership
    <2>2. ASSUME NEW o \in Owners, buf[o].data # Null PROVE live'[buf[o].data] = Alive(o)'
      <3>1. CASE o = b BY <3>1, <1>2
      <3>2. CASE o # b
        <4>1. buf[o].data \in Block /\ buf[o].data # buf[b].data /\ live[buf[o].data] = Alive(o)
          BY <2>2, <3>2, <1>2, MemoryFacts DEF BufferInv, Ownership
        <4> QED BY <4>1, <3>2, <1>4
      <3> QED BY <3>1, <3>2
    <2> QED BY <1>3, <2>1, <2>2 DEF BufferInv, Ownership
  <1> QED BY <1>5 DEF BufferInv

LEMMA ConstructElementStep == ASSUME BufferInv, NEW b, ConstructElement(b) PROVE BufferInv'
  <1> DEFINE x == buf[b]
             n == call.next
  <1>1. /\ call.op = "construct" /\ call.of = b /\ n < Size(b)
        /\ live' = [live EXCEPT ![x.data] = @ \cup {Offset(b, n)}]
        /\ call' = [call EXCEPT !.next = @ + 1, !.count = @ + 1]
        /\ UNCHANGED <<exists, buf, heap>>
    BY DEF ConstructElement
  <1>2. call \in Calls /\ n \in Nat /\ call.count = n BY <1>1 DEF BufferInv, Types, InProgress, Calls
  <1>3. b \in Owners /\ x \in Members /\ x.data # Null /\ Shape(b, x) /\ live[x.data] = Alive(b)
    BY <1>1, OwnersAre DEF BufferInv, InProgress, Ownership
  <1>4. /\ x.data \in Block /\ Size(b) = Count(x) /\ Offset(b, n) = At(x, n) /\ Count(x) \in Nat
    BY <1>3, MemoryFacts
  <1>5. At(x, n) \in Nat BY <1>1, <1>2, <1>3, <1>4, AtFacts
  <1>6. /\ call'.op = "construct" /\ call'.of = b /\ call'.from = call.from
        /\ call'.next = n + 1 /\ call'.count = n + 1 /\ call' \in Calls
    <2>1. call' = [op |-> call.op, of |-> call.of, from |-> call.from, count |-> n + 1,
                   next |-> n + 1]
      BY <1>1, <1>2 DEF Calls
    <2> HIDE DEF n
    <2>2. call' \in Calls BY <2>1, <1>2 DEF Calls
    <2> QED BY <2>1, <2>2, <1>1
  <1>7. Alive(b) = Fill(x, 0, n) BY <1>1 DEF Alive
  <1>8. Alive(b)' = Fill(x, 0, n + 1) BY <1>1, <1>6 DEF Alive
  <1>9. Fill(x, 0, n + 1) = Fill(x, 0, n) \cup {At(x, n)} BY <1>2, FillNext
  <1>10. live \in [Block -> SUBSET Nat] BY DEF BufferInv, Types
  <1> HIDE DEF x, n
  <1>11. \A k \in Block : live'[k] = IF k = x.data THEN Alive(b)' ELSE live[k]
    BY <1>1, <1>3, <1>4, <1>7, <1>8, <1>9, <1>10
  <1>12. Types' BY <1>1, <1>4, <1>5, <1>6, <1>10 DEF BufferInv, Types
  <1>13. InProgress'
    <2>1. Size(b)' = Size(b) BY <1>1 DEF Size
    <2>2. n + 1 <= Size(b) BY <1>1, <1>2, <1>4
    <2> QED BY <1>1, <1>2, <1>6, <2>1, <2>2 DEF BufferInv, InProgress
  <1> QED BY <1>1, <1>6, <1>11, <1>12, <1>13, GoesOn DEF x

LEMMA ElementThrowsStep == ASSUME BufferInv, NEW b, ElementThrows(b) PROVE BufferInv'
  <1> DEFINE x == buf[b]
             n == call.next
  <1>1. /\ call.op = "construct" /\ call.of = b /\ n < Size(b)
        /\ call' = [call EXCEPT !.op = "rollback", !.next = 0]
        /\ UNCHANGED <<exists, buf, heap, live>>
    BY DEF ElementThrows
  <1>2. call \in Calls /\ n \in Nat /\ call.count = n BY <1>1 DEF BufferInv, Types, InProgress, Calls
  <1>3. b \in Owners /\ x.data # Null /\ live[x.data] = Alive(b)
    BY <1>1, OwnersAre DEF BufferInv, InProgress, Ownership
  <1>4. /\ call'.op = "rollback" /\ call'.of = b /\ call'.from = call.from
        /\ call'.next = 0 /\ call'.count = n /\ call' \in Calls
    BY <1>1, <1>2 DEF Calls
  <1>5. Alive(b) = Fill(x, 0, n) BY <1>1 DEF Alive
  <1>6. Alive(b)' = Fill(x, 0, n) BY <1>1, <1>2, <1>4 DEF Alive
  <1> HIDE DEF n
  <1>7. \A k \in Block : live'[k] = IF k = x.data THEN Alive(b)' ELSE live[k]
    BY <1>1, <1>3, <1>5, <1>6
  <1>8. Types' BY <1>1, <1>4 DEF BufferInv, Types
  <1>9. InProgress'
    <2>1. Size(b)' = Size(b) /\ Size(b) \in Nat
      BY <1>1, <1>3, MemoryFacts DEF Size
    <2> QED BY <1>1, <1>2, <1>4, <2>1 DEF BufferInv, InProgress
  <1> QED BY <1>1, <1>4, <1>7, <1>8, <1>9, GoesOn

\* The loop of a rollback or of a destructor destroys one of those alive.
LEMMA Destroys ==
    ASSUME BufferInv, NEW b, call.op \in {"rollback", "destroy"}, call.of = b
    PROVE  /\ b \in Owners /\ buf[b] \in Members /\ buf[b].data # Null
           /\ Shape(b, buf[b]) /\ live[buf[b].data] = Alive(b)
           /\ ToDestroy(b) \in Nat /\ ToDestroy(b) <= Count(buf[b]) /\ call.next <= ToDestroy(b)
           /\ call.next = ToDestroy(b) => Alive(b) = {}
           /\ call.next < ToDestroy(b) =>
                  At(buf[b], Doomed(b)) \in Alive(b)
  <1> DEFINE x == buf[b]
             n == call.next
             N == call.count
  <1>1. b \in Owners /\ x \in Members /\ x.data # Null /\ Shape(b, x) /\ live[x.data] = Alive(b)
    BY OwnersAre DEF BufferInv, InProgress, Ownership
  <1>2. Size(b) = Count(x) /\ Count(x) \in Nat BY <1>1, MemoryFacts
  <1>3. n \in Nat /\ N \in Nat BY DEF BufferInv, Types, Calls
  <1>4. /\ call.op = "destroy" => n <= Size(b)
        /\ call.op = "rollback" => n <= N /\ N <= Size(b)
    BY DEF BufferInv, InProgress
  <1>5. ToDestroy(b) = IF call.op = "destroy" THEN Count(x) ELSE N
    BY <1>2, <1>3, <1>4 DEF ToDestroy
  <1> HIDE DEF x, n, N
  <1>6. CASE call.op = "destroy"
    <2>1. Alive(b) = Fill(x, n, Count(x)) /\ Doomed(b) = n BY <1>6 DEF Alive, Doomed, x, n
    <2>2. Fill(x, Count(x), Count(x)) = {} BY <1>2, FillEmpty
    <2>3. n < Count(x) => At(x, n) \in Fill(x, n, Count(x)) BY <1>1, <1>2, <1>3, FillFacts
    <2> QED BY <1>1, <1>2, <1>3, <1>4, <1>5, <1>6, <2>1, <2>2, <2>3 DEF x, n
  <1>7. CASE call.op = "rollback" /\ b \notin Arrays
    <2>1. Alive(b) = Fill(x, n, N) /\ Doomed(b) = n BY <1>7 DEF Alive, Doomed, x, n, N
    <2>2. Fill(x, N, N) = {} BY <1>3, FillEmpty
    <2>3. n < N => At(x, n) \in Fill(x, n, N) BY <1>1, <1>2, <1>3, <1>4, <1>7, FillFacts
    <2> QED BY <1>1, <1>2, <1>3, <1>4, <1>5, <1>7, <2>1, <2>2, <2>3 DEF x, n
  <1>8. CASE call.op = "rollback" /\ b \in Arrays
    <2>1. Alive(b) = Fill(x, 0, N - n) /\ Doomed(b) = N - 1 - n BY <1>8 DEF Alive, Doomed, x, n, N
    <2>2. n = N => Fill(x, 0, N - n) = {} BY <1>3, FillEmpty
    <2>3. ASSUME n < N PROVE At(x, N - 1 - n) \in Fill(x, 0, N - n)
      <3> DEFINE m == N - 1 - n
      <3>1. m \in Nat /\ m < Count(x) /\ m + 1 = N - n BY <2>3, <1>2, <1>3, <1>4, <1>8
      <3> HIDE DEF m
      <3>2. At(x, m) \in Fill(x, 0, m + 1) BY <3>1, <1>1, FillFacts
      <3> QED BY <3>1, <3>2 DEF m
    <2> QED BY <1>1, <1>2, <1>3, <1>4, <1>5, <1>8, <2>1, <2>2, <2>3 DEF x, n
  <1> QED BY <1>6, <1>7, <1>8

LEMMA DestroyElementStep == ASSUME BufferInv, NEW b, DestroyElement(b) PROVE BufferInv'
  <1> DEFINE x == buf[b]
             n == call.next
             N == call.count
  <1>1. /\ call.op \in {"rollback", "destroy"} /\ call.of = b /\ n < ToDestroy(b)
        /\ live' = [live EXCEPT ![x.data] = @ \ {Offset(b, Doomed(b))}]
        /\ call' = [call EXCEPT !.next = @ + 1]
        /\ UNCHANGED <<exists, buf, heap>>
    BY DEF DestroyElement
  <1>2. call \in Calls /\ n \in Nat /\ N \in Nat BY DEF BufferInv, Types, Calls
  <1>3. /\ b \in Owners /\ x \in Members /\ x.data # Null /\ Shape(b, x)
        /\ live[x.data] = Alive(b) /\ ToDestroy(b) \in Nat /\ ToDestroy(b) <= Count(x)
    BY <1>1, Destroys
  <1>4. /\ x.data \in Block /\ Size(b) = Count(x) /\ Count(x) \in Nat
        /\ Offset(b, Doomed(b)) = At(x, Doomed(b))
    BY <1>3, MemoryFacts
  <1>5. call' = [op |-> call.op, of |-> b, from |-> call.from, count |-> N, next |-> n + 1]
    BY <1>1, <1>2 DEF Calls
  <1> HIDE DEF x, n, N
  <1>6. call' \in Calls /\ call'.op = call.op /\ call'.of = b /\ call'.from = call.from
        /\ call'.count = N /\ call'.next = n + 1
    BY <1>1, <1>2, <1>5 DEF Calls
  <1>7. /\ call.op = "destroy" => ToDestroy(b) = Count(x)
        /\ call.op = "rollback" => ToDestroy(b) = N
    <2>1. call.op = "rollback" => N <= Size(b) BY <1>1 DEF BufferInv, InProgress, N
    <2> QED BY <2>1, <1>1, <1>2, <1>4 DEF ToDestroy, N
  <1>8. Alive(b)' = Alive(b) \ {At(x, Doomed(b))}
    <2>1. CASE call.op = "destroy"
      <3>1. Alive(b) = Fill(x, n, Count(x)) /\ Doomed(b) = n
        BY <2>1, <1>1 DEF Alive, Doomed, x, n
      <3>2. Alive(b)' = Fill(x, n + 1, Count(x)) BY <2>1, <1>1, <1>6 DEF Alive, x
      <3> QED BY <2>1, <3>1, <3>2, <1>1, <1>2, <1>3, <1>4, <1>7, FillFacts
    <2>2. CASE call.op = "rollback" /\ b \notin Arrays
      <3>1. Alive(b) = Fill(x, n, N) /\ Doomed(b) = n
        BY <2>2, <1>1 DEF Alive, Doomed, x, n, N
      <3>2. Alive(b)' = Fill(x, n + 1, N) BY <2>2, <1>1, <1>6 DEF Alive, x
      <3> QED BY <2>2, <3>1, <3>2, <1>1, <1>2, <1>3, <1>7, FillFacts
    <2>3. CASE call.op = "rollback" /\ b \in Arrays
      <3> DEFINE m == N - 1 - n
      <3>1. Alive(b) = Fill(x, 0, N - n) /\ Doomed(b) = m
        BY <2>3, <1>1 DEF Alive, Doomed, x, n, N
      <3>2. Alive(b)' = Fill(x, 0, N - (n + 1)) BY <2>3, <1>1, <1>6 DEF Alive, x
      <3>3. m \in Nat /\ m < Count(x) /\ N - n = m + 1 /\ N - (n + 1) = m
        BY <2>3, <1>1, <1>2, <1>3, <1>4, <1>7
      <3> HIDE DEF m
      <3> QED BY <3>1, <3>2, <3>3, <1>3, FillFacts
    <2> QED BY <2>1, <2>2, <2>3, <1>1
  <1>9. live \in [Block -> SUBSET Nat] BY DEF BufferInv, Types
  <1>10. \A k \in Block : live'[k] = IF k = x.data THEN Alive(b)' ELSE live[k]
    BY <1>1, <1>3, <1>4, <1>8, <1>9
  <1>11. Types' BY <1>1, <1>4, <1>6, <1>9 DEF BufferInv, Types
  <1>12. InProgress'
    <2>1. Size(b)' = Size(b) BY <1>1 DEF Size
    <2>2. /\ call.op = "destroy" => n + 1 <= Size(b)
          /\ call.op = "rollback" => n + 1 <= N
      BY <1>1, <1>2, <1>4, <1>7
    <2>3. call'.from # Null /\ call'.op = "destroy" =>
              call'.from \in exists \ {b} /\ SameType(b, call'.from)
      BY <1>1, <1>6 DEF BufferInv, InProgress
    <2> QED BY <1>1, <1>6, <2>1, <2>2, <2>3 DEF BufferInv, InProgress, N
  <1> QED BY <1>1, <1>6, <1>10, <1>11, <1>12, GoesOn DEF x

\* When the constructor returns, all elements are alive.
LEMMA CommitStep == ASSUME BufferInv, NEW b, Commit(b) PROVE BufferInv'
  <1>1. /\ call.op = "construct" /\ call.of = b /\ call.next = Size(b)
        /\ exists' = exists \cup {b} /\ call' = Idle /\ UNCHANGED <<buf, heap, live>>
    BY DEF Commit
  <1>2. b \in Owners /\ b \in Buffer /\ b # Null /\ Owners = exists \cup {b} /\ buf[b].data # Null
    BY <1>1, OwnersAre DEF BufferInv, InProgress
  <1>3. Owners' = Owners BY <1>1, <1>2 DEF Owners, Idle
  <1>4. Size(b) = Count(buf[b]) BY DEF Size, Count
  <1>5. ASSUME NEW o \in Owners PROVE Alive(o)' = Alive(o)
    <2>1. o # Null BY <1>2, <1>5, OwnersAre
    <2>2. Alive(o)' = Fill(buf[o], 0, Count(buf[o])) BY <1>1, <2>1 DEF Alive, Idle
    <2> QED BY <2>2, <1>1, <1>4 DEF Alive
  <1>6. Types' BY <1>1, <1>2 DEF BufferInv, Types, Idle, Calls
  <1>7. InProgress' BY <1>1 DEF InProgress, Idle
  <1>8. Ownership' BY <1>1, <1>3, <1>5 DEF BufferInv, Ownership
  <1> QED BY <1>6, <1>7, <1>8 DEF BufferInv

\* The memory that b still owns, if any, has been given back; h is the heap then.
GivenBack(b, h) ==
    /\ h \in [Block -> Nat \cup {Free}]
    /\ \A k \in Block :
           IF b \in Owners /\ buf[b].data = k THEN h[k] = Free /\ live[k] = {}
           ELSE h[k] = heap[k]

\* A buffer without memory is destroyed, or made one without memory.
LEMMA Empties ==
    ASSUME BufferInv, NEW b \in Buffer, call.of \in {b, Null}, call' = Idle,
           GivenBack(b, heap'), live' = live,
           NEW x \in Members, x.data = Null, b \notin Arrays => Count(x) = 0,
           buf' = [buf EXCEPT ![b] = x],
           exists' = exists \ {b} \/ exists' = exists \cup {b}
    PROVE  BufferInv'
  <1>1. Owners \cup {b} = exists \cup {b} /\ Owners \subseteq Buffer /\ Null \notin Buffer /\ Null \notin Block
    BY OwnersAre DEF Owners
  <1>2. Owners' = exists' BY DEF Owners, Idle
  <1>3. buf'[b] = x /\ \A o \in Buffer \ {b} : buf'[o] = buf[o]
    BY DEF BufferInv, Types
  <1>4. Types' BY <1>1 DEF BufferInv, Types, Idle, Calls, GivenBack
  <1>5. InProgress' BY DEF InProgress, Idle
  <1>6. Ownership'
    <2>1. ASSUME NEW k \in Block, heap'[k] = Free PROVE live[k] = {}
      BY <2>1 DEF GivenBack, BufferInv, Ownership
    <2>2. ASSUME NEW k \in Block, heap'[k] # Free PROVE \E o \in exists' : buf'[o].data = k
      <3>1. heap[k] # Free /\ ~(b \in Owners /\ buf[b].data = k) BY <2>2 DEF GivenBack
      <3>2. PICK o \in Owners : buf[o].data = k BY <3>1 DEF BufferInv, Ownership
      <3>3. o # b BY <3>1, <3>2
      <3> QED BY <3>2, <3>3, <1>1, <1>3
    <2>3. ASSUME NEW o \in exists', buf'[o].data # Null
          PROVE  /\ o \in Owners /\ o # b /\ buf'[o] = buf[o] /\ o \in Buffer
                 /\ heap'[buf[o].data] = heap[buf[o].data]
                 /\ Alive(o) = Fill(buf[o], 0, Count(buf[o]))
                 /\ Alive(o)' = Alive(o)
      <3>1. o # b BY <2>3, <1>3
      <3>2. o \in Owners /\ o \in Buffer /\ buf'[o] = buf[o] BY <3>1, <2>3, <1>1, <1>3
      <3>3. buf[o].data \in Block /\ (b \in Owners => buf[b].data # buf[o].data)
        BY <2>3, <3>1, <3>2, MemoryFacts
      <3>4. heap'[buf[o].data] = heap[buf[o].data] BY <3>3 DEF GivenBack
      <3>5. call.of # o /\ call'.of # o BY <3>1, <3>2, <1>1 DEF Idle
      <3> QED BY <3>1, <3>2, <3>4, <3>5 DEF Alive
    <2>4. ASSUME NEW o1 \in exists', NEW o2 \in exists', o1 # o2, buf'[o1].data # Null
          PROVE  buf'[o1].data # buf'[o2].data
      <3>1. CASE buf'[o2].data = Null BY <3>1, <2>4
      <3>2. CASE buf'[o2].data # Null
        BY <3>2, <2>3, <2>4 DEF BufferInv, Ownership
      <3> QED BY <3>1, <3>2
    <2>5. ASSUME NEW o \in exists' PROVE Shape(o, buf'[o])
      <3>1. CASE o = b BY <3>1, <1>3 DEF Shape
      <3>2. CASE o # b
        <4>1. o \in Owners /\ buf'[o] = buf[o] BY <3>2, <1>1, <1>3
        <4> QED BY <4>1 DEF BufferInv, Ownership
      <3> QED BY <3>1, <3>2
    <2>6. ASSUME NEW o \in exists', buf'[o].data # Null
          PROVE  heap'[buf'[o].data] = Extent(buf'[o]) /\ live'[buf'[o].data] = Alive(o)'
      BY <2>3, <2>6 DEF BufferInv, Ownership
    <2> QED BY <1>2, <2>1, <2>2, <2>4, <2>5, <2>6 DEF Ownership
  <1> QED BY <1>4, <1>5, <1>6 DEF BufferInv

\* A buffer without memory takes over what another has.
LEMMA Steals ==
    ASSUME BufferInv, NEW b \in Buffer, NEW from \in exists, b # from, SameType(b, from),
           call.of \in {b, Null}, call' = Idle,
           GivenBack(b, heap'), live' = live,
           NEW x \in Members, x.data = Null, from \notin Arrays => Count(x) = 0,
           buf' = Steal(b, from, x), exists' = exists \cup {b}
    PROVE  BufferInv'
  <1>1. Owners \cup {b} = exists' /\ Owners \subseteq Buffer /\ Null \notin Buffer /\ Null \notin Block
        /\ from \in Owners /\ from \in Buffer
    BY OwnersAre DEF Owners
  <1>2. Owners' = exists' BY DEF Owners, Idle
  <1>3. /\ buf'[b] = buf[from] /\ buf'[from] = x
        /\ \A o \in Buffer \ {b, from} : buf'[o] = buf[o]
    BY <1>1 DEF BufferInv, Types, Steal
  <1>4. b \in Arrays <=> from \in Arrays BY BufferAssumption DEF SameType
  <1>5. Types'
    <2>1. buf' \in [Buffer -> Members] BY <1>1 DEF BufferInv, Types, Steal
    <2> QED BY <2>1 DEF BufferInv, Types, Idle, Calls, GivenBack
  <1>6. InProgress' BY DEF InProgress, Idle
  \* Who owned what a buffer owns now.
  <1> DEFINE was(o) == IF o = b THEN from ELSE o
  <1>7. ASSUME NEW o \in exists', buf'[o].data # Null
        PROVE  /\ was(o) \in Owners /\ was(o) # b /\ buf'[o] = buf[was(o)]
               /\ heap'[buf'[o].data] = heap[buf'[o].data]
               /\ Alive(o)' = Alive(was(o))
    <2>1. o # from BY <1>7, <1>3
    <2>2. was(o) \in Owners /\ was(o) # b /\ buf'[o] = buf[was(o)] BY <2>1, <1>7, <1>1, <1>3
    <2> HIDE DEF was
    <2>3. /\ buf[was(o)].data \in Block
          /\ b \in Owners => buf[b].data # buf[was(o)].data
      BY <1>7, <2>2, MemoryFacts
    <2>4. heap'[buf'[o].data] = heap[buf'[o].data] BY <2>2, <2>3 DEF GivenBack
    <2>5. call.of # was(o) /\ call'.of # o BY <2>2, <1>1, <1>7 DEF Idle
    <2>6. Alive(o)' = Fill(buf'[o], 0, Count(buf'[o])) BY <2>5 DEF Alive
    <2>7. Alive(was(o)) = Fill(buf[was(o)], 0, Count(buf[was(o)])) BY <2>5 DEF Alive
    <2> QED BY <2>2, <2>4, <2>6, <2>7
  <1>8. Ownership'
    <2>1. ASSUME NEW k \in Block, heap'[k] = Free PROVE live[k] = {}
      BY <2>1 DEF GivenBack, BufferInv, Ownership
    <2>2. ASSUME NEW k \in Block, heap'[k] # Free PROVE \E o \in exists' : buf'[o].data = k
      <3>1. heap[k] # Free /\ ~(b \in Owners /\ buf[b].data = k) BY <2>2 DEF GivenBack
      <3>2. PICK o \in Owners : buf[o].data = k BY <3>1 DEF BufferInv, Ownership
      <3>3. o # b BY <3>1, <3>2
      <3>4. CASE o = from BY <3>2, <3>4, <1>3
      <3>5. CASE o # from BY <3>2, <3>3, <3>5, <1>1, <1>3
      <3> QED BY <3>4, <3>5
    <2>3. ASSUME NEW o1 \in exists', NEW o2 \in exists', o1 # o2, buf'[o1].data # Null
          PROVE  buf'[o1].data # buf'[o2].data
      <3>1. CASE buf'[o2].data = Null BY <3>1, <2>3
      <3>2. CASE buf'[o2].data # Null
        <4>1. o1 # from /\ o2 # from BY <2>3, <3>2, <1>3
        <4>2. was(o1) # was(o2) BY <4>1, <2>3
        <4>3. /\ was(o1) \in Owners /\ buf'[o1] = buf[was(o1)]
              /\ was(o2) \in Owners /\ buf'[o2] = buf[was(o2)]
          BY <3>2, <2>3, <1>7
        <4> HIDE DEF was
        <4> QED BY <4>2, <4>3, <2>3 DEF BufferInv, Ownership
      <3> QED BY <3>1, <3>2
    <2>4. ASSUME NEW o \in exists' PROVE Shape(o, buf'[o])
      <3>1. CASE o = from BY <3>1, <1>3 DEF Shape
      <3>2. CASE o = b
        <4>1. Shape(from, buf[from]) BY <1>1 DEF BufferInv, Ownership
        <4> QED BY <4>1, <3>2, <1>3, <1>4 DEF Shape
      <3>3. CASE o # from /\ o # b
        <4>1. o \in Owners /\ buf'[o] = buf[o] BY <3>3, <1>1, <1>3
        <4> QED BY <4>1 DEF BufferInv, Ownership
      <3> QED BY <3>1, <3>2, <3>3
    <2>5. ASSUME NEW o \in exists', buf'[o].data # Null
          PROVE  heap'[buf'[o].data] = Extent(buf'[o]) /\ live'[buf'[o].data] = Alive(o)'
      <3>1. /\ was(o) \in Owners /\ buf'[o] = buf[was(o)]
            /\ heap'[buf'[o].data] = heap[buf'[o].data] /\ Alive(o)' = Alive(was(o))
        BY <2>5, <1>7
      <3> HIDE DEF was
      <3> QED BY <3>1, <2>5 DEF BufferInv, Ownership
    <2> QED BY <1>2, <2>1, <2>2, <2>3, <2>4, <2>5 DEF Ownership
  <1> QED BY <1>5, <1>6, <1>8 DEF BufferInv

\* Nothing has been given back when no call is in progress that would do so.
LEMMA NothingGivenBack ==
    ASSUME BufferInv, NEW b, b \in Owners => buf[b].data = Null
    PROVE  GivenBack(b, heap)
  <1>1. Null \notin Block BY OwnersAre
  <1> QED BY <1>1 DEF GivenBack, BufferInv, Types

LEMMA DefaultConstructStep == ASSUME BufferInv, NEW b, DefaultConstruct(b) PROVE BufferInv'
  <1>1. /\ call = Idle /\ b \in Buffer \ exists /\ exists' = exists \cup {b}
        /\ buf' = [buf EXCEPT ![b] = Empty] /\ UNCHANGED <<heap, live, call>>
    BY DEF DefaultConstruct, Buffer
  <1>2. b \notin Owners /\ call.of = Null BY <1>1, OwnersAre DEF Idle
  <1>3. Empty \in Members /\ Empty.data = Null /\ Count(Empty) = 0 BY DEF Empty, Members, Count
  <1>4. GivenBack(b, heap') BY <1>1, <1>2, NothingGivenBack
  <1> QED BY <1>1, <1>2, <1>3, <1>4, Empties

\* The row length in bytes fits the elements, and keeps rows aligned.
LEMMA StrideFacts ==
    ASSUME NEW b, NEW c \in Nat
    PROVE  /\ StrideOf(b, c) \in Nat
           /\ c > 0 /\ b \notin Arrays => SizeOf * c <= StrideOf(b, c) /\ StrideOf(b, c) % Alignment = 0
           /\ c = 1 /\ b \in Arrays => SizeOf * c <= StrideOf(b, c)
           /\ b \notin Arrays => StrideOf(b, c) = Stride(c)
  <1>1. SizeOf \in Nat \ {0} /\ Alignment \in Nat \ {0} BY BufferAssumption
  <1>2. CASE b \in Arrays BY <1>1, <1>2 DEF StrideOf
  <1>3. CASE b \notin Arrays
    <2> DEFINE n == SizeOf * c
    <2>1. n \in Nat /\ (c > 0 => n # 0)
      <3>1. c > 0 => SizeOf * 1 <= SizeOf * c BY <1>1, TimesMono
      <3> QED BY <3>1, <1>1
    <2>2. StrideOf(b, c) = Ceil(n, Alignment) BY <1>3 DEF StrideOf, Stride
    <2> HIDE DEF n
    <2>3. CASE n = 0 BY <1>3, <2>1, <2>2, <2>3 DEF Ceil, StrideOf
    <2>4. CASE n # 0
      <3> DEFINE dx == Alignment - ((n - 1) % Alignment) - 1
      <3>1. dx \in 0 .. Alignment-1 /\ IsCeiling(n + dx, n, Alignment)
        BY <1>1, <2>1, <2>4, CeilingOf
      <3>2. (n - 1) % Alignment \in 0 .. Alignment-1 BY <1>1, <2>1, <2>4
      <3>3. Ceil(n, Alignment) = n + dx BY <1>1, <2>1, <2>4, <3>2 DEF Ceil
      <3> HIDE DEF dx
      <3>4. n + dx \in Nat /\ n <= n + dx /\ (n + dx) % Alignment = 0
        BY <3>1, <2>1, <1>1 DEF IsCeiling
      <3> QED BY <3>3, <3>4, <2>2, <1>3 DEF StrideOf, n
    <2> QED BY <2>3, <2>4
  <1> QED BY <1>2, <1>3

LEMMA ConstructEmptyStep ==
    ASSUME BufferInv, NEW b, NEW r \in Nat, NEW c \in Nat, ConstructEmpty(b, r, c)
    PROVE  BufferInv'
  <1> DEFINE x == [data |-> Null, rows |-> r, cols |-> c, stride |-> Stride(c)]
  <1>1. /\ call = Idle /\ b \in Buffer \ exists /\ b \notin Arrays /\ exists' = exists \cup {b}
        /\ r = 0 \/ c = 0
        /\ buf' = [buf EXCEPT ![b] = x] /\ UNCHANGED <<heap, live, call>>
    BY BufferAssumption DEF ConstructEmpty, Buffer
  <1>2. b \notin Owners /\ call.of = Null BY <1>1, OwnersAre DEF Idle
  <1>3. Stride(c) \in Nat BY <1>1, StrideFacts
  <1>4. r * c = 0 BY <1>1
  <1>5. x \in Members /\ x.data = Null /\ Count(x) = 0 BY <1>3, <1>4 DEF Members, Count
  <1>6. GivenBack(b, heap') BY <1>1, <1>2, NothingGivenBack
  <1> HIDE DEF x
  <1> QED BY <1>1, <1>2, <1>5, <1>6, Empties

\* Fresh memory with no element in it.
LEMMA AllocateStep ==
    ASSUME BufferInv, NEW b \in Buffer, NEW r \in Nat, NEW c \in Nat \ {0}, NEW k \in Block,
           b \in Arrays => c = 1, Allocate(b, r, c, k, 0)
    PROVE  BufferInv'
  <1> DEFINE st == StrideOf(b, c)
             x  == [data |-> k, rows |-> r, cols |-> c, stride |-> st]
  <1>1. /\ call = Idle /\ b \notin exists /\ heap[k] = Free
        /\ buf' = [buf EXCEPT ![b] = x] /\ heap' = [heap EXCEPT ![k] = r * st]
        /\ call' = [Idle EXCEPT !.op = "construct", !.of = b, !.count = 0]
        /\ UNCHANGED <<exists, live>>
    BY DEF Allocate
  <1>2. call' = [op |-> "construct", of |-> b, from |-> Null, count |-> 0, next |-> 0]
    BY <1>1 DEF Idle
  <1>3. st \in Nat /\ SizeOf * c <= st /\ (b \notin Arrays => st % Alignment = 0)
    BY StrideFacts
  <1> HIDE DEF st
  <1>4. Owners = exists /\ b \notin Owners /\ Owners \subseteq Buffer /\ b # Null
        /\ Null \notin Buffer /\ Null \notin Block
    BY <1>1, OwnersAre
  <1>5. Owners' = Owners \cup {b} BY <1>1, <1>2, <1>4 DEF Owners
  <1>6. x \in Members /\ x.data # Null /\ Shape(b, x) /\ Extent(x) = r * st /\ r * st \in Nat
    BY <1>3, <1>4 DEF Members, Shape, Extent
  <1>7. buf'[b] = x /\ \A o \in Buffer \ {b} : buf'[o] = buf[o]
    BY <1>1 DEF BufferInv, Types
  <1>8. r * c \in Nat OBVIOUS
  <1>9. x.data = k /\ Count(x) = r * c BY DEF Count
  <1> HIDE DEF x
  <1>10. heap'[k] = Extent(x) /\ heap'[k] # Free /\ \A j \in Block \ {k} : heap'[j] = heap[j]
    BY <1>1, <1>6 DEF BufferInv, Types, Free
  <1>11. Types'
    <2>1. buf' \in [Buffer -> Members] BY <1>1, <1>6 DEF BufferInv, Types
    <2>2. heap' \in [Block -> Nat \cup {Free}] BY <1>1, <1>6 DEF BufferInv, Types
    <2>3. call' \in Calls BY <1>2 DEF Calls
    <2> QED BY <2>1, <2>2, <2>3, <1>1 DEF BufferInv, Types
  <1>12. InProgress'
    <2>1. Size(b)' = Count(x) BY <1>7 DEF Size, Count
    <2>2. Count(x) \in Nat BY <1>8, <1>9
    <2>3. /\ call'.op = "construct" /\ call'.of = b /\ call'.from = Null
          /\ call'.count = 0 /\ call'.next = 0
      BY <1>2
    <2>4. 0 <= Size(b)' /\ buf'[b].data # Null BY <2>1, <2>2, <1>6, <1>7
    <2> QED BY <2>3, <2>4, <1>1 DEF InProgress
  <1>13. ASSUME NEW o \in Owners, buf[o].data # Null
         PROVE  /\ o # b /\ buf'[o] = buf[o] /\ buf[o].data \in Block /\ buf[o].data # k
                /\ Alive(o)' = Alive(o)
    <2>1. o # b /\ buf'[o] = buf[o] BY <1>13, <1>4, <1>7
    <2>2. buf[o].data \in Block /\ heap[buf[o].data] # Free BY <1>13, MemoryFacts
    <2>3. call.of # o /\ call'.of # o BY <2>1, <1>1, <1>2, <1>4, <1>13 DEF Idle
    <2> QED BY <2>1, <2>2, <2>3, <1>1 DEF Alive
  <1>14. Alive(b)' = {} /\ live[k] = {}
    <2>1. Alive(b)' = Fill(x, 0, 0) BY <1>2, <1>7 DEF Alive
    <2>2. Fill(x, 0, 0) = {} BY FillEmpty
    <2>3. live[k] = {} BY <1>1 DEF BufferInv, Ownership
    <2> QED BY <2>1, <2>2, <2>3
  <1>15. Ownership'
    <2>1. ASSUME NEW j \in Block, heap'[j] = Free PROVE live'[j] = {}
      BY <2>1, <1>1, <1>10 DEF BufferInv, Ownership
    <2>2. ASSUME NEW j \in Block, heap'[j] # Free PROVE \E o \in Owners' : buf'[o].data = j
      <3>1. CASE j = k BY <3>1, <1>5, <1>7, <1>9
      <3>2. CASE j # k
        <4>1. PICK o \in Owners : buf[o].data = j
          BY <3>2, <2>2, <1>10 DEF BufferInv, Ownership
        <4> QED BY <4>1, <1>4, <1>5, <1>7
      <3> QED BY <3>1, <3>2
    <2>3. ASSUME NEW o1 \in Owners', NEW o2 \in Owners', o1 # o2, buf'[o1].data # Null
          PROVE  buf'[o1].data # buf'[o2].data
      <3>1. CASE buf'[o2].data = Null BY <3>1, <2>3
      <3>2. CASE buf'[o2].data # Null /\ o1 = b
        <4>1. o2 \in Owners /\ buf'[o2] = buf[o2] BY <3>2, <2>3, <1>4, <1>5, <1>7
        <4> QED BY <4>1, <3>2, <1>7, <1>9, <1>13
      <3>3. CASE buf'[o2].data # Null /\ o2 = b
        <4>1. o1 \in Owners /\ buf'[o1] = buf[o1] BY <3>3, <2>3, <1>4, <1>5, <1>7
        <4> QED BY <4>1, <3>3, <2>3, <1>7, <1>9, <1>13
      <3>4. CASE o1 # b /\ o2 # b
        <4>1. /\ o1 \in Owners /\ buf'[o1] = buf[o1]
              /\ o2 \in Owners /\ buf'[o2] = buf[o2]
          BY <3>4, <2>3, <1>4, <1>5, <1>7
        <4> QED BY <4>1, <2>3 DEF BufferInv, Ownership
      <3> QED BY <3>1, <3>2, <3>3, <3>4
    <2>4. ASSUME NEW o \in Owners'
          PROVE  /\ Shape(o, buf'[o])
                 /\ buf'[o].data # Null =>
                       heap'[buf'[o].data] = Extent(buf'[o]) /\ live'[buf'[o].data] = Alive(o)'
      <3>1. CASE o = b BY <3>1, <1>1, <1>6, <1>7, <1>9, <1>10, <1>14
      <3>2. CASE o # b
        <4>1. o \in Owners /\ buf'[o] = buf[o] BY <3>2, <2>4, <1>4, <1>5, <1>7
        <4> QED BY <4>1, <1>1, <1>10, <1>13 DEF BufferInv, Ownership
      <3> QED BY <3>1, <3>2
    <2> QED BY <2>1, <2>2, <2>3, <2>4 DEF Ownership
  <1> QED BY <1>11, <1>12, <1>15 DEF BufferInv

\* The destructor or an assignment begins to destroy what there is.
LEMMA BeginsToDestroy ==
    ASSUME BufferInv, call = Idle, NEW b \in exists, buf[b].data # Null,
           NEW f, f = Null \/ (f \in exists \ {b} /\ SameType(b, f)),
           call' = [op |-> "destroy", of |-> b, from |-> f, count |-> 0, next |-> 0],
           UNCHANGED <<exists, buf, heap, live>>
    PROVE  BufferInv'
  <1>1. Owners = exists /\ b \in Buffer /\ Owners \subseteq Buffer /\ Null \notin Buffer
    BY OwnersAre
  <1>2. Owners' = Owners BY <1>1 DEF Owners
  <1>3. Size(b)' = Count(buf[b]) /\ Count(buf[b]) \in Nat
    BY <1>1, MemoryFacts DEF Size, Count
  <1>4. Types'
    <2>1. f \in Buffer \cup {Null} BY <1>1
    <2>2. call' \in Calls BY <1>1, <2>1 DEF Calls
    <2> QED BY <2>2 DEF BufferInv, Types
  <1>5. InProgress' BY <1>1, <1>3 DEF InProgress
  <1>6. ASSUME NEW o \in Owners PROVE Alive(o)' = Alive(o)
    <2>1. call.of # o BY <1>1, <1>6 DEF Idle
    <2> QED BY <2>1 DEF Alive
  <1>7. Ownership' BY <1>2, <1>6 DEF BufferInv, Ownership
  <1> QED BY <1>4, <1>5, <1>7 DEF BufferInv

LEMMA DestroyStep == ASSUME BufferInv, NEW b, Destroy(b) PROVE BufferInv'
  <1>1. /\ call = Idle /\ b \in exists /\ UNCHANGED <<heap, live>>
        /\ b \in Buffer /\ Owners = exists /\ call.of = Null
    BY OwnersAre DEF Destroy, Idle
  <1>2. CASE buf[b].data = Null
    <2>1. exists' = exists \ {b} /\ buf' = [buf EXCEPT ![b] = Empty] /\ call' = call
      BY <1>2 DEF Destroy
    <2>2. Empty \in Members /\ Empty.data = Null /\ Count(Empty) = 0 BY DEF Empty, Members, Count
    <2>3. GivenBack(b, heap') BY <1>1, <1>2, NothingGivenBack
    <2> QED BY <1>1, <2>1, <2>2, <2>3, Empties
  <1>3. CASE buf[b].data # Null
    <2>1. call' = [op |-> "destroy", of |-> b, from |-> Null, count |-> 0, next |-> 0]
          /\ UNCHANGED <<exists, buf>>
      BY <1>3 DEF Destroy, Idle
    <2> QED BY <1>1, <1>3, <2>1, BeginsToDestroy
  <1> QED BY <1>2, <1>3

\* What a move leaves behind has no memory and, unless it is an array's, no size.
LEMMA Leftovers ==
    ASSUME Types, NEW f \in Buffer, NEW x \in {Assigned(f), LeftBehind(f)}
    PROVE  x \in Members /\ x.data = Null /\ (f \notin Arrays => Count(x) = 0)
  <1>1. buf[f] \in Members BY DEF Types
  <1>2. [buf[f] EXCEPT !.data = Null] \in Members /\ [buf[f] EXCEPT !.data = Null].data = Null
    BY <1>1 DEF Members
  <1>3. Empty \in Members /\ Empty.data = Null /\ Count(Empty) = 0 BY DEF Empty, Members, Count
  <1>4. LET x1 == [Empty EXCEPT !.stride = buf[f].stride]
        IN  x1 \in Members /\ x1.data = Null /\ Count(x1) = 0
    BY <1>1 DEF Empty, Members, Count
  <1>5. Assigned(f) = IF f \in Arrays THEN [buf[f] EXCEPT !.data = Null] ELSE Empty BY DEF Assigned
  <1>6. /\ f \in Elements => LeftBehind(f) = [Empty EXCEPT !.stride = buf[f].stride]
        /\ f \in Rows => LeftBehind(f) = Empty
        /\ f \in Arrays => LeftBehind(f) = [buf[f] EXCEPT !.data = Null]
    BY BufferAssumption DEF LeftBehind
  <1> QED BY <1>2, <1>3, <1>4, <1>5, <1>6 DEF Buffer

LEMMA MoveConstructStep ==
    ASSUME BufferInv, NEW b \in Buffer, NEW f \in Buffer, MoveConstruct(b, f)
    PROVE  BufferInv'
  <1>1. /\ call = Idle /\ b \notin exists /\ f \in exists /\ SameType(b, f)
        /\ exists' = exists \cup {b} /\ buf' = Steal(b, f, LeftBehind(f))
        /\ UNCHANGED <<heap, live, call>>
    BY DEF MoveConstruct
  <1>2. b \notin Owners /\ call.of = Null /\ b # f BY <1>1, OwnersAre DEF Idle
  <1>3. GivenBack(b, heap') BY <1>1, <1>2, NothingGivenBack
  <1>4. LET x == LeftBehind(f)
        IN  x \in Members /\ x.data = Null /\ (f \notin Arrays => Count(x) = 0)
    BY Leftovers DEF BufferInv
  <1> QED BY <1>1, <1>2, <1>3, <1>4, Steals

LEMMA MoveAssignStep ==
    ASSUME BufferInv, NEW b \in Buffer, NEW f \in Buffer, MoveAssign(b, f)
    PROVE  BufferInv'
  <1>1. /\ call = Idle /\ b \in exists /\ f \in exists /\ b # f /\ SameType(b, f)
        /\ UNCHANGED <<exists, heap, live>> /\ call.of = Null
    BY DEF MoveAssign, Idle
  <1>2. CASE buf[b].data = Null
    <2>1. buf' = Steal(b, f, Assigned(f)) /\ call' = Idle BY <1>1, <1>2 DEF MoveAssign
    <2>2. GivenBack(b, heap') BY <1>1, <1>2, NothingGivenBack
    <2>3. LET x == Assigned(f)
          IN  x \in Members /\ x.data = Null /\ (f \notin Arrays => Count(x) = 0)
      BY Leftovers DEF BufferInv
    <2>4. exists' = exists \cup {b} BY <1>1
    <2> QED BY <1>1, <2>1, <2>2, <2>3, <2>4, Steals
  <1>3. CASE buf[b].data # Null
    <2>1. call' = [op |-> "destroy", of |-> b, from |-> f, count |-> 0, next |-> 0]
          /\ UNCHANGED buf
      BY <1>3 DEF MoveAssign, Idle
    <2> QED BY <1>1, <1>3, <2>1, BeginsToDestroy
  <1> QED BY <1>2, <1>3

\* Nothing is alive any more in memory that is given back.
LEMMA DeallocateStep == ASSUME BufferInv, NEW b \in Buffer, Deallocate(b) PROVE BufferInv'
  <1>1. /\ call.op \in {"rollback", "destroy"} /\ call.of = b /\ call.next = ToDestroy(b)
        /\ heap' = [heap EXCEPT ![buf[b].data] = Free] /\ call' = Idle /\ UNCHANGED live
    BY DEF Deallocate
  <1>2. b \in Owners /\ buf[b].data # Null /\ live[buf[b].data] = {}
    BY <1>1, Destroys
  <1>3. buf[b].data \in Block BY <1>2, MemoryFacts
  <1>4. GivenBack(b, heap')
    BY <1>1, <1>2, <1>3 DEF GivenBack, BufferInv, Types
  <1>5. CASE call.from = Null
    <2>1. buf' = [buf EXCEPT ![b] = Empty] /\ exists' = exists \ {b} BY <1>5 DEF Deallocate
    <2>2. Empty \in Members /\ Empty.data = Null /\ Count(Empty) = 0 BY DEF Empty, Members, Count
    <2> QED BY <1>1, <1>4, <2>1, <2>2, Empties
  <1>6. CASE call.from # Null
    <2> DEFINE f == call.from
    <2>1. buf' = Steal(b, f, Assigned(f)) /\ exists' = exists BY <1>6 DEF Deallocate
    <2>2. f \in exists \ {b} /\ SameType(b, f) /\ b \in exists
      BY <1>1, <1>6 DEF BufferInv, InProgress
    <2>3. f \in Buffer BY <2>2 DEF BufferInv, Types
    <2>4. LET x == Assigned(f)
          IN  x \in Members /\ x.data = Null /\ (f \notin Arrays => Count(x) = 0)
      BY <2>3, Leftovers DEF BufferInv
    <2>5. exists' = exists \cup {b} BY <2>1, <2>2
    <2> HIDE DEF f
    <2> QED BY <1>1, <1>4, <2>1, <2>2, <2>4, <2>5, Steals
  <1> QED BY <1>5, <1>6

\* Every step keeps the invariant, as long as no element of an aligned_buffer throws: one
\* case per action.
LEMMA BufferNext == (Elements \cap Throwing = {}) /\ BufferInv /\ [Next]_vars => BufferInv'
  <1> SUFFICES ASSUME Elements \cap Throwing = {}, BufferInv, [Next]_vars PROVE BufferInv'
    OBVIOUS
  <1>1. CASE UNCHANGED vars
    <2>1. Types' BY <1>1 DEF vars, BufferInv, Types
    <2>2. InProgress' BY <1>1 DEF vars, BufferInv, InProgress, Size
    <2>3. Owners' = Owners BY <1>1 DEF vars, Owners
    <2>4. \A b : Alive(b)' = Alive(b) BY <1>1 DEF vars, Alive
    <2>5. Ownership' BY <1>1, <2>3, <2>4 DEF vars, BufferInv, Ownership
    <2> QED BY <2>1, <2>2, <2>5 DEF BufferInv
  <1>2. ASSUME NEW b \in Buffer, NEW r \in 0 .. MaxRows,
               NEW c \in (IF b \in Rows THEN 0 .. MaxCols ELSE {1})
        PROVE  /\ ConstructEmpty(b, r, c) => BufferInv'
               /\ \A k \in Block, n \in Garbage \cup {0} : Construct(b, r, c, k, n) => BufferInv'
    <2>1. r \in Nat /\ c \in Nat BY BufferAssumption
    <2>2. ConstructEmpty(b, r, c) => BufferInv' BY <2>1, ConstructEmptyStep
    <2>3. ASSUME NEW k \in Block, NEW n \in Garbage \cup {0}, Construct(b, r, c, k, n)
          PROVE  BufferInv'
      <3>1. b \notin Arrays /\ c > 0 /\ n = 0 /\ Allocate(b, r, c, k, n)
        BY <2>3, BufferAssumption DEF Construct
      <3> QED BY <3>1, <2>1, AllocateStep
    <2> QED BY <2>2, <2>3
  <1>3. ASSUME NEW b \in Buffer, NEW r \in 0 .. MaxRows, NEW k \in Block, ConstructArray(b, r, k)
        PROVE  BufferInv'
    <2>1. r \in Nat BY BufferAssumption
    <2> QED BY <2>1, <1>3, AllocateStep DEF ConstructArray
  <1>4. ASSUME NEW b \in Buffer, DefaultConstruct(b) PROVE BufferInv'
    BY <1>4, DefaultConstructStep
  <1>5. ASSUME NEW b \in Buffer, ElementThrows(b) PROVE BufferInv'
    BY <1>5, ElementThrowsStep
  <1>6. ASSUME NEW b \in Buffer, ConstructElement(b) PROVE BufferInv'
    BY <1>6, ConstructElementStep
  <1>7. ASSUME NEW b \in Buffer, Commit(b) PROVE BufferInv' BY <1>7, CommitStep
  <1>8. ASSUME NEW b \in Buffer, DestroyElement(b) PROVE BufferInv'
    BY <1>8, DestroyElementStep
  <1>9. ASSUME NEW b \in Buffer, Deallocate(b) PROVE BufferInv' BY <1>9, DeallocateStep
  <1>10. ASSUME NEW b \in Buffer, Destroy(b) PROVE BufferInv' BY <1>10, DestroyStep
  <1>11. ASSUME NEW b \in Buffer, NEW f \in Buffer, MoveConstruct(b, f) PROVE BufferInv'
    BY <1>11, MoveConstructStep
  <1>12. ASSUME NEW b \in Buffer, NEW f \in Buffer, MoveAssign(b, f) PROVE BufferInv'
    BY <1>12, MoveAssignStep
  <1> QED BY <1>1, <1>2, <1>3, <1>4, <1>5, <1>6, <1>7, <1>8, <1>9, <1>10, <1>11, <1>12
          DEF Next

LEMMA BufferInvariance ==
    ASSUME Elements \cap Throwing = {} PROVE Spec => []BufferInv
  <1>1. BufferInv /\ [Next]_vars => BufferInv' BY BufferNext
  <1> QED BY <1>1, BufferInit, PTL DEF Spec

----------------------------------------------------------------------------
(* What it implies.                                                        *)

\* Whenever the destructor, an assignment or a rollback is about to destroy an element,
\* there is one, and it has not been destroyed before.
THEOREM OnlyTheLivingAreDestroyed ==
    ASSUME Elements \cap Throwing = {}
    PROVE  Spec => []DestroysOnlyTheLiving
  <1>1. BufferInv => DestroysOnlyTheLiving
    <2> SUFFICES ASSUME BufferInv, call.op \in {"rollback", "destroy"},
                        call.next < ToDestroy(call.of)
                 PROVE  Offset(call.of, Doomed(call.of)) \in live[buf[call.of].data]
      BY DEF DestroysOnlyTheLiving
    <2> DEFINE b == call.of
    <2>1. /\ b \in Owners /\ buf[b].data # Null /\ live[buf[b].data] = Alive(b)
          /\ At(buf[b], Doomed(b)) \in Alive(b)
      BY Destroys
    <2>2. Offset(b, Doomed(b)) = At(buf[b], Doomed(b)) BY <2>1, MemoryFacts
    <2> QED BY <2>1, <2>2
  <1> QED BY <1>1, BufferInvariance, PTL

\* Multiples of the alignment stay so.
LEMMA AlignedMultiple ==
    ASSUME NEW d \in Nat \ {0}, NEW x \in Nat, x % d = 0, NEW r \in Nat
    PROVE  (r * x) % d = 0
  <1> DEFINE q == x \div d
  <1>1. q \in Nat /\ x = d * q
    <2>1. q \in Nat /\ x = d * q + (x % d) BY DivMod
    <2>2. d * q \in Nat BY <2>1
    <2> QED BY <2>1, <2>2
  <1> HIDE DEF q
  <1>2. r * x = d * (r * q) /\ r * q \in Nat BY <1>1
  <1>3. (d * (r * q)) % d = 0 BY <1>2, MultipleMod
  <1> QED BY <1>2, <1>3

\* Where a row begins.
LEMMA RowStart ==
    ASSUME NEW x \in Members, x.cols > 0, NEW r \in Nat
    PROVE  At(x, r * x.cols) = r * x.stride
  <1> DEFINE c == x.cols
             u == (r * c) \div c
  <1>1. c \in Nat \ {0} /\ x.stride \in Nat /\ SizeOf \in Nat BY BufferAssumption DEF Members
  <1> HIDE DEF c
  <1>2. r * c \in Nat /\ r * c = c * r BY <1>1
  <1>3. (r * c) % c = 0
    <2>1. (c * r) % c = 0 BY <1>1, MultipleMod
    <2> QED BY <2>1, <1>2
  <1>4. u \in Nat /\ r * c = c * u + ((r * c) % c) BY <1>1, <1>2, DivMod
  <1>5. c * u = c * r BY <1>1, <1>2, <1>3, <1>4
  <1> HIDE DEF u
  <1>6. u = r
    <2>1. ASSUME NEW m \in Nat, NEW n \in Nat, m + 1 <= n PROVE c * m < c * n
      <3>1. c * (m + 1) <= c * n BY <2>1, <1>1, TimesMono
      <3>2. c * (m + 1) = c * m + c /\ c * m \in Nat /\ c * n \in Nat BY <1>1
      <3> QED BY <3>1, <3>2, <1>1
    <2>2. c * u \in Nat BY <1>1, <1>4
    <2>3. ~(u + 1 <= r) /\ ~(r + 1 <= u) BY <2>1, <2>2, <1>4, <1>5
    <2> QED BY <2>3, <1>4
  <1>7. At(x, r * c) = u * x.stride + ((r * c) % c) * SizeOf BY DEF At, u, c
  <1>8. 0 * SizeOf = 0 /\ r * x.stride \in Nat BY <1>1
  <1> QED BY <1>3, <1>6, <1>7, <1>8 DEF c

\* A buffer that exists has all its elements, within its memory, apart from each other and
\* with aligned rows, or it has neither elements nor memory.
THEOREM BuffersStayWhole ==
    ASSUME Elements \cap Throwing = {}
    PROVE  Spec => []BuffersAreWhole
  <1>1. BufferInv => BuffersAreWhole
    <2> SUFFICES ASSUME BufferInv, NEW b \in exists
                 PROVE  IF buf[b].data = Null
                        THEN b \notin Arrays => Size(b) = 0
                        ELSE call.of # b =>
                             LET here == live[buf[b].data]
                             IN  /\ here = { Offset(b, k) : k \in 0 .. Size(b)-1 }
                                 /\ b \notin Arrays => \A r \in 0 .. buf[b].rows-1 :
                                        Offset(b, r * buf[b].cols) % Alignment = 0
                                 /\ \A o \in here : o + SizeOf <= heap[buf[b].data]
                                 /\ \A o, p \in here : o < p => o + SizeOf <= p
      BY DEF BuffersAreWhole
    <2> DEFINE x == buf[b]
               here == live[x.data]
    <2>1. b \in Owners /\ x \in Members /\ Shape(b, x) BY OwnersAre DEF Owners, BufferInv, Ownership
    <2>2. CASE x.data = Null
      <3>1. b \notin Arrays => Size(b) = 0 BY <2>1, <2>2 DEF Shape, Size, Count
      <3> QED BY <3>1, <2>2
    <2>3. CASE x.data # Null /\ call.of # b
      <3>1. /\ Size(b) = Count(x) /\ Count(x) \in Nat /\ Extent(x) \in Nat
            /\ \A k : Offset(b, k) = At(x, k)
        BY <2>1, <2>3, MemoryFacts
      <3>2. heap[x.data] = Extent(x) /\ here = Fill(x, 0, Count(x))
        BY <2>1, <2>3 DEF BufferInv, Ownership, Alive
      <3>3. here = { Offset(b, k) : k \in 0 .. Size(b)-1 } BY <3>1, <3>2 DEF Fill
      <3>4. ASSUME b \notin Arrays, NEW r \in 0 .. x.rows-1
            PROVE  Offset(b, r * x.cols) % Alignment = 0
        <4>1. x.cols > 0 /\ x.stride % Alignment = 0 BY <2>1, <2>3, <3>4 DEF Shape
        <4>2. r \in Nat /\ x.stride \in Nat /\ Alignment \in Nat \ {0}
          BY <2>1, <3>4, BufferAssumption DEF Members
        <4>3. At(x, r * x.cols) = r * x.stride BY <2>1, <4>1, <4>2, RowStart
        <4>4. (r * x.stride) % Alignment = 0 BY <4>1, <4>2, AlignedMultiple
        <4>5. Offset(b, r * x.cols) = r * x.stride BY <3>1, <4>3
        <4> QED BY <4>4, <4>5
      <3> HIDE DEF x, here
      <3>5. ASSUME NEW o \in here PROVE o + SizeOf <= heap[x.data]
        <4>1. PICK k \in 0 .. Count(x)-1 : o = At(x, k) BY <3>2 DEF Fill
        <4> QED BY <4>1, <2>1, <2>3, <3>2, AtFacts
      <3>6. ASSUME NEW o \in here, NEW p \in here, o < p PROVE o + SizeOf <= p
        <4>1. PICK k \in 0 .. Count(x)-1 : o = At(x, k) BY <3>2 DEF Fill
        <4>2. PICK l \in 0 .. Count(x)-1 : p = At(x, l) BY <3>2 DEF Fill
        <4>3. o \in Nat /\ p \in Nat /\ SizeOf \in Nat BY <4>1, <4>2, <2>1, <2>3, AtFacts, BufferAssumption
        <4>4. CASE k < l BY <4>1, <4>2, <4>4, <3>1, <2>1, <2>3, AtFacts
        <4>5. CASE l < k
          <5>1. At(x, l) + SizeOf <= At(x, k)  BY <4>5, <3>1, <2>1, <2>3, AtFacts
          <5> QED BY <5>1, <4>1, <4>2, <4>3, <3>6
        <4>6. CASE k = l BY <4>1, <4>2, <4>3, <4>6, <3>6
        <4> QED BY <4>4, <4>5, <4>6, <3>1
      <3> QED BY <2>3, <3>3, <3>4, <3>5, <3>6 DEF x, here
    <2> QED BY <2>2, <2>3
  <1> QED BY <1>1, BufferInvariance, PTL

\* What is alive is within the memory of the buffer, also while it is being made or unmade.
LEMMA AliveInside ==
    ASSUME BufferInv, NEW b \in Owners, buf[b].data # Null
    PROVE  Alive(b) \subseteq 0 .. Extent(buf[b])-1
  <1> DEFINE x == buf[b]
  <1>1. x \in Members /\ Shape(b, x) BY OwnersAre DEF BufferInv, Ownership
  <1>2. Count(x) \in Nat /\ Extent(x) \in Nat /\ Size(b) = Count(x) BY MemoryFacts
  <1>3. ASSUME NEW m \in Nat, NEW n \in Int, n <= Count(x) PROVE Fill(x, m, n) \subseteq 0 .. Extent(x)-1
    <2> SUFFICES ASSUME NEW k \in m .. n-1 PROVE At(x, k) \in 0 .. Extent(x)-1 BY DEF Fill
    <2>1. k \in 0 .. Count(x)-1 BY <1>2, <1>3
    <2>2. At(x, k) \in Nat /\ At(x, k) + SizeOf <= Extent(x) BY <1>1, <2>1, AtFacts
    <2>3. SizeOf \in Nat \ {0} BY BufferAssumption
    <2> QED BY <2>2, <2>3, <1>2
  <1>4. call.next \in Nat /\ call.count \in Nat BY DEF BufferInv, Types, Calls
  <1>5. CASE call.of # b BY <1>2, <1>3, <1>5 DEF Alive
  <1>6. CASE call.of = b
    <2>1. b # Null /\ call.op # "idle" BY <1>6, OwnersAre
    <2>2. call.op \in {"construct", "rollback", "destroy"} BY <2>1 DEF BufferInv, Types, Calls
    <2>3. /\ call.op = "construct" => call.next <= Count(x)
          /\ call.op = "rollback" => call.count <= Count(x)
      BY <1>2, <1>6 DEF BufferInv, InProgress
    <2> HIDE DEF x
    <2>4. CASE call.op = "construct"
      <3>1. Alive(b) = Fill(x, 0, call.next) BY <2>4, <1>6 DEF Alive, x
      <3> QED BY <3>1, <2>3, <2>4, <1>3, <1>4 DEF x
    <2>5. CASE call.op = "destroy"
      <3>1. Alive(b) = Fill(x, call.next, Count(x)) BY <2>5, <1>6 DEF Alive, x
      <3> QED BY <3>1, <1>2, <1>3, <1>4 DEF x
    <2>6. CASE call.op = "rollback" /\ b \in Arrays
      <3>1. Alive(b) = Fill(x, 0, call.count - call.next) BY <2>6, <1>6 DEF Alive, x
      <3>2. call.count - call.next \in Int /\ call.count - call.next <= Count(x)
        BY <2>3, <2>6, <1>2, <1>4
      <3> QED BY <3>1, <3>2, <1>3 DEF x
    <2>7. CASE call.op = "rollback" /\ b \notin Arrays
      <3>1. Alive(b) = Fill(x, call.next, call.count) BY <2>7, <1>6 DEF Alive, x
      <3> QED BY <3>1, <2>3, <2>7, <1>3, <1>4 DEF x
    <2> QED BY <2>2, <2>4, <2>5, <2>6, <2>7
  <1> QED BY <1>5, <1>6

\* Memory has one owner until it is returned, with the size it was allocated with and no
\* element left in it; no exception leaks any.
THEOREM MemoryIsSafe ==
    ASSUME Elements \cap Throwing = {}
    PROVE  Spec => []MemoryIsReturned
  <1>1. BufferInv => MemoryIsReturned
    <2> SUFFICES ASSUME BufferInv PROVE MemoryIsReturned OBVIOUS
    <2>1. \A k \in Block : heap[k] = Free => live[k] = {} BY DEF BufferInv, Ownership
    <2>2. \A k \in Block : heap[k] # Free => \E b \in Owners : buf[b].data = k
      BY DEF BufferInv, Ownership
    <2>3. \A b1, b2 \in Owners : b1 # b2 /\ buf[b1].data # Null => buf[b1].data # buf[b2].data
      BY DEF BufferInv, Ownership
    <2>4. ASSUME NEW b \in Owners, buf[b].data # Null PROVE heap[buf[b].data] = NumBytes(b)
      BY <2>4, MemoryFacts DEF BufferInv, Ownership
    <2>5. ASSUME NEW k \in Block PROVE live[k] \subseteq 0 .. heap[k]-1
      <3>1. CASE heap[k] = Free BY <3>1, <2>1
      <3>2. CASE heap[k] # Free
        <4>1. PICK b \in Owners : buf[b].data = k BY <3>2, <2>2
        <4>2. k # Null BY OwnersAre
        <4>3. heap[k] = Extent(buf[b]) /\ live[k] = Alive(b)
          BY <4>1, <4>2 DEF BufferInv, Ownership
        <4> QED BY <4>1, <4>2, <4>3, AliveInside
      <3> QED BY <3>1, <3>2
    <2> QED BY <2>1, <2>2, <2>3, <2>4, <2>5 DEF MemoryIsReturned, Owners
  <1> QED BY <1>1, BufferInvariance, PTL

===============================================================================
