------------------------- MODULE SessionBreakpoints -------------------------
(***************************************************************************)
(* The breakpoints of a session: that the execution stops at the lines the *)
(* client last asked for, whenever it comes there anew.  The debugger      *)
(* tells by what the user would see whether it has stopped there before;   *)
(* the theorem rests on what a stack trace tells.                          *)
(***************************************************************************)
EXTENDS SessionSteps

----------------------------------------------------------------------------
(* What a stack trace shows. *)

LEMMA Bases ==
  ASSUME NEW path \in Seq(Statement)
  PROVE  /\ Base(path, 1) = 0
         /\ \A i \in 1..(Len(path) + 1) : Base(path, i) \in Nat
         /\ \A i \in 1..Len(path) :
              Base(path, i + 1) = Base(path, i) + Len(FrameLocations(path[i]))
         /\ \A i \in 1..(Len(path) + 1) : Base(path, i) <= Base(path, Len(path) + 1)
<1> DEFINE n == Len(path)
<1>0. n \in Nat
  OBVIOUS
<1>1. Base(path, 1) = 0
  <2>1. PathFrames(path, 0) = {} /\ 1 - 1 = 0
    BY DEF PathFrames
  <2>2. QED
    BY <2>1, FS_EmptySet DEF Base
<1>2. ASSUME NEW i \in 1..(n + 1)
      PROVE  Base(path, i) \in Nat
  <2>1. i - 1 \in Nat /\ i - 1 <= Len(path)
    BY <1>0
  <2>2. QED
    BY <2>1, PathFramesFinite DEF Base
<1>3. ASSUME NEW i \in 1..n
      PROVE  Base(path, i + 1) = Base(path, i) + Len(FrameLocations(path[i]))
  <2> DEFINE k == i - 1
  <2>1. k \in Nat /\ k + 1 <= Len(path) /\ i = k + 1 /\ (i + 1) - 1 = k + 1
    BY <1>0
  <2> HIDE DEF k
  <2>2. Cardinality(PathFrames(path, k + 1)) =
          Cardinality(PathFrames(path, k)) + Len(FrameLocations(path[k + 1]))
    BY <2>1, PathFramesGrow
  <2>3. QED
    BY <2>1, <2>2 DEF Base, k
<1>4. ASSUME NEW i \in 1..(n + 1)
      PROVE  Base(path, i) <= Base(path, n + 1)
  <2>1. IsFiniteSet(PathFrames(path, n)) /\ (n + 1) - 1 = n
    BY <1>0, PathFramesFinite
  <2>2. 1..(i - 1) \subseteq 1..n
    BY <1>0
  <2>3. PathFrames(path, i - 1) \subseteq PathFrames(path, n)
    BY <2>2 DEF PathFrames
  <2>4. Cardinality(PathFrames(path, i - 1)) <= Cardinality(PathFrames(path, n))
    BY <2>1, <2>3, FS_Subset
  <2>5. QED
    BY <2>1, <2>4 DEF Base
<1>5. QED
  BY <1>1, <1>2, <1>3, <1>4

(* Behind the frames of a call there are those of what it called.          *)
LEMMA NextStart ==
  ASSUME NEW path \in Seq(Statement), NEW stack_trace, Len(stack_trace) \in Nat,
         Shows(stack_trace, path), NEW i \in 1..(Len(path) + 1)
  PROVE  /\ Base(path, i) \in Nat /\ Base(path, i) + 1 <= Len(stack_trace)
         /\ stack_trace[Base(path, i) + 1].id = MIN_OBJECT_REFERENCE + 2 * Base(path, i)
<1> DEFINE b == Base(path, i)
           e == Base(path, Len(path) + 1)
<1>1. b \in Nat /\ e \in Nat /\ b <= e /\ e < Len(stack_trace)
  BY Bases DEF Shows
<1>2. CASE i = Len(path) + 1
  <2>1. e + 1 \in (e + 1)..Len(stack_trace)
    BY <1>1
  <2>2. QED
    BY <1>1, <1>2, <2>1 DEF Shows
<1>3. CASE i \in DOMAIN path
  <2>1. path[i] \in Statement
    BY <1>3
  <2>2. 1 \in DOMAIN FrameLocations(path[i])
    BY <2>1, LengthOfFrames
  <2>3. stack_trace[b + 1] = [id |-> MIN_OBJECT_REFERENCE + 2 * b, at |-> FrameLocations(path[i])[1]]
    BY <1>3, <2>2 DEF Shows
  <2>4. stack_trace[b + 1].id = MIN_OBJECT_REFERENCE + 2 * b
    BY <2>3
  <2>5. QED
    BY <1>1, <2>4
<1>4. QED
  BY <1>2, <1>3

(* Of two calls shown at one place of a trace none has more frames, nor is *)
(* one of them shown where the other path has ended.                       *)
LEMMA NoLongerSubStack ==
  ASSUME NEW p \in Seq(Statement), NEW q \in Seq(Statement),
         NEW stack_trace, Len(stack_trace) \in Nat,
         Shows(stack_trace, p), Shows(stack_trace, q),
         NEW i \in 1..Len(p), i <= Len(q) + 1, Base(p, i) = Base(q, i)
  PROVE  i <= Len(q) /\ Len(FrameLocations(q[i])) <= Len(FrameLocations(p[i]))
<1> DEFINE b == Base(p, i)
           m == Len(FrameLocations(p[i]))
<1>1. p[i] \in Statement /\ m \in Nat \ {0}
  BY LengthOfFrames
<1>2. /\ b \in Nat /\ Base(p, i + 1) = b + m
      /\ b + m + 1 <= Len(stack_trace)
      /\ stack_trace[b + m + 1].id = MIN_OBJECT_REFERENCE + 2 * (b + m)
  <2>1. Base(p, i + 1) = b + m
    BY Bases
  <2>2. i + 1 \in 1..(Len(p) + 1) /\ i \in 1..(Len(p) + 1)
    OBVIOUS
  <2>3. b \in Nat
    BY <2>2, Bases
  <2>4. /\ Base(p, i + 1) + 1 <= Len(stack_trace)
        /\ stack_trace[Base(p, i + 1) + 1].id = MIN_OBJECT_REFERENCE + 2 * Base(p, i + 1)
    BY <2>2, NextStart
  <2>5. QED
    BY <2>1, <2>3, <2>4
<1>3. stack_trace[b + m + 1].id # MIN_OBJECT_REFERENCE + 2 * b
  BY <1>1, <1>2 DEF MIN_OBJECT_REFERENCE
<1> HIDE DEF b, m
<1>4. i <= Len(q)
  <2>1. SUFFICES ASSUME i = Len(q) + 1 PROVE FALSE
    OBVIOUS
  <2>2. \A k \in b + 1..Len(stack_trace) : stack_trace[k].id = MIN_OBJECT_REFERENCE + 2 * b
    BY <2>1 DEF Shows, b
  <2>3. QED
    BY <1>1, <1>2, <1>3, <2>2
<1>5. Len(FrameLocations(q[i])) <= m
  <2>1. q[i] \in Statement /\ i \in DOMAIN q
    BY <1>4
  <2>2. PICK k \in Nat : k = Len(FrameLocations(q[i])) /\ DOMAIN FrameLocations(q[i]) = 1..k
    BY <2>1, LengthOfFrames
  <2>3. SUFFICES ASSUME k > m PROVE FALSE
    BY <1>1, <2>2
  <2>4. m + 1 \in DOMAIN FrameLocations(q[i])
    BY <1>1, <2>2, <2>3
  <2>5. stack_trace[b + (m + 1)] =
          [id |-> MIN_OBJECT_REFERENCE + 2 * b, at |-> FrameLocations(q[i])[m + 1]]
    BY <2>1, <2>4 DEF Shows, b
  <2>6. QED
    BY <1>1, <1>2, <1>3, <2>5, b + (m + 1) = b + m + 1
<1>6. QED
  BY <1>4, <1>5 DEF m

LEMMA SameSubStack ==
  ASSUME NEW p \in Seq(Statement), NEW q \in Seq(Statement),
         NEW stack_trace, Len(stack_trace) \in Nat,
         Shows(stack_trace, p), Shows(stack_trace, q),
         NEW i \in 1..Len(p), i <= Len(q) + 1, Base(p, i) = Base(q, i)
  PROVE  i <= Len(q) /\ FrameLocations(p[i]) = FrameLocations(q[i])
<1>1. i <= Len(q) /\ i \in 1..Len(q) /\ i <= Len(p) + 1
  BY NoLongerSubStack
<1>2. p[i] \in Statement /\ q[i] \in Statement /\ i \in DOMAIN p /\ i \in DOMAIN q
  BY <1>1
<1> DEFINE f == FrameLocations(p[i])
           g == FrameLocations(q[i])
<1>3. /\ f \in Seq(FramePlace) /\ g \in Seq(FramePlace)
      /\ Len(f) \in Nat /\ Len(g) \in Nat /\ DOMAIN f = 1..Len(f) /\ DOMAIN g = 1..Len(g)
  BY <1>2, FrameLocationsType, LengthOfFrames
<1>4. Len(f) = Len(g)
  <2>1. Len(g) <= Len(f)
    BY NoLongerSubStack
  <2>2. Len(f) <= Len(g)
    BY <1>1, NoLongerSubStack
  <2>3. QED
    BY <1>3, <2>1, <2>2
<1>5. ASSUME NEW k \in 1..Len(f) PROVE f[k] = g[k]
  <2> DEFINE entry(l) == [id |-> MIN_OBJECT_REFERENCE + 2 * Base(p, i), at |-> l]
  <2>1. stack_trace[Base(p, i) + k] = entry(f[k]) /\ stack_trace[Base(p, i) + k] = entry(g[k])
    BY <1>2, <1>3, <1>4 DEF Shows
  <2>2. entry(f[k]).at = f[k] /\ entry(g[k]).at = g[k]
    OBVIOUS
  <2>3. QED
    BY <2>1, <2>2
<1> HIDE DEF f, g
<1>6. f = g
  BY <1>3, <1>4, <1>5
<1>7. QED
  BY <1>1, <1>6 DEF f, g

(* A trace shows the locations of one path only.                           *)
LEMMA SameShape ==
  ASSUME NEW p \in Seq(Statement), NEW q \in Seq(Statement),
         NEW stack_trace, Len(stack_trace) \in Nat,
         Shows(stack_trace, p), Shows(stack_trace, q)
  PROVE  /\ Len(p) = Len(q)
         /\ \A i \in 1..Len(p) : FrameLocations(p[i]) = FrameLocations(q[i])
<1> DEFINE Same(i) == i <= Len(p) /\ i <= Len(q) /\ Base(p, i) = Base(q, i)
                        /\ FrameLocations(p[i]) = FrameLocations(q[i])
           Bad == {i \in Nat : i >= 1 /\ (i <= Len(p) \/ i <= Len(q)) /\ ~ Same(i)}
<1>1. Bad = {}
  <2>1. SUFFICES ASSUME NEW k \in Bad PROVE FALSE
    OBVIOUS
  <2>2. PICK i \in Bad : \A j \in Bad : i <= j
    <3>1. Bad \in SUBSET Nat
      OBVIOUS
    <3> HIDE DEF Bad
    <3>2. QED
      BY <2>1, <3>1, LeastElement
  <2>3. Len(p) \in Nat /\ Len(q) \in Nat /\ i \in Nat /\ i >= 1
    OBVIOUS
  <2>4. i <= Len(p) + 1 /\ i <= Len(q) + 1 /\ Base(p, i) = Base(q, i)
    <3>1. CASE i = 1
      BY <2>3, <3>1, Bases
    <3>2. CASE i > 1
      <4> DEFINE j == i - 1
      <4>1. j \in Nat /\ j >= 1 /\ j < i /\ i = j + 1
        BY <2>3, <3>2
      <4>2. j <= Len(p) \/ j <= Len(q)
        BY <2>3, <4>1
      <4>3. Same(j)
        BY <2>2, <2>3, <4>1, <4>2
      <4>4. Base(p, j + 1) = Base(p, j) + Len(FrameLocations(p[j]))
        BY <4>1, <4>3, Bases
      <4>5. Base(q, j + 1) = Base(q, j) + Len(FrameLocations(q[j]))
        BY <4>1, <4>3, Bases
      <4>6. QED
        BY <2>3, <4>1, <4>3, <4>4, <4>5
    <3>3. QED
      BY <2>3, <3>1, <3>2
  <2>5. CASE i <= Len(p)
    <3>1. i \in 1..Len(p)
      BY <2>3, <2>5
    <3>2. Same(i)
      BY <2>4, <3>1, SameSubStack
    <3>3. QED
      BY <3>2
  <2>6. CASE i <= Len(q)
    <3>1. i \in 1..Len(q)
      BY <2>3, <2>6
    <3>2. Same(i)
      BY <2>4, <3>1, SameSubStack
    <3>3. QED
      BY <3>2
  <2>7. QED
    BY <2>5, <2>6
<1>2. \A i \in Nat : i >= 1 /\ (i <= Len(p) \/ i <= Len(q)) => Same(i)
  BY <1>1
<1>3. Len(p) = Len(q)
  <2>1. Len(p) \in Nat /\ Len(q) \in Nat
    OBVIOUS
  <2>2. Len(p) >= 1 => Len(p) <= Len(q)
    BY <1>2, <2>1
  <2>3. Len(q) >= 1 => Len(q) <= Len(p)
    BY <1>2, <2>1
  <2>4. QED
    BY <2>1, <2>2, <2>3
<1>4. QED
  BY <1>2, <1>3

(* In a program whose calls can be told apart a stack trace shows one path *)
(* of calls: the user who sees the same frames is in the same activation.  *)
LEMMA ShownPathIsUnique ==
  ASSUME CallsToldApart, NEW p, NEW q, IsCallPath(p), IsCallPath(q),
         NEW stack_trace, Len(stack_trace) \in Nat,
         Shows(stack_trace, p), Shows(stack_trace, q)
  PROVE  p = q
<1>1. p \in Seq(Statement) /\ q \in Seq(Statement)
  BY DEF IsCallPath
<1>2. /\ Len(p) = Len(q) /\ Len(p) \in Nat
      /\ \A i \in 1..Len(p) : FrameLocations(p[i]) = FrameLocations(q[i])
  BY <1>1, SameShape
<1> DEFINE Bad == {i \in Nat : i \in 1..Len(p) /\ p[i] # q[i]}
<1>3. Bad = {}
  <2>1. SUFFICES ASSUME NEW k \in Bad PROVE FALSE
    OBVIOUS
  <2>2. PICK i \in Bad : \A j \in Bad : i <= j
    <3>1. Bad \in SUBSET Nat
      OBVIOUS
    <3> HIDE DEF Bad
    <3>2. QED
      BY <2>1, <3>1, LeastElement
  <2>3. i \in 1..Len(p) /\ i \in DOMAIN p /\ i \in DOMAIN q
    BY <1>1, <1>2
  <2>4. sierra_function_for_statement(p[i]) = sierra_function_for_statement(q[i])
    <3>1. CASE i = 1
      BY <2>3, <3>1 DEF IsCallPath
    <3>2. CASE i # 1
      <4>1. i - 1 \in 1..Len(p) /\ i - 1 \in Nat /\ i - 1 < i
        BY <1>2, <2>3, <3>2
      <4>2. p[i - 1] = q[i - 1]
        BY <2>2, <4>1
      <4>3. QED
        BY <2>3, <3>2, <4>2 DEF IsCallPath
    <3>3. QED
      BY <3>1, <3>2
  <2>5. p[i] \in Statement /\ q[i] \in Statement
    BY <1>1, <2>3
  <2>6. is_function_call_statement(p[i]) /\ is_function_call_statement(q[i])
    BY <2>3 DEF IsCallPath
  <2>7. p[i] = q[i]
    BY <1>2, <2>3, <2>4, <2>5, <2>6 DEF CallsToldApart
  <2>8. QED
    BY <2>7
<1>4. \A i \in 1..Len(p) : p[i] = q[i]
  BY <1>2, <1>3
<1>5. QED
  BY <1>1, <1>2, <1>4

----------------------------------------------------------------------------
(* The path the VM is on. *)

LEMMA Within ==
  ASSUME NEW S, NEW q \in Seq(S), NEW b \in Nat, NEW m \in Nat, b + m <= Len(q),
         NEW k \in 1..m
  PROVE  SubSeq(q, b + 1, b + m)[k] = q[b + k]
  OBVIOUS

LEMMA SubStackLocations ==
  ASSUME NEW s \in Statement, NEW id \in Nat, NEW variables,
         NEW k \in DOMAIN FrameLocations(s)
  PROVE  /\ SubStack(s, id, variables)[k].id = id
         /\ SubStack(s, id, variables)[k].at = FrameLocations(s)[k]
<1> DEFINE built == build_stack_frames(s, id)
<1>1. built = [i \in DOMAIN FrameLocations(s) |-> [id |-> id, at |-> FrameLocations(s)[i]]]
  BY DEF build_stack_frames
<1>2. k \in DOMAIN built /\ built[k].at = FrameLocations(s)[k]
  BY <1>1
<1> HIDE DEF built
<1>3. SubStack(s, id, variables) =
        [i \in DOMAIN built |-> [id |-> id, at |-> built[i].at,
           vars |-> IF i = Len(built) THEN variables ELSE NoVariables]]
  BY DEF SubStack, built
<1>4. QED
  BY <1>2, <1>3

LEMMA VmPathIsCallPath ==
  ASSUME TypeInv, CallsChain, StartsInMain
  PROVE  IsCallPath(VmPath)
<1>1. VmTypeOK /\ Len(rets) \in Nat /\ DOMAIN rets = 1..Len(rets)
  BY DEF TypeInv, TypeOK, VmTypeOK
<1>2. /\ VmPath \in Seq(Statement) /\ DOMAIN VmPath = 1..Len(rets)
      /\ \A i \in 1..Len(rets) : VmPath[i] = rets[i].call
  BY <1>1, VmPathType
<1>3. ASSUME NEW i \in 1..Len(rets)
      PROVE  /\ is_function_call_statement(VmPath[i])
             /\ sierra_function_for_statement(VmPath[i]) =
                  IF i = 1 THEN Main ELSE Callee[VmPath[i - 1]]
  <2>1. is_function_call_statement(VmPath[i])
    BY <1>1, <1>2 DEF TypeInv, CallsSuspended
  <2>2. CASE i = 1
    <3>1. rets # << >>
      BY <1>1
    <3>2. QED
      BY <1>2, <2>1, <2>2, <3>1 DEF StartsInMain
  <2>3. CASE i # 1
    <3>1. i > 1 /\ i - 1 \in 1..Len(rets)
      BY <1>1, <2>3
    <3>2. QED
      BY <1>1, <1>2, <2>1, <2>3, <3>1 DEF CallsChain
  <2>4. QED
    BY <2>2, <2>3
<1>4. QED
  BY <1>2, <1>3 DEF IsCallPath

(* The frames of the suspended activations, then those of the current one. *)
LEMMA StackTraceShape ==
  ASSUME TypeOK, NEW s \in Statement
  PROVE  LET stack_trace == get_frames(s)
         IN  /\ Len(stack_trace) \in Nat
             /\ Len(stack_trace) = Len(frames) + Len(FrameLocations(s))
             /\ \A k \in 1..Len(frames) :
                  stack_trace[k] = [id |-> frames[k].id, at |-> frames[k].at]
             /\ \A k \in Len(frames) + 1..Len(stack_trace) :
                  stack_trace[k].id = MIN_OBJECT_REFERENCE + 2 * Len(frames)
<1> DEFINE n == Len(frames)
           m == Len(FrameLocations(s))
           Frame == [id : Nat, at : FramePlace]
           below == [k \in 1..n |-> [id |-> frames[k].id, at |-> frames[k].at]]
           top == build_stack_frames(s, next_frame_id)
           stack_trace == below \o top
<1>1. n \in Nat /\ frames \in Seq(FrameType)
  BY DEF TypeOK
<1>2. m \in Nat \ {0} /\ DOMAIN FrameLocations(s) = 1..m /\ FrameLocations(s) \in Seq(FramePlace)
  BY LengthOfFrames, FrameLocationsType
<1>3. next_frame_id \in Nat /\ next_frame_id = MIN_OBJECT_REFERENCE + 2 * n
  BY <1>1 DEF next_frame_id, flat_length, MIN_OBJECT_REFERENCE
<1>4. below \in Seq(Frame) /\ Len(below) = n
  <2>1. \A k \in 1..n : frames[k] \in FrameType
    BY <1>1
  <2>2. \A k \in 1..n : below[k] \in Frame
    BY <2>1 DEF FrameType
  <2>3. QED
    BY <1>1, <2>2
<1>5. /\ top \in Seq(Frame) /\ Len(top) = m
      /\ \A k \in 1..m : top[k].id = next_frame_id
  <2>1. top = [k \in 1..m |-> [id |-> next_frame_id, at |-> FrameLocations(s)[k]]]
    BY <1>2 DEF build_stack_frames
  <2>2. \A k \in 1..m : FrameLocations(s)[k] \in FramePlace
    BY <1>2
  <2> HIDE DEF m, top
  <2>3. \A k \in 1..m : top[k] \in Frame /\ top[k].id = next_frame_id
    BY <1>3, <2>1, <2>2
  <2>4. top \in [1..m -> Frame] /\ m \in Nat
    BY <1>2, <2>1, <2>3
  <2> HIDE DEF Frame
  <2>5. top \in Seq(Frame) /\ Len(top) = m
    BY <2>4
  <2>6. QED
    BY <2>3, <2>5
<1>6. get_frames(s) = stack_trace
  BY DEF get_frames, flat_length
<1>7. \A k \in 1..n : below[k] = [id |-> frames[k].id, at |-> frames[k].at]
  OBVIOUS
<1> HIDE DEF below, top, n, m, Frame
<1>8. /\ stack_trace \in Seq(Frame) /\ Len(stack_trace) = n + m
      /\ \A k \in 1..(n + m) : stack_trace[k] = IF k <= n THEN below[k] ELSE top[k - n]
  BY <1>4, <1>5, ConcatProperties
<1>9. \A k \in n + 1..n + m : k - n \in 1..m /\ ~ k <= n /\ k \in 1..n + m
  BY <1>1, <1>2 DEF n
<1>10. QED
  BY <1>1, <1>2, <1>3, <1>5, <1>6, <1>7, <1>8, <1>9 DEF n, m

(* At a stop the stack trace shows the path the VM is on.                  *)
LEMMA StackTraceShowsPath ==
  ASSUME IInv, FramesCounted, phase = "handle"
  PROVE  Shows(get_frames(current_statement_idx), VmPath)
<1> DEFINE stack_trace == get_frames(current_statement_idx)
           n == Len(rets)
<1>1. /\ TypeInv /\ TypeOK /\ VmTypeOK /\ n \in Nat /\ DOMAIN rets = 1..n
      /\ contexts \in Seq(ContextEntry) /\ DOMAIN contexts = 1..Len(contexts)
      /\ frames \in Seq(FrameType) /\ Len(frames) \in Nat
  BY DEF IInv, TypeInv, TypeOK, VmTypeOK
<1>2. Len(contexts) = n /\ current_statement_idx \in Statement
  BY <1>1, DepthAgrees, StatementNumbers DEF IInv, StackInv, PhaseInv, SameDepth
<1>3. /\ Len(stack_trace) = Len(frames) + Len(FrameLocations(current_statement_idx))
      /\ \A k \in 1..Len(frames) :
           stack_trace[k] = [id |-> frames[k].id, at |-> frames[k].at]
      /\ \A k \in Len(frames) + 1..Len(stack_trace) :
           stack_trace[k].id = MIN_OBJECT_REFERENCE + 2 * Len(frames)
  BY <1>1, <1>2, StackTraceShape
<1>4. /\ VmPath \in Seq(Statement) /\ Len(VmPath) = n /\ DOMAIN VmPath = 1..n
      /\ \A i \in 1..n : VmPath[i] = rets[i].call
  BY <1>1, VmPathType
<1>5. Base(VmPath, n + 1) = Len(frames)
  <2>1. n \in 0..n /\ (n + 1) - 1 = n
    BY <1>1
  <2>2. Base(VmPath, n + 1) = Cardinality(VmFrames(n))
    BY <1>1, <2>1, VmPathType DEF Base
  <2>3. QED
    BY <1>1, <1>2, <2>2 DEF FramesCounted
<1>6. \A i \in 1..n : Base(VmPath, i) = contexts[i].base
  <2>1. \A i \in 1..n : i - 1 \in 0..n
    BY <1>1
  <2>2. QED
    BY <1>1, <1>2, <2>1, VmPathType DEF FramesCounted, Base
<1>7. Len(FrameLocations(current_statement_idx)) \in Nat \ {0}
  BY <1>2, LengthOfFrames
<1> HIDE DEF stack_trace, n
<1>8. ASSUME NEW i \in 1..n, NEW k \in DOMAIN FrameLocations(VmPath[i])
      PROVE  stack_trace[Base(VmPath, i) + k] =
               [id |-> MIN_OBJECT_REFERENCE + 2 * Base(VmPath, i),
                at |-> FrameLocations(VmPath[i])[k]]
  <2> DEFINE c == rets[i].call
             b == contexts[i].base
             m == Len(FrameLocations(c))
             vars_of_c == FunctionVariables(sierra_function_for_statement(c), rets[i].arg,
                            contexts[i].context.post_statements_registers)
             id == MIN_OBJECT_REFERENCE + 2 * b
             shown == SubStack(c, id, vars_of_c)
  <2>1. /\ c \in Statement /\ VmPath[i] = c /\ Base(VmPath, i) = b /\ b \in Nat
        /\ i \in DOMAIN contexts /\ i \in DOMAIN rets
    BY <1>1, <1>2, <1>4, <1>6, SuspendedType, ContextEntryType DEF n
  <2>2. m \in Nat /\ DOMAIN FrameLocations(c) = 1..m /\ k \in 1..m
    BY <2>1, LengthOfFrames
  <2>3. id \in Nat
    BY <2>1 DEF MIN_OBJECT_REFERENCE
  <2>4. SubSeq(frames, SubStackStart(i), SubStackEnd(i)) = shown
    BY <2>1 DEF IInv, FramesMatch, Shown
  <2>5. SubStackStart(i) = b + 1 /\ SubStackEnd(i) = b + m /\ b + m <= Len(frames)
    <3>1. i + 1 \in 1..(n + 1)
      BY <1>1, <1>4 DEF n
    <3>2. Base(VmPath, i + 1) = b + m
      BY <1>4, <2>1, Bases
    <3>3. SubStackEnd(i) = Base(VmPath, i + 1)
      <4>1. CASE i = n
        BY <1>2, <1>5, <4>1 DEF SubStackEnd
      <4>2. CASE i # n
        <5>1. i + 1 \in 1..n
          BY <1>1, <4>2
        <5>2. QED
          BY <1>2, <1>6, <4>2, <5>1 DEF SubStackEnd
      <4>3. QED
        BY <4>1, <4>2
    <3>4. SubStackEnd(i) <= Len(frames)
      BY <1>1, <2>1, SubStackRange
    <3>5. QED
      BY <3>2, <3>3, <3>4 DEF SubStackStart
  <2>6. shown[k].id = id /\ shown[k].at = FrameLocations(c)[k]
    BY <2>1, <2>2, <2>3, SubStackLocations
  <2>7. shown[k] = frames[b + k]
    <3> HIDE DEF shown, b, m
    <3>1. shown = SubSeq(frames, b + 1, b + m)
      BY <2>4, <2>5
    <3>2. QED
      BY <1>1, <2>1, <2>2, <2>5, <3>1, Within
  <2>8. b + k \in 1..Len(frames)
    BY <1>1, <2>1, <2>2, <2>5
  <2> HIDE DEF shown
  <2>9. QED
    BY <1>3, <2>1, <2>6, <2>7, <2>8
<1>9. QED
  <2>1. Base(VmPath, Len(VmPath) + 1) = Len(frames) /\ Len(frames) < Len(stack_trace)
    BY <1>1, <1>3, <1>4, <1>5, <1>7
  <2>2. Shows(stack_trace, VmPath)
    BY <1>3, <1>4, <1>8, <2>1 DEF Shows
  <2>3. QED
    BY <2>2 DEF stack_trace

LEMMA InitStartsInMain == Init => StartsInMain
<1>1. Main \in Statement /\ sierra_function_for_statement(Main) = Main
  BY FunctionAssumption, FunctionOfEntryPoint
<1>2. NextCasm(Main) \in Statement /\ LeadsTo(Main, NextCasm(Main))
  BY <1>1, NextCasmType, StatementNumbers
<1>3. sierra_function_for_statement(NextCasm(Main)) = Main
  BY <1>1, <1>2, FallThroughSameFunction
<1>4. QED
  BY <1>3 DEF Init, VmInit, StartsInMain

LEMMA StartsInMainInductive ==
  ASSUME TypeInv, StartsInMain, [Next]_vars
  PROVE  StartsInMain'
<1>1. /\ VmTypeOK /\ pc \in Statement /\ rets \in Seq(Activation)
      /\ Len(rets) \in Nat /\ DOMAIN rets = 1..Len(rets)
  BY StatementNumbers DEF TypeInv, TypeOK, VmTypeOK
<1>2. CASE UNCHANGED <<pc, rets>>
  BY <1>2 DEF StartsInMain
<1>3. CASE VmBranch
  <2>1. PICK b \in BranchTargets(pc) : pc' = NextCasm(b)
    BY <1>3 DEF VmBranch
  <2>2. b \in Statement
    BY <1>1, BranchTargetType
  <2>3. pc' \in Statement /\ LeadsTo(b, pc')
    BY <2>1, <2>2, NextCasmType, StatementNumbers
  <2>4. sierra_function_for_statement(pc') = sierra_function_for_statement(pc)
    BY <1>1, <2>2, <2>3, FallThroughSameFunction, BranchSameFunction
  <2>5. QED
    BY <1>3, <2>4 DEF VmBranch, StartsInMain
<1>4. CASE VmCall
  <2> DEFINE suspended == [call |-> pc, arg |-> arg, executed |-> executed]
  <2>1. suspended \in Activation /\ suspended.call = pc
    BY <1>1 DEF VmTypeOK, Activation
  <2>2. rets' = Append(rets, suspended)
    BY <1>4 DEF VmCall
  <2> HIDE DEF suspended
  <2>3. rets' # << >> /\ rets'[1] = IF rets = << >> THEN suspended ELSE rets[1]
    <3>1. CASE rets = << >>
      BY <2>2, <3>1
    <3>2. CASE rets # << >>
      <4>1. 1 \in DOMAIN rets
        BY <1>1, <3>2
      <4>2. QED
        BY <1>1, <2>1, <2>2, <3>2, <4>1, Extension
    <3>3. QED
      BY <3>1, <3>2
  <2>4. QED
    BY <2>1, <2>3 DEF StartsInMain
<1>5. CASE VmReturn
  <2> DEFINE n == Len(rets)
             c == rets[n].call
  <2>1. rets # << >> /\ pc' = NextCasm(c + 1) /\ rets' = SubSeq(rets, 1, n - 1)
    BY <1>5 DEF VmReturn
  <2>2. n \in DOMAIN rets /\ n - 1 \in Nat /\ n - 1 <= n
    BY <1>1, <2>1
  <2>3. c \in Statement /\ is_function_call_statement(c)
    BY <1>1, <2>2, SuspendedType DEF TypeInv, CallsSuspended
  <2>4. c + 1 \in Statement /\ c + 1 \in BranchTargets(c)
    BY <2>3, CallContinues
  <2>5. pc' \in Statement /\ LeadsTo(c + 1, pc')
    BY <2>1, <2>4, NextCasmType, StatementNumbers
  <2>6. sierra_function_for_statement(pc') = sierra_function_for_statement(c)
    BY <2>3, <2>4, <2>5, FallThroughSameFunction, BranchSameFunction
  <2>7. /\ rets' \in Seq(Activation) /\ Len(rets') = n - 1
        /\ \A i \in 1..(n - 1) : rets'[i] = rets[i]
    BY <1>1, <2>1, <2>2, Prefix
  <2> HIDE DEF c
  <2>8. CASE n = 1
    <3>1. rets' = << >>
      BY <2>7, <2>8
    <3>2. QED
      BY <2>1, <2>6, <2>8, <3>1 DEF StartsInMain, c
  <2>9. CASE n # 1
    <3>1. 1 \in 1..(n - 1) /\ rets' # << >>
      BY <1>1, <2>2, <2>7, <2>9
    <3>2. QED
      BY <2>1, <2>7, <3>1 DEF StartsInMain
  <2>10. QED
    BY <2>8, <2>9
<1>6. CASE ExecuteInstruction
  BY <1>2, <1>3, <1>4, <1>5, <1>6
  DEF ExecuteInstruction, VmInstruction, VmStay, VmOutside, VmHalt
<1>7. QED
  BY <1>2, <1>6
  DEF Next, EnterStatement, update_post_step, get_variables, SkipInstruction, FinishPreStep,
      VmError, VmEnd, HookError, vars, vmVars

----------------------------------------------------------------------------
(* Breakpoints. *)

(* What only these requests, and only a stop at a breakpoint, change.      *)
LEMMA BreakpointSteps ==
  ASSUME [SessionNext]_allVars
  PROVE  /\ \/ UNCHANGED <<breakpoints, wanted>>
            \/ Take({"SetBreakpoints"}) /\ handle_set_breakpoints
         /\ UNCHANGED <<last_breakpoint_hit, last_stop>> \/ maybe_handle_breakpoint_hit
<1>1. CASE HandleRequest
  BY <1>1 DEF HandleRequest, HandleQuery, HandleVariables, HandleSetBreakpoints, HandlePause,
    HandleContinue, HandleStep, HandleStepOut, HandleDisconnect, HandleRefused, stateVars,
    ghostVars
<1>2. CASE \/ InitSetBreakpoints \/ InitAnswered \/ InitConfigurationDone \/ InitRefused
           \/ InboundClosed \/ SendFails
  BY <1>2 DEF InitSetBreakpoints, InitAnswered, InitConfigurationDone, InitRefused,
    InboundClosed, SendFails, stateVars, ghostVars
<1>3. CASE \/ PreStepSkips \/ PreStepEnters \/ maybe_handle_breakpoint_hit
           \/ maybe_handle_step_action \/ NothingToPoll \/ RunVm \/ VmStops
  BY <1>3 DEF PreStepSkips, PreStepEnters, maybe_handle_breakpoint_hit,
    maybe_handle_step_action, NothingToPoll, RunVm, VmStops, sessionVars, stateVars, ghostVars
<1>4. CASE ClientSends \/ InboundCloses \/ UNCHANGED allVars
  BY <1>4 DEF ClientSends, InboundCloses, allVars, sessionVars, stateVars, ghostVars
<1>5. QED
  BY <1>1, <1>2, <1>3, <1>4 DEF SessionNext, DebuggerStep

(* The lines of what is set and of what is asked for, file by file.        *)
SetTypes == DOMAIN breakpoints = Files /\ DOMAIN wanted = Files

LEMMA LinesAreSetInductive ==
  ASSUME SetTypes, LinesAreSet, [SessionNext]_allVars
  PROVE  SetTypes' /\ LinesAreSet'
<1>1. CASE UNCHANGED <<breakpoints, wanted>>
  BY <1>1 DEF SetTypes, LinesAreSet
<1>2. CASE Take({"SetBreakpoints"}) /\ handle_set_breakpoints
  <2> DEFINE r == Head(inbound)
             lines == {l - 1 : l \in r.lines}
             stops == verify_and_set_breakpoints(r.source, r.lines)
  <2>1. stops = UNION {statement_idxs_for_breakpoint(r.source, l) : l \in lines}
    BY DEF verify_and_set_breakpoints
  <2>2. /\ breakpoints' = [breakpoints EXCEPT ![r.source] = stops]
        /\ wanted' = [wanted EXCEPT ![r.source] = lines]
    BY <1>2 DEF handle_set_breakpoints
  <2> HIDE DEF lines, stops
  <2>3. SetTypes'
    BY <2>2 DEF SetTypes
  <2>4. ASSUME NEW f \in Files
        PROVE  breakpoints'[f] = UNION {statement_idxs_for_breakpoint(f, l) : l \in wanted'[f]}
    <3>1. CASE f = r.source
      BY <2>1, <2>2, <3>1 DEF SetTypes
    <3>2. CASE f # r.source
      BY <2>2, <3>2 DEF SetTypes, LinesAreSet
    <3>3. QED
      BY <3>1, <3>2
  <2>5. QED
    BY <2>3, <2>4 DEF LinesAreSet
<1>3. QED
  BY <1>1, <1>2, BreakpointSteps

(* A statement is set when the client wants its line.                      *)
LEMMA SetIsWanted ==
  ASSUME LinesAreSet, current_statement_idx \in Casm
  PROVE  AtBreakpoint <=> Wanted(current_statement_idx)
<1> DEFINE s == current_statement_idx
           here == code_location_for_statement_idx(s)
<1>1. ASSUME AtBreakpoint PROVE Wanted(s)
  <2>1. PICK f \in Files : s \in breakpoints[f]
    BY <1>1 DEF AtBreakpoint
  <2>2. PICK l \in wanted[f] : s \in statement_idxs_for_breakpoint(f, l)
    BY <2>1 DEF LinesAreSet
  <2>3. HasCodeLocation(s) /\ here.file = f /\ here.line = l
    BY <2>2 DEF statement_idxs_for_breakpoint
  <2>4. QED
    BY <2>2, <2>3 DEF Wanted
<1>2. ASSUME Wanted(s) PROVE AtBreakpoint
  <2>1. HasCodeLocation(s) /\ here.file \in Files /\ here.line \in wanted[here.file]
    BY <1>2 DEF Wanted
  <2>2. s \in statement_idxs_for_breakpoint(here.file, here.line)
    BY <2>1 DEF statement_idxs_for_breakpoint
  <2>3. s \in breakpoints[here.file]
    BY <2>1, <2>2 DEF LinesAreSet
  <2>4. QED
    BY <2>1, <2>3 DEF AtBreakpoint
<1>3. QED
  BY <1>1, <1>2

LEMMA HitIsLastStopInductive ==
  ASSUME IInv, StepsInv, BreakpointInv, [SessionNext]_allVars
  PROVE  HitIsLastStop'
<1>1. CASE UNCHANGED <<last_breakpoint_hit, last_stop>>
  BY <1>1 DEF BreakpointInv, HitIsLastStop
<1>2. CASE maybe_handle_breakpoint_hit /\ was_breakpoint_hit
  <2>1. /\ last_breakpoint_hit' = BreakpointHit
        /\ last_stop' = [path |-> VmPath, location |-> CurrentLocation]
        /\ at = "breakpoint"
    BY <1>2 DEF was_breakpoint_hit, maybe_handle_breakpoint_hit
  <2>2. phase = "handle"
    BY <2>1 DEF StepsInv, StepInv, PlaceOfHook
  <2>3. pc = current_statement_idx /\ pc \in Casm
    BY <2>2, DepthAgrees DEF StepsInv
  <2>4. CurrentLocation = code_location_for_statement_idx(current_statement_idx)
    BY <1>2, <2>3 DEF was_breakpoint_hit, CurrentLocation
  <2>5. IsCallPath(VmPath)
    BY VmPathIsCallPath DEF IInv, StackInv, BreakpointInv
  <2>6. Shows(get_frames(current_statement_idx), VmPath)
    BY <2>2, StackTraceShowsPath DEF StepsInv
  <2>7. /\ BreakpointHit.location = CurrentLocation
        /\ BreakpointHit.ui_state.stack_trace = get_frames(current_statement_idx)
    BY <2>4 DEF BreakpointHit
  <2>8. /\ last_stop'.path = VmPath
        /\ last_stop' = [path |-> VmPath, location |-> CurrentLocation]
    BY <2>1
  <2>9. QED
    BY <2>1, <2>5, <2>6, <2>7, <2>8 DEF HitIsLastStop, Shows, Base, PathFrames, IsCallPath
<1>3. CASE maybe_handle_breakpoint_hit /\ ~ was_breakpoint_hit
  BY <1>1, <1>3 DEF maybe_handle_breakpoint_hit
<1>4. QED
  BY <1>1, <1>2, <1>3, BreakpointSteps

(* The same frames, in a program whose calls can be told apart, are those  *)
(* of the same activation.                                                 *)
LEMMA SameHitSameStop ==
  ASSUME CallsToldApart, IInv, StepsInv, BreakpointInv, phase = "handle",
         Wanted(pc), last_breakpoint_hit = BreakpointHit
  PROVE  last_stop = [path |-> VmPath, location |-> CurrentLocation]
<1> DEFINE stack_trace == get_frames(current_statement_idx)
<1>1. pc = current_statement_idx /\ pc \in Statement
  BY DepthAgrees, StatementNumbers DEF StepsInv
<1>2. /\ last_breakpoint_hit.location = CurrentLocation
      /\ last_breakpoint_hit.ui_state.stack_trace = stack_trace
  BY <1>1 DEF BreakpointHit, Wanted, CurrentLocation
<1>3. last_breakpoint_hit # NoHit
  <2>1. "ui_state" \in DOMAIN BreakpointHit /\ "ui_state" \notin DOMAIN NoHit
    BY DEF BreakpointHit, NoHit
  <2>2. QED
    BY <2>1
<1>4. /\ last_stop = [path |-> last_stop.path, location |-> CurrentLocation]
      /\ IsCallPath(last_stop.path)
      /\ Shows(stack_trace, last_stop.path)
  BY <1>2, <1>3 DEF BreakpointInv, HitIsLastStop
<1>5. IsCallPath(VmPath)
  BY VmPathIsCallPath DEF IInv, StackInv, BreakpointInv
<1>6. Shows(stack_trace, VmPath)
  BY StackTraceShowsPath DEF StepsInv
<1>7. Len(stack_trace) \in Nat
  BY <1>1, StackTraceShape DEF IInv, TypeInv
<1> HIDE DEF stack_trace
<1>8. last_stop.path = VmPath
  BY <1>4, <1>5, <1>6, <1>7, ShownPathIsUnique
<1>9. QED
  BY <1>4, <1>8

HonoursBreakpoint ==
  at = "breakpoint" /\ at' \in {"breakpoint_paused", "step"} =>
    /\ at' = "breakpoint_paused" => Wanted(pc)
    /\ Wanted(pc) /\ last_stop # [path |-> VmPath, location |-> CurrentLocation]
         => at' = "breakpoint_paused"

LEMMA BreakpointHonoured ==
  ASSUME CallsToldApart, IInv, StepsInv, BreakpointInv, [SessionNext]_allVars
  PROVE  HonoursBreakpoint
<1>1. SUFFICES ASSUME at = "breakpoint", at' \in {"breakpoint_paused", "step"}
               PROVE  HonoursBreakpoint
  BY DEF HonoursBreakpoint
<1>2. maybe_handle_breakpoint_hit
  <2>1. ~ HandleRequest
    BY <1>1 DEF HandleRequest, HandleQuery, HandleVariables, HandleSetBreakpoints, HandlePause,
      HandleContinue, HandleStep, HandleStepOut, HandleDisconnect, HandleRefused, Serving, Paused
  <2>2. ~ (InitSetBreakpoints \/ InitAnswered \/ InitConfigurationDone \/ InitRefused
           \/ InboundClosed \/ SendFails)
    BY <1>1 DEF InitSetBreakpoints, InitAnswered, InitConfigurationDone, InitRefused,
      InboundClosed, SendFails, Drop
  <2>3. ~ (PreStepSkips \/ PreStepEnters \/ maybe_handle_step_action \/ NothingToPoll
           \/ RunVm \/ VmStops)
    BY <1>1 DEF PreStepSkips, PreStepEnters, maybe_handle_step_action, NothingToPoll, RunVm,
      VmStops
  <2>4. ~ (ClientSends \/ InboundCloses \/ UNCHANGED allVars)
    BY <1>1 DEF ClientSends, InboundCloses, allVars, sessionVars
  <2>5. QED
    BY <2>1, <2>2, <2>3, <2>4 DEF SessionNext, DebuggerStep
<1>3. phase = "handle"
  BY <1>1 DEF StepsInv, StepInv, PlaceOfHook
<1>4. AtBreakpoint <=> Wanted(pc)
  BY <1>3, DepthAgrees, SetIsWanted DEF StepsInv, BreakpointInv
<1>5. CASE was_breakpoint_hit
  <2>1. AtBreakpoint /\ at' = "breakpoint_paused"
    BY <1>2, <1>5 DEF was_breakpoint_hit, maybe_handle_breakpoint_hit, pause_and_process_requests
  <2>2. QED
    BY <1>4, <2>1 DEF HonoursBreakpoint
<1>6. CASE ~ was_breakpoint_hit
  <2>1. AtBreakpoint => HasCodeLocation(current_statement_idx)
    BY <1>3, <1>4, DepthAgrees DEF StepsInv, Wanted
  <2>2. at' = "step" /\ (AtBreakpoint => last_breakpoint_hit = BreakpointHit)
    BY <1>2, <1>6, <2>1 DEF was_breakpoint_hit, maybe_handle_breakpoint_hit
  <2>3. Wanted(pc) => last_stop = [path |-> VmPath, location |-> CurrentLocation]
    BY <1>3, <1>4, <2>2, SameHitSameStop
  <2>4. QED
    BY <2>2, <2>3 DEF HonoursBreakpoint
<1>7. QED
  BY <1>5, <1>6

LEMMA BreakpointInvariant ==
  ASSUME NoTailRecursion
  PROVE  SessionSpec => [](IInv /\ StepsInv /\ BreakpointInv)
<1> DEFINE J == SetTypes /\ BreakpointInv
<1>1. SessionInit => J
  BY InitStartsInMain
  DEF SessionInit, SetTypes, BreakpointInv, LinesAreSet, HitIsLastStop, NoHit
<1>2. (IInv /\ StepsInv) /\ J /\ [SessionNext]_allVars => J'
  <2>1. SUFFICES ASSUME IInv, StepsInv, J, [SessionNext]_allVars PROVE J'
    OBVIOUS
  <2>2. [Next]_vars
    BY <2>1, SessionIsStackStep DEF StepsInv, DapInv
  <2>3. StartsInMain'
    BY <2>1, <2>2, StartsInMainInductive DEF IInv, BreakpointInv
  <2>4. SetTypes' /\ LinesAreSet'
    BY <2>1, LinesAreSetInductive DEF BreakpointInv
  <2>5. HitIsLastStop'
    BY <2>1, HitIsLastStopInductive
  <2>6. QED
    BY <2>3, <2>4, <2>5 DEF BreakpointInv
<1>3. QED
  BY <1>1, <1>2, StepsInvariant, PTL DEF SessionSpec

(* The place in the hook, the depth of the shadow stack, the pending step  *)
(* and the breakpoints are in step with the VM, with the request that last *)
(* resumed it and with the lines asked for (SessionInv says how), whatever *)
(* the client sends, in a program without tail recursion.                  *)
THEOREM SessionInvHolds ==
  ASSUME NoTailRecursion
  PROVE  SessionSpec => []SessionInv
<1>1. StepsInv /\ BreakpointInv => SessionInv
  BY DEF StepsInv, StepInv, SessionInv
<1>2. QED
  BY <1>1, BreakpointInvariant, PTL

(* The execution stops at a line with a breakpoint, as the client last set *)
(* it, whenever it is reached in another activation or at another location *)
(* than at the last such stop, and stops for no other line: given that a   *)
(* stack trace tells activations apart, comparing what the user sees does  *)
(* not lose a stop (was_breakpoint_hit).                                   *)
THEOREM BreakpointsStop ==
  ASSUME NoTailRecursion, CallsToldApart
  PROVE  SessionSpec => BreakpointsAreHonoured
<1>1. (IInv /\ StepsInv /\ BreakpointInv) /\ [SessionNext]_allVars
        => [HonoursBreakpoint]_allVars
  BY BreakpointHonoured
<1>2. QED
  BY <1>1, BreakpointInvariant, PTL DEF SessionSpec, BreakpointsAreHonoured, HonoursBreakpoint
=============================================================================
