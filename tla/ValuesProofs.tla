---------------------------- MODULE ValuesProofs ----------------------------
(***************************************************************************)
(* What the debugger shows of a variable, for every program, every layout  *)
(* of its variables and every order in which their memory is written: the  *)
(* value of the variable as soon as every cell that it is read through is  *)
(* written, nothing before that, and the same value from then on.          *)
(***************************************************************************)
EXTENDS Values, FiniteSetTheorems, WellFoundedInduction, TLAPS

----------------------------------------------------------------------------
(* Naturals, and the recursion of the model over them. *)

(* A set of naturals that is not empty has a least element.                *)
Less == {p \in Nat \X Nat : p[1] < p[2]}

LEMMA LessIsWellFounded == IsWellFoundedOn(Less, Nat)
  BY NatLessThanWellFounded, Zenon DEF OpToRel, Less

LEMMA LeastElement ==
  ASSUME NEW S \in SUBSET Nat, S # {}
  PROVE  \E m \in S : \A k \in S : m <= k
<1>1. PICK m \in S : \A k \in S : ~ (<<k, m>> \in Less)
  BY WFMin, LessIsWellFounded, Zenon
<1>2. \A k \in S : ~ (k < m)
  BY <1>1 DEF Less
<1>3. QED
  BY <1>2

(* The calls of the debugger up to n deep.                                 *)
Bottom == [x \in Seq(Cell) \X Type |-> Panic]

IsDecoding(reader, n, g) ==
  g = [i \in 0..n |-> IF i = 0 THEN Bottom ELSE Level(reader, g[i - 1])]

LEMMA DecodingExists ==
  ASSUME NEW reader, NEW n \in Nat
  PROVE  \E g : IsDecoding(reader, n, g)
<1> DEFINE Bad == {i \in Nat : ~ \E g : IsDecoding(reader, i, g)}
<1>1. SUFFICES ASSUME Bad # {} PROVE FALSE
  OBVIOUS
<1>2. PICK m \in Bad : \A k \in Bad : m <= k
  BY <1>1, LeastElement
<1>3. CASE m = 0
  <2>1. IsDecoding(reader, 0, [i \in 0..0 |-> Bottom])
    BY DEF IsDecoding
  <2>2. QED
    BY <1>2, <1>3, <2>1
<1>4. CASE m # 0
  <2>1. m - 1 \in Nat /\ m - 1 \notin Bad
    BY <1>2, <1>4
  <2>2. PICK g : IsDecoding(reader, m - 1, g)
    BY <2>1
  <2>3. \A i \in 0..(m - 1) : g[i] = IF i = 0 THEN Bottom ELSE Level(reader, g[i - 1])
    BY <2>2 DEF IsDecoding
  <2> DEFINE h == [i \in 0..m |-> IF i = m THEN Level(reader, g[m - 1]) ELSE g[i]]
  <2>4. \A i \in 0..m : h[i] = IF i = 0 THEN Bottom ELSE Level(reader, h[i - 1])
    BY <1>4, <2>1, <2>3
  <2>5. IsDecoding(reader, m, h)
    <3> HIDE DEF h
    <3>1. h = [i \in 0..m |-> h[i]]
      BY DEF h
    <3>2. QED
      BY <2>4, <3>1 DEF IsDecoding
  <2>6. QED
    BY <1>2, <2>5
<1>5. QED
  BY <1>3, <1>4

LEMMA DecodingUnique ==
  ASSUME NEW reader, NEW m \in Nat, NEW n \in Nat, m <= n,
         NEW g, NEW h, IsDecoding(reader, m, g), IsDecoding(reader, n, h)
  PROVE  \A i \in 0..m : g[i] = h[i]
<1> DEFINE Bad == {i \in Nat : i <= m /\ g[i] # h[i]}
<1>1. SUFFICES ASSUME Bad # {} PROVE FALSE
  OBVIOUS
<1>2. PICK i \in Bad : \A k \in Bad : i <= k
  BY <1>1, LeastElement
<1>3. /\ \A j \in 0..m : g[j] = IF j = 0 THEN Bottom ELSE Level(reader, g[j - 1])
      /\ \A j \in 0..n : h[j] = IF j = 0 THEN Bottom ELSE Level(reader, h[j - 1])
  BY DEF IsDecoding
<1>4. CASE i = 0
  BY <1>2, <1>3, <1>4
<1>5. CASE i # 0
  <2>1. g[i - 1] = h[i - 1]
    BY <1>2, <1>5
  <2>2. g[i] = h[i]
    BY <1>2, <1>3, <1>5, <2>1
  <2>3. QED
    BY <1>2, <2>2
<1>6. QED
  BY <1>4, <1>5

(* The recursion has a solution, which Decoded is.                         *)
LEMMA DecodedEquation ==
  ASSUME NEW reader
  PROVE  \A n \in Nat :
           Decoded(reader)[n] = IF n = 0 THEN Bottom ELSE Level(reader, Decoded(reader)[n - 1])
<1> DEFINE G(n) == CHOOSE g : IsDecoding(reader, n, g)
           f == [n \in Nat |-> G(n)[n]]
<1>1. \A n \in Nat : IsDecoding(reader, n, G(n))
  BY DecodingExists
<1>2. ASSUME NEW n \in Nat
      PROVE  f[n] = IF n = 0 THEN Bottom ELSE Level(reader, f[n - 1])
  <2>1. \A j \in 0..n : G(n)[j] = IF j = 0 THEN Bottom ELSE Level(reader, G(n)[j - 1])
    <3> DEFINE g == G(n)
    <3>1. IsDecoding(reader, n, g)
      BY <1>1
    <3> HIDE DEF g
    <3>2. \A j \in 0..n : g[j] = IF j = 0 THEN Bottom ELSE Level(reader, g[j - 1])
      BY <3>1 DEF IsDecoding
    <3>3. QED
      BY <3>2 DEF g
  <2>2. CASE n = 0
    BY <2>1, <2>2
  <2>3. CASE n # 0
    <3>1. n - 1 \in Nat /\ IsDecoding(reader, n - 1, G(n - 1)) /\ IsDecoding(reader, n, G(n))
      BY <1>1, <2>3
    <3>2. G(n - 1)[n - 1] = G(n)[n - 1]
      BY <3>1, DecodingUnique
    <3>3. QED
      BY <2>1, <2>3, <3>1, <3>2
  <2>4. QED
    BY <2>2, <2>3
<1>3. f = [n \in Nat |-> IF n = 0 THEN Bottom ELSE Level(reader, f[n - 1])]
  <2>1. f = [n \in Nat |-> f[n]]
    OBVIOUS
  <2> HIDE DEF f
  <2>2. QED
    BY <1>2, <2>1
<1>4. Decoded(reader) =
        [n \in Nat |-> IF n = 0 THEN Bottom ELSE Level(reader, Decoded(reader)[n - 1])]
  BY <1>3 DEF Decoded, Bottom
<1>5. QED
  BY <1>4

(* The sums of the sizes of the first members, up to n of them.            *)
IsSum(members, n, g) ==
  g = [i \in 0..n |-> IF i = 0 THEN 0 ELSE g[i - 1] + type_size(members[i])]

LEMMA SumExists ==
  ASSUME NEW members, NEW n \in Nat
  PROVE  \E g : IsSum(members, n, g)
<1> DEFINE Bad == {i \in Nat : ~ \E g : IsSum(members, i, g)}
<1>1. SUFFICES ASSUME Bad # {} PROVE FALSE
  OBVIOUS
<1>2. PICK m \in Bad : \A k \in Bad : m <= k
  BY <1>1, LeastElement
<1>3. CASE m = 0
  <2>1. IsSum(members, 0, [i \in 0..0 |-> 0])
    BY DEF IsSum
  <2>2. QED
    BY <1>2, <1>3, <2>1
<1>4. CASE m # 0
  <2>1. m - 1 \in Nat /\ m - 1 \notin Bad
    BY <1>2, <1>4
  <2>2. PICK g : IsSum(members, m - 1, g)
    BY <2>1
  <2>3. \A i \in 0..(m - 1) : g[i] = IF i = 0 THEN 0 ELSE g[i - 1] + type_size(members[i])
    BY <2>2 DEF IsSum
  <2> DEFINE h == [i \in 0..m |-> IF i = m THEN g[m - 1] + type_size(members[m]) ELSE g[i]]
  <2>4. \A i \in 0..m : h[i] = IF i = 0 THEN 0 ELSE h[i - 1] + type_size(members[i])
    BY <1>4, <2>1, <2>3
  <2>5. IsSum(members, m, h)
    <3> HIDE DEF h
    <3>1. h = [i \in 0..m |-> h[i]]
      BY DEF h
    <3>2. QED
      BY <2>4, <3>1 DEF IsSum
  <2>6. QED
    BY <1>2, <2>5
<1>5. QED
  BY <1>3, <1>4

LEMMA SumUnique ==
  ASSUME NEW members, NEW m \in Nat, NEW n \in Nat, m <= n,
         NEW g, NEW h, IsSum(members, m, g), IsSum(members, n, h)
  PROVE  \A i \in 0..m : g[i] = h[i]
<1> DEFINE Bad == {i \in Nat : i <= m /\ g[i] # h[i]}
<1>1. SUFFICES ASSUME Bad # {} PROVE FALSE
  OBVIOUS
<1>2. PICK i \in Bad : \A k \in Bad : i <= k
  BY <1>1, LeastElement
<1>3. /\ \A j \in 0..m : g[j] = IF j = 0 THEN 0 ELSE g[j - 1] + type_size(members[j])
      /\ \A j \in 0..n : h[j] = IF j = 0 THEN 0 ELSE h[j - 1] + type_size(members[j])
  BY DEF IsSum
<1>4. CASE i = 0
  BY <1>2, <1>3, <1>4
<1>5. CASE i # 0
  <2>1. g[i - 1] = h[i - 1]
    BY <1>2, <1>5
  <2>2. g[i] = h[i]
    BY <1>2, <1>3, <1>5, <2>1
  <2>3. QED
    BY <1>2, <2>2
<1>6. QED
  BY <1>4, <1>5

(* The recursion has a solution, which Offsets is.                         *)
LEMMA OffsetsEquation ==
  ASSUME NEW members
  PROVE  \A n \in Nat :
           Offsets(members)[n] =
             IF n = 0 THEN 0 ELSE Offsets(members)[n - 1] + type_size(members[n])
<1> DEFINE G(n) == CHOOSE g : IsSum(members, n, g)
           f == [n \in Nat |-> G(n)[n]]
<1>1. \A n \in Nat : IsSum(members, n, G(n))
  BY SumExists
<1>2. ASSUME NEW n \in Nat
      PROVE  f[n] = IF n = 0 THEN 0 ELSE f[n - 1] + type_size(members[n])
  <2>1. \A j \in 0..n : G(n)[j] = IF j = 0 THEN 0 ELSE G(n)[j - 1] + type_size(members[j])
    <3> DEFINE g == G(n)
    <3>1. IsSum(members, n, g)
      BY <1>1
    <3> HIDE DEF g
    <3>2. \A j \in 0..n : g[j] = IF j = 0 THEN 0 ELSE g[j - 1] + type_size(members[j])
      BY <3>1 DEF IsSum
    <3>3. QED
      BY <3>2 DEF g
  <2>2. CASE n = 0
    BY <2>1, <2>2
  <2>3. CASE n # 0
    <3>1. n - 1 \in Nat /\ IsSum(members, n - 1, G(n - 1)) /\ IsSum(members, n, G(n))
      BY <1>1, <2>3
    <3>2. G(n - 1)[n - 1] = G(n)[n - 1]
      BY <3>1, SumUnique
    <3>3. QED
      BY <2>1, <2>3, <3>1, <3>2
  <2>4. QED
    BY <2>2, <2>3
<1>3. f = [n \in Nat |-> IF n = 0 THEN 0 ELSE f[n - 1] + type_size(members[n])]
  <2>1. f = [n \in Nat |-> f[n]]
    OBVIOUS
  <2> HIDE DEF f
  <2>2. QED
    BY <1>2, <2>1
<1>4. Offsets(members) =
        [n \in Nat |->
           IF n = 0 THEN 0 ELSE Offsets(members)[n - 1] + type_size(members[n])]
  BY <1>3 DEF Offsets
<1>5. QED
  BY <1>4

----------------------------------------------------------------------------
(* What the helpers of the debugger give.                                  *)

LEMMA FieldFacts ==
  /\ Prime \in Nat /\ Prime > 2
  /\ \A b \in 1..(Prime - 1) : \A x, y \in 0..(Prime - 1) :
       (x * b) % Prime = (y * b) % Prime => x = y
  /\ ap \in Nat /\ fp \in Nat /\ MaxNesting \in Nat
  BY ConstantsAssumption DEF FieldAssumption

LEMMA IndexFacts ==
  /\ UsizeMax \in Nat \ {0} /\ MaxDiscriminant \in Nat
  /\ MaxDiscriminant <= Prime /\ MaxDiscriminant <= UsizeMax
  BY ConstantsAssumption DEF FieldAssumption, MaxDiscriminant

(* Remainders close to the field.                                          *)
LEMMA SmallRemainder ==
  ASSUME NEW x \in 0..(Prime - 1)
  PROVE  x % Prime = x /\ (x - Prime) % Prime = x /\ (x + Prime) % Prime = x
  BY FieldFacts

(* Subtraction is the inverse of addition.                                 *)
LEMMA Subtracts ==
  ASSUME NEW a \in 0..(Prime - 1), NEW b \in 0..(Prime - 1), NEW c \in 0..(Prime - 1),
         (c + b) % Prime = a
  PROVE  (a - b) % Prime = c
<1>1. CASE c + b < Prime
  <2>1. (c + b) % Prime = c + b
    BY <1>1, FieldFacts, SmallRemainder
  <2>2. QED
    BY <2>1, FieldFacts, SmallRemainder
<1>2. CASE c + b >= Prime
  <2>1. c + b - Prime \in 0..(Prime - 1)
    BY <1>2, FieldFacts
  <2>2. ((c + b - Prime) + Prime) % Prime = c + b - Prime
    BY <2>1, SmallRemainder
  <2>3. c + b - Prime + Prime = c + b
    BY FieldFacts
  <2>4. a - b = c - Prime
    BY <2>2, <2>3, FieldFacts
  <2>5. QED
    BY <2>4, SmallRemainder
<1>3. QED
  BY <1>1, <1>2, FieldFacts

(* Division finds the quotient.                                            *)
LEMMA Divides ==
  ASSUME NEW a, NEW b \in 0..(Prime - 1), b # 0, NEW c \in 0..(Prime - 1),
         (c * b) % Prime = a
  PROVE  FieldDiv(a, b) = c
<1>1. \A x \in 0..(Prime - 1) : (x * b) % Prime = a => x = c
  BY FieldFacts
<1>2. QED
  BY <1>1 DEF FieldDiv

(* The discriminant of a variant leads back to it.                         *)
LEMMA VariantIndexOfDiscriminant ==
  ASSUME NEW n \in Nat, NEW i \in 0..(n - 1), 2 * n <= MaxDiscriminant
  PROVE  /\ variant_index(Discriminant(i, n) % Prime, n) = i
         /\ ~ (Discriminant(i, n) % Prime > UsizeMax)
<1>1. CASE n <= 2
  <2>1. i \in 0..(Prime - 1) /\ ~ (i > UsizeMax)
    BY <1>1, FieldFacts, IndexFacts
  <2>2. QED
    BY <1>1, <2>1, SmallRemainder DEF variant_index, Discriminant
<1>2. CASE n > 2
  <2>1. 2 * (n - i) - 1 \in 0..(Prime - 1) /\ ~ (2 * (n - i) - 1 > UsizeMax)
    BY <1>2, FieldFacts, IndexFacts
  <2>2. (2 * (n - i) - 1) % Prime = 2 * (n - i) - 1
    BY <2>1, SmallRemainder
  <2>3. (2 * (n - i) - 1 + 1) \div 2 = n - i
    BY <1>2
  <2>4. QED
    BY <1>2, <2>1, <2>2, <2>3 DEF variant_index, Discriminant
<1>3. QED
  BY <1>1, <1>2

(* One part that is not there hides the value it is in.                    *)
LEMMA CollectsValues ==
  ASSUME NEW n \in Nat, NEW parts, NEW value, DOMAIN parts = 1..n,
         \A i \in 1..n : IsValue(parts[i]) \/ parts[i] = NoValue
  PROVE  Collect(parts, value) =
           IF \A i \in 1..n : IsValue(parts[i]) THEN value ELSE NoValue
<1>1. CASE \A i \in 1..n : IsValue(parts[i])
  BY <1>1 DEF Collect
<1>2. CASE ~ \A i \in 1..n : IsValue(parts[i])
  <2> DEFINE Missing == {i \in Nat : i \in 1..n /\ ~ IsValue(parts[i])}
             First(i) == ~ IsValue(parts[i]) /\ \A j \in 1..(i - 1) : IsValue(parts[j])
  <2>1. Missing # {}
    BY <1>2
  <2>2. PICK i \in Missing : \A k \in Missing : i <= k
    BY <2>1, LeastElement
  <2>3. i \in 1..n /\ First(i)
    BY <2>2
  <2>4. \E k \in 1..n : First(k)
    BY <2>3
  <2>5. PICK k \in 1..n : k = (CHOOSE m \in 1..n : First(m)) /\ First(k)
    <3> HIDE DEF First
    <3>1. QED
      BY <2>4
  <2>6. parts[k] = NoValue
    BY <2>5
  <2>7. QED
    BY <1>2, <2>5, <2>6 DEF Collect
<1>3. QED
  BY <1>1, <1>2

(* All cells that are felts are all felts.                                 *)
LEMMA FeltsOfFelts ==
  ASSUME NEW cells \in Seq(Felt)
  PROVE  Felts(cells) = cells
<1> DEFINE n == Len(cells)
           ints == {i \in DOMAIN cells : cells[i].tag = "int"}
<1>1. n \in Nat /\ DOMAIN cells = 1..n /\ ints = 1..n
  <2>1. n \in Nat /\ DOMAIN cells = 1..n
    OBVIOUS
  <2>2. \A i \in 1..n : cells[i] \in Felt
    OBVIOUS
  <2>3. \A i \in 1..n : cells[i].tag = "int"
    BY <2>2 DEF Felt
  <2>4. QED
    BY <2>1, <2>3
<1>2. \A i \in 0..n : Cardinality(1..i) = i
  <2> SUFFICES ASSUME NEW i \in 0..n PROVE Cardinality(1..i) = i
    OBVIOUS
  <2>1. Cardinality(1..i) = IF 1 > i THEN 0 ELSE i - 1 + 1
    BY <1>1, FS_Interval
  <2>2. QED
    BY <1>1, <2>1
<1>3. \A i \in 1..n : {j \in ints : j <= i} = 1..i
  BY <1>1
<1>4. \A m \in 1..n : (CHOOSE i \in ints : Cardinality({j \in ints : j <= i}) = m) = m
  <2> SUFFICES ASSUME NEW m \in 1..n
               PROVE  (CHOOSE i \in ints : Cardinality({j \in ints : j <= i}) = m) = m
    OBVIOUS
  <2>1. \A i \in 1..n : Cardinality({j \in ints : j <= i}) = i
    <3> HIDE DEF ints
    <3>1. \A i \in 1..n : i \in 0..n
      BY <1>1
    <3>2. QED
      BY <3>1, <1>2, <1>3
  <2>2. QED
    BY <1>1, <2>1
<1>5. Cardinality(ints) = n
  <2>1. n \in 0..n
    BY <1>1
  <2>2. QED
    BY <1>1, <1>2, <2>1
<1>6. Felts(cells) =
        [m \in 1..n |-> cells[CHOOSE i \in ints : Cardinality({j \in ints : j <= i}) = m]]
  BY <1>5 DEF Felts
<1>7. cells = [m \in 1..n |-> cells[m]]
  BY <1>1
<1>8. QED
  BY <1>1, <1>4, <1>6, <1>7

----------------------------------------------------------------------------
(* Reading the cells of a variable while memory is written.                *)

(* Memory holds what the program writes, and only that.                    *)
MemoryInv ==
  /\ sample \in DOMAIN Samples
  /\ memory = [a \in DOMAIN memory |-> Variable.written[a]]
  /\ DOMAIN memory \subseteq DOMAIN Variable.written

LEMMA SampleFacts ==
  ASSUME MemoryInv
  PROVE  /\ Variable.written \in [DOMAIN Variable.written -> Cell]
         /\ DOMAIN Variable.parts = 1..Len(Variable.parts)
         /\ Len(Variable.parts) \in 1..MaxNesting
         /\ \A k \in DOMAIN Variable.parts : IsPart(Variable, k) /\ IsLaidOut(Variable, k)
         /\ DOMAIN Variable.ref_expr = DOMAIN Variable.parts[1].cells
         /\ \A i \in DOMAIN Variable.ref_expr :
              StandsFor(Variable, Variable.ref_expr[i], Variable.parts[1].cells[i])
  BY SampleAssumption DEF MemoryInv, Variable

LEMMA CellTags ==
  /\ \A c \in Cell : c.tag \in {"int", "ptr"} /\ c # NoCell
  /\ \A c \in Cell : c.tag = "int" => c \in Felt /\ c.n \in 0..(Prime - 1) /\ c = Int_(c.n)
  /\ \A c \in Cell : c.tag = "ptr" => c.seg \in Nat /\ c.off \in Nat
  /\ NoCell.tag = "none"
<1>1. \A c \in Felt : c.tag = "int" /\ c.n \in 0..(Prime - 1) /\ c = [tag |-> "int", n |-> c.n]
  BY DEF Felt
<1>2. \A c \in Felt : c = Int_(c.n)
  BY <1>1, SmallRemainder DEF Int_
<1>3. QED
  BY <1>1, <1>2 DEF Cell, NoCell

LEMMA ReadsWhatIsWritten ==
  ASSUME MemoryInv, NEW a \in DOMAIN Variable.written
  PROVE  /\ Variable.written[a] \in Cell
         /\ read_relocatable(memory, a) = IF a \in DOMAIN memory THEN Variable.written[a] ELSE NoCell
<1>1. Variable.written[a] \in Cell
  BY SampleFacts
<1>2. a \in DOMAIN memory => memory[a] = Variable.written[a]
  BY DEF MemoryInv
<1>3. QED
  BY <1>1, <1>2 DEF read_relocatable

(* The expression of a cell gives the cell once all that it reads is       *)
(* written, unless it is a pointer that is still a sum.                    *)
Readable(e) ==
  ~ IsPointerSum(Variable, e) /\ Reads(Variable, e) \subseteq DOMAIN memory

LEMMA ReadsDeref ==
  ASSUME MemoryInv, NEW e, NEW c \in Cell, StandsFor(Variable, e, c), e.kind = "deref"
  PROVE  read_cell(memory, e) = IF Readable(e) THEN c ELSE NoCell
<1> DEFINE first == relocatable_from_cell_ref(e.ref)
<1>1. /\ first \in DOMAIN Variable.written /\ Variable.written[first] = c
      /\ Reads(Variable, e) = {first}
  BY DEF StandsFor, Reads
<1>2. read_cell(memory, e) = read_relocatable(memory, first)
  BY DEF read_cell
<1>3. Readable(e) <=> first \in DOMAIN memory
  BY <1>1 DEF Readable, IsPointerSum
<1>4. QED
  BY <1>1, <1>2, <1>3, ReadsWhatIsWritten

LEMMA ReadsDoubleDeref ==
  ASSUME MemoryInv, NEW e, NEW c \in Cell, StandsFor(Variable, e, c), e.kind = "double_deref"
  PROVE  read_cell(memory, e) = IF Readable(e) THEN c ELSE NoCell
<1> DEFINE first   == relocatable_from_cell_ref(e.ref)
           pointer == Variable.written[first]
           second  == <<pointer.seg, pointer.off + e.offset>>
<1>1. /\ first \in DOMAIN Variable.written /\ second \in DOMAIN Variable.written
      /\ pointer.tag = "ptr" /\ Variable.written[second] = c
      /\ Reads(Variable, e) = {first, second}
  BY DEF StandsFor, Reads
<1>2. read_cell(memory, e) = LET inner == read_relocatable(memory, first)
                     IN  IF inner.tag = "ptr"
                         THEN read_relocatable(memory, <<inner.seg, inner.off + e.offset>>)
                         ELSE NoCell
  BY DEF read_cell
<1>3. Readable(e) <=> first \in DOMAIN memory /\ second \in DOMAIN memory
  BY <1>1 DEF Readable, IsPointerSum
<1> HIDE DEF first
<1>4. read_relocatable(memory, first) = IF first \in DOMAIN memory THEN pointer ELSE NoCell
  BY <1>1, ReadsWhatIsWritten
<1>5. read_relocatable(memory, second) = IF second \in DOMAIN memory THEN c ELSE NoCell
  BY <1>1, ReadsWhatIsWritten
<1>6. CASE first \in DOMAIN memory
  BY <1>1, <1>2, <1>3, <1>4, <1>5, <1>6
<1>7. CASE first \notin DOMAIN memory
  BY <1>2, <1>3, <1>4, <1>7, CellTags
<1>8. QED
  BY <1>6, <1>7

LEMMA ReadsImmediate ==
  ASSUME MemoryInv, NEW e, NEW c \in Cell, StandsFor(Variable, e, c), e.kind = "immediate"
  PROVE  read_cell(memory, e) = IF Readable(e) THEN c ELSE NoCell
<1>1. Int_(e.value) = c /\ Reads(Variable, e) = {}
  BY DEF StandsFor, Reads
<1>2. read_cell(memory, e) = Int_(e.value)
  BY DEF read_cell
<1>3. QED
  BY <1>1, <1>2 DEF Readable, IsPointerSum

(* A felt that is written is extracted, a pointer is not.                  *)
LEMMA ExtractsFelt ==
  ASSUME MemoryInv, NEW ref, relocatable_from_cell_ref(ref) \in DOMAIN Variable.written
  PROVE  LET first == relocatable_from_cell_ref(ref)
         IN  extract_felt(memory, ref) =
               IF first \in DOMAIN memory /\ Variable.written[first].tag = "int"
               THEN Variable.written[first] ELSE NoCell
  BY ReadsWhatIsWritten, CellTags DEF extract_felt

(* The operation gives the cell that its expression stands for.            *)
LEMMA Applies ==
  ASSUME NEW a \in 0..(Prime - 1), NEW b \in 0..(Prime - 1), NEW c,
         NEW op \in {"add", "sub", "mul", "div"}, IsResult(c, op, a, b)
  PROVE  Apply(op, a, b) = c
<1>1. c \in Felt /\ c.n \in 0..(Prime - 1) /\ c = Int_(c.n) /\ c = [tag |-> "int", n |-> c.n]
  BY CellTags DEF IsResult, Cell, Felt
<1>2. CASE op = "add"
  BY <1>1, <1>2 DEF IsResult, Apply, Int_
<1>3. CASE op = "sub"
  <2>1. (a - b) % Prime = c.n
    BY <1>1, <1>3, Subtracts DEF IsResult
  <2>2. QED
    BY <1>1, <1>3, <2>1 DEF Apply, Int_
<1>4. CASE op = "mul"
  BY <1>1, <1>4 DEF IsResult, Apply, Int_
<1>5. CASE op = "div"
  <2>1. FieldDiv(a, b) = c.n
    BY <1>1, <1>5, Divides DEF IsResult
  <2>2. Apply(op, a, b) = Int_(FieldDiv(a, b))
    BY <1>5 DEF Apply
  <2>3. QED
    BY <1>1, <2>1, <2>2
<1>6. QED
  BY <1>2, <1>3, <1>4, <1>5

LEMMA RemainderInField ==
  ASSUME NEW n \in Int
  PROVE  Int_(n) \in Cell /\ Int_(n).tag = "int" /\ Int_(n).n \in 0..(Prime - 1)
<1>1. n % Prime \in 0..(Prime - 1)
  BY FieldFacts
<1>2. QED
  BY <1>1 DEF Int_, Cell, Felt

LEMMA ReadsBinOp ==
  ASSUME MemoryInv, NEW e, NEW c \in Cell, StandsFor(Variable, e, c), e.kind = "bin_op"
  PROVE  read_cell(memory, e) = IF Readable(e) THEN c ELSE NoCell
<1> DEFINE first == relocatable_from_cell_ref(e.a)
           last  == relocatable_from_cell_ref(e.b.ref)
           a     == Variable.written[first]
           b     == OperandCell(Variable, e.b)
           x     == extract_felt(memory, e.a)
           y     == IF e.b.kind = "deref" THEN extract_felt(memory, e.b.ref) ELSE Int_(e.b.value)
<1>1. /\ e \in Expression /\ Reads(Variable, e) \subseteq DOMAIN Variable.written
      /\ b.tag = "int"
      /\ IF a.tag = "ptr" THEN e.op = "add" /\ c = Ptr(a.seg, a.off + b.n)
         ELSE IsResult(c, e.op, a.n, b.n)
  BY DEF StandsFor
<1>2. e.op \in {"add", "sub", "mul", "div"} /\ e.b \in Operand
  BY <1>1 DEF Expression
<1>3. e.b.kind \in {"deref", "immediate"} /\ (e.b.kind = "immediate" => e.b.value \in Int)
  BY <1>2 DEF Operand
<1>4. Reads(Variable, e) = {first} \union (IF e.b.kind = "deref" THEN {last} ELSE {})
  BY DEF Reads
<1>5. first \in DOMAIN Variable.written /\ (e.b.kind = "deref" => last \in DOMAIN Variable.written)
  BY <1>1, <1>4
<1>6. read_cell(memory, e) = IF x.tag = "int" /\ y.tag = "int" THEN Apply(e.op, x.n, y.n) ELSE NoCell
  BY DEF read_cell
<1>7. IsPointerSum(Variable, e) <=> a.tag = "ptr"
  BY DEF IsPointerSum
<1>8. b = IF e.b.kind = "deref" THEN Variable.written[last] ELSE Int_(e.b.value)
  BY DEF OperandCell
<1>9. a \in Cell /\ b \in Cell
  BY <1>3, <1>5, <1>8, ReadsWhatIsWritten, RemainderInField
<1> HIDE DEF first, last, a, b, x, y
<1>10. x = IF first \in DOMAIN memory /\ a.tag = "int" THEN a ELSE NoCell
  BY <1>5, ExtractsFelt DEF x, first, a
<1>11. y = IF e.b.kind = "deref" /\ last \notin DOMAIN memory THEN NoCell ELSE b
  BY <1>1, <1>3, <1>5, <1>8, ExtractsFelt DEF y, last
<1>12. Readable(e) <=> /\ a.tag # "ptr" /\ first \in DOMAIN memory
                       /\ e.b.kind = "deref" => last \in DOMAIN memory
  BY <1>4, <1>7 DEF Readable
<1>13. CASE Readable(e)
  <2>1. a.tag = "int" /\ x = a /\ y = b
    BY <1>9, <1>10, <1>11, <1>12, <1>13, CellTags
  <2>2. a.n \in 0..(Prime - 1) /\ b.n \in 0..(Prime - 1)
    BY <1>1, <1>9, <2>1, CellTags
  <2>3. IsResult(c, e.op, a.n, b.n)
    BY <1>1, <2>1
  <2>4. Apply(e.op, a.n, b.n) = c
    BY <1>2, <2>2, <2>3, Applies
  <2>5. QED
    BY <1>1, <1>6, <1>13, <2>1, <2>4
<1>14. CASE ~ Readable(e)
  <2>1. x = NoCell \/ y = NoCell
    BY <1>9, <1>10, <1>11, <1>12, <1>14, CellTags
  <2>2. QED
    BY <1>6, <1>14, <2>1, CellTags
<1>15. QED
  BY <1>13, <1>14

LEMMA ReadsCell ==
  ASSUME MemoryInv, NEW e, NEW c \in Cell, StandsFor(Variable, e, c)
  PROVE  read_cell(memory, e) = IF Readable(e) THEN c ELSE NoCell
<1>1. e.kind \in {"deref", "double_deref", "immediate", "bin_op"}
  BY DEF StandsFor, Expression
<1>2. QED
  BY <1>1, ReadsDeref, ReadsDoubleDeref, ReadsImmediate, ReadsBinOp

----------------------------------------------------------------------------
(* From the cells of a part to its value.                                  *)

(* What the debugger makes of a part.                                      *)
Reading(p) == IF p.heap \subseteq DOMAIN memory THEN p.value ELSE NoValue

(* Parts that are decoded so.                                              *)
Decodes(decode, parts) ==
  \A i \in DOMAIN parts :
    LET p == parts[i]
    IN  /\ p.type \in Type /\ p.cells \in Seq(Cell) /\ Len(p.cells) = type_size(p.type)
        /\ IsValue(p.value)
        /\ decode[<<p.cells, p.type>>] = Reading(p)

(* read holds what is made of n parts.                                     *)
AreReadings(read, parts, n) ==
  /\ n \in Nat /\ DOMAIN parts = 1..n /\ DOMAIN read = 1..n
  /\ \A i \in 1..n : IsValue(parts[i].value) /\ read[i] = Reading(parts[i])

(* A value is collected from its parts once the memory of all is written.  *)
LEMMA CollectsReadings ==
  ASSUME NEW n, NEW inner, NEW read, AreReadings(read, inner, n), NEW made
  PROVE  Collect(read, made) = IF HeapOf(inner) \subseteq DOMAIN memory THEN made ELSE NoValue
<1>1. ~ IsValue(NoValue)
  BY DEF IsValue, NoValue
<1>2. /\ n \in Nat /\ DOMAIN inner = 1..n /\ DOMAIN read = 1..n
      /\ \A i \in 1..n : IsValue(inner[i].value) /\ read[i] = Reading(inner[i])
  BY DEF AreReadings
<1>3. \A i \in 1..n : IsValue(read[i]) \/ read[i] = NoValue
  BY <1>2 DEF Reading
<1>4. \A i \in 1..n : IsValue(read[i]) <=> inner[i].heap \subseteq DOMAIN memory
  BY <1>1, <1>2 DEF Reading
<1>5. Collect(read, made) = IF \A i \in 1..n : IsValue(read[i]) THEN made ELSE NoValue
  BY <1>2, <1>3, CollectsValues
<1>6. HeapOf(inner) \subseteq DOMAIN memory
        <=> \A i \in 1..n : inner[i].heap \subseteq DOMAIN memory
  BY <1>2 DEF HeapOf
<1>7. QED
  BY <1>4, <1>5, <1>6

LEMMA ReadingsAreValues ==
  ASSUME NEW n, NEW inner, NEW read, AreReadings(read, inner, n),
         HeapOf(inner) \subseteq DOMAIN memory
  PROVE  \A i \in 1..n : read[i] = inner[i].value
<1>1. \A i \in 1..n : inner[i].heap \subseteq DOMAIN memory
  BY DEF HeapOf, AreReadings
<1>2. QED
  BY <1>1 DEF AreReadings, Reading

(* Members are found where they lie.                                       *)
LEMMA MembersLieAtOffsets ==
  ASSUME NEW S, NEW inner \in Seq(S), NEW members \in Seq(Type), NEW decode,
         Decodes(decode, inner), Len(inner) = Len(members),
         \A i \in DOMAIN inner :
           /\ inner[i].type = members[i]
           /\ inner[i].at = IF i = 1 THEN 0 ELSE inner[i - 1].at + Len(inner[i - 1].cells)
  PROVE  \A i \in DOMAIN inner : Offsets(members)[i - 1] = inner[i].at
<1> DEFINE Bad == {i \in Nat : i \in DOMAIN inner /\ Offsets(members)[i - 1] # inner[i].at}
<1>1. SUFFICES ASSUME Bad # {} PROVE FALSE
  OBVIOUS
<1>2. PICK i \in Bad : \A k \in Bad : i <= k
  BY <1>1, LeastElement
<1>3. i \in 1..Len(inner) /\ DOMAIN inner = 1..Len(inner)
  BY <1>2
<1>4. CASE i = 1
  <2>1. Offsets(members)[0] = 0
    BY OffsetsEquation
  <2>2. QED
    BY <1>2, <1>3, <1>4, <2>1
<1>5. CASE i # 1
  <2>1. i - 1 \in Nat /\ i - 2 \in Nat /\ i - 1 \in DOMAIN inner /\ i - 1 # 0
    BY <1>3, <1>5
  <2>2. Offsets(members)[i - 2] = inner[i - 1].at
    <3>1. i - 1 \notin Bad /\ (i - 1) - 1 = i - 2
      BY <1>2, <2>1
    <3>2. QED
      BY <2>1, <3>1
  <2>3. Offsets(members)[i - 1] = Offsets(members)[(i - 1) - 1] + type_size(members[i - 1])
    BY <2>1, OffsetsEquation
  <2>4. Len(inner[i - 1].cells) = type_size(members[i - 1])
    <3>1. \A j \in DOMAIN inner : Len(inner[j].cells) = type_size(inner[j].type)
      BY DEF Decodes
    <3>2. QED
      BY <2>1, <3>1
  <2>5. inner[i].at = inner[i - 1].at + Len(inner[i - 1].cells)
    BY <1>3, <1>5
  <2>6. (i - 1) - 1 = i - 2
    BY <1>3
  <2>7. QED
    BY <1>2, <2>2, <2>3, <2>4, <2>5, <2>6
<1>6. QED
  BY <1>4, <1>5

LEMMA SliceOfCells ==
  ASSUME NEW cells \in Seq(Cell), NEW q \in Seq(Cell), NEW at \in Nat,
         at + Len(q) <= Len(cells), \A j \in DOMAIN q : cells[at + j] = q[j]
  PROVE  SubSeq(cells, at + 1, at + Len(q)) = q
<1> DEFINE slice == SubSeq(cells, at + 1, at + Len(q))
<1>1. slice = [j \in 1..Len(q) |-> cells[at + j]]
  OBVIOUS
<1>2. q = [j \in 1..Len(q) |-> q[j]]
  OBVIOUS
<1>3. \A j \in 1..Len(q) : cells[at + j] = q[j]
  <2>1. DOMAIN q = 1..Len(q)
    OBVIOUS
  <2>2. QED
    BY <2>1
<1> HIDE DEF slice
<1>4. slice = q
  BY <1>1, <1>2, <1>3
<1>5. QED
  BY <1>4 DEF slice

LEMMA DecodesStruct ==
  ASSUME NEW S, NEW inner \in Seq(S), NEW decode, Decodes(decode, inner),
         NEW p, p.type \in Type, p.cells \in Seq(Cell),
         TypeDef[p.type].members \in Seq(Type),
         IsStruct(p, TypeDef[p.type], inner), \A i \in DOMAIN inner : inner[i].at \in Nat
  PROVE  extract_struct(decode, p.cells, p.type) = Reading(p)
<1> DEFINE d       == TypeDef[p.type]
           members == d.members
           slices  == member_slices(members, p.cells)
           fields  == [i \in DOMAIN members |-> decode[<<slices[i], members[i]>>]]
<1>1. /\ Len(inner) = Len(members)
      /\ \A i \in DOMAIN inner :
           /\ inner[i].type = members[i] /\ LiesIn(inner[i], p)
           /\ inner[i].at = IF i = 1 THEN 0 ELSE inner[i - 1].at + Len(inner[i - 1].cells)
      /\ p.value = [kind |-> d.kind, fields |-> [i \in DOMAIN inner |-> inner[i].value]]
      /\ p.heap = HeapOf(inner)
  BY DEF IsStruct
<1>2. DOMAIN inner = DOMAIN members
  BY <1>1
<1>3. \A i \in DOMAIN inner : Offsets(members)[i - 1] = inner[i].at
  BY <1>1, MembersLieAtOffsets
<1>4. ASSUME NEW i \in DOMAIN inner PROVE slices[i] = inner[i].cells
  <2> DEFINE at == inner[i].at
             q  == inner[i].cells
  <2>1. q \in Seq(Cell) /\ Len(q) = type_size(members[i])
    <3>1. \A j \in DOMAIN inner :
            inner[j].cells \in Seq(Cell) /\ Len(inner[j].cells) = type_size(inner[j].type)
      BY DEF Decodes
    <3>2. QED
      BY <1>1, <3>1
  <2>2. at \in Nat /\ at + Len(q) <= Len(p.cells) /\ \A j \in DOMAIN q : p.cells[at + j] = q[j]
    BY <1>1 DEF LiesIn
  <2>3. slices[i] = SubSeq(p.cells, at + 1, at + Len(q))
    BY <1>2, <1>3, <2>1 DEF member_slices
  <2> HIDE DEF at, q
  <2>4. SubSeq(p.cells, at + 1, at + Len(q)) = q
    BY <2>1, <2>2, SliceOfCells
  <2>5. QED
    BY <2>3, <2>4 DEF q
<1>5. fields = [i \in DOMAIN inner |-> Reading(inner[i])]
  <2>1. \A i \in DOMAIN inner : decode[<<slices[i], members[i]>>] = Reading(inner[i])
    BY <1>1, <1>4 DEF Decodes
  <2> HIDE DEF slices
  <2>2. QED
    BY <1>2, <2>1
<1>6. extract_struct(decode, p.cells, p.type)
        = Collect(fields, [kind |-> d.kind, fields |-> fields])
  <2>1. \A i \in DOMAIN members : ~ (Offsets(members)[i] > Len(p.cells))
    <3> SUFFICES ASSUME NEW i \in DOMAIN members PROVE ~ (Offsets(members)[i] > Len(p.cells))
      OBVIOUS
    <3>1. i \in Nat /\ i # 0 /\ i \in DOMAIN inner
      BY <1>2
    <3>2. Offsets(members)[i] = Offsets(members)[i - 1] + type_size(members[i])
      BY <3>1, OffsetsEquation
    <3>3. Len(inner[i].cells) = type_size(members[i])
      <4>1. \A j \in DOMAIN inner : Len(inner[j].cells) = type_size(inner[j].type)
        BY DEF Decodes
      <4>2. QED
        BY <1>1, <3>1, <4>1
    <3>4. Offsets(members)[i - 1] = inner[i].at
      BY <1>3, <3>1
    <3>5. /\ inner[i].at + Len(inner[i].cells) <= Len(p.cells)
          /\ inner[i].at \in Nat /\ Len(inner[i].cells) \in Nat /\ Len(p.cells) \in Nat
      <4>1. \A j \in DOMAIN inner : inner[j].cells \in Seq(Cell)
        BY DEF Decodes
      <4>2. QED
        BY <1>1, <3>1, <4>1 DEF LiesIn
    <3>6. QED
      BY <3>2, <3>3, <3>4, <3>5
  <2>2. ~ \E i \in DOMAIN members : Offsets(members)[i] > Len(p.cells)
    BY <2>1
  <2>3. QED
    BY <2>2 DEF extract_struct
<1> HIDE DEF fields
<1> DEFINE made == [kind |-> d.kind, fields |-> fields]
           n    == Len(inner)
<1> HIDE DEF made
<1>7. /\ Collect(fields, made) = IF HeapOf(inner) \subseteq DOMAIN memory THEN made ELSE NoValue
      /\ HeapOf(inner) \subseteq DOMAIN memory => \A i \in 1..n : fields[i] = inner[i].value
  <2>1. n \in Nat /\ DOMAIN inner = 1..n
    OBVIOUS
  <2>2. DOMAIN fields = 1..n /\ \A i \in 1..n : fields[i] = Reading(inner[i])
    BY <1>5, <2>1
  <2>3. \A i \in 1..n : IsValue(inner[i].value)
    BY <2>1 DEF Decodes
  <2> HIDE DEF n
  <2>4. AreReadings(fields, inner, n)
    BY <2>1, <2>2, <2>3 DEF AreReadings
  <2>5. HeapOf(inner) \subseteq DOMAIN memory => \A i \in 1..n : fields[i] = inner[i].value
    BY <2>4, ReadingsAreValues
  <2>6. Collect(fields, made) = IF HeapOf(inner) \subseteq DOMAIN memory THEN made ELSE NoValue
    BY <2>4, CollectsReadings
  <2>7. QED
    BY <2>5, <2>6
<1>8. ASSUME HeapOf(inner) \subseteq DOMAIN memory PROVE made = p.value
  <2>1. fields = [i \in DOMAIN inner |-> inner[i].value]
    <3>1. DOMAIN inner = 1..n /\ fields = [i \in DOMAIN inner |-> fields[i]]
      BY <1>5
    <3> HIDE DEF n
    <3>2. QED
      BY <1>7, <1>8, <3>1
  <2>2. QED
    BY <1>1, <2>1 DEF made
<1>9. QED
  BY <1>1, <1>6, <1>7, <1>8 DEF Reading, made

(* A value that is collected from one part.                                *)
LEMMA CollectsOne ==
  ASSUME NEW q, IsValue(q.value), NEW read, read = Reading(q), NEW made
  PROVE  Collect(<<read>>, made) = IF q.heap \subseteq DOMAIN memory THEN made ELSE NoValue
<1> DEFINE list == <<read>>
<1>1. DOMAIN list = 1..1 /\ list[1] = read
  OBVIOUS
<1>2. ~ IsValue(NoValue)
  BY DEF IsValue, NoValue
<1>3. \A i \in 1..1 : IsValue(list[i]) \/ list[i] = NoValue
  BY <1>1 DEF Reading
<1> HIDE DEF list
<1>4. Collect(list, made) = IF \A i \in 1..1 : IsValue(list[i]) THEN made ELSE NoValue
  <2> DEFINE n == 1
  <2>1. n \in Nat /\ DOMAIN list = 1..n /\ \A i \in 1..n : IsValue(list[i]) \/ list[i] = NoValue
    BY <1>1, <1>3
  <2> HIDE DEF n
  <2>2. Collect(list, made) = IF \A i \in 1..n : IsValue(list[i]) THEN made ELSE NoValue
    BY <2>1, CollectsValues
  <2>3. QED
    BY <2>2 DEF n
<1>5. (\A i \in 1..1 : IsValue(list[i])) <=> IsValue(read)
  BY <1>1
<1>6. QED
  BY <1>2, <1>4, <1>5 DEF Reading, list

LEMMA DecodesWrapper ==
  ASSUME NEW S, NEW inner \in Seq(S), NEW decode, Decodes(decode, inner),
         NEW p, p.type \in Type, IsWrapper(p, TypeDef[p.type], inner)
  PROVE  LET d     == TypeDef[p.type]
             value == decode[<<p.cells, d.inner>>]
         IN  Collect(<<value>>, [kind |-> d.kind, value |-> value]) = Reading(p)
<1> DEFINE d     == TypeDef[p.type]
           q     == inner[1]
           value == decode[<<p.cells, d.inner>>]
<1>1. /\ 1 \in DOMAIN inner /\ q.type = d.inner /\ q.cells = p.cells
      /\ p.value = [kind |-> d.kind, value |-> q.value] /\ p.heap = q.heap
  BY DEF IsWrapper
<1>2. value = Reading(q) /\ IsValue(q.value)
  BY <1>1 DEF Decodes
<1> HIDE DEF value, q
<1> DEFINE made == [kind |-> d.kind, value |-> value]
<1> HIDE DEF made
<1>3. Collect(<<value>>, made) = IF q.heap \subseteq DOMAIN memory THEN made ELSE NoValue
  BY <1>2, CollectsOne
<1>4. q.heap \subseteq DOMAIN memory => made = p.value
  BY <1>1, <1>2 DEF made, Reading
<1>5. QED
  BY <1>1, <1>3, <1>4 DEF Reading, value, made

LEMMA PayloadIsAtTheEnd ==
  ASSUME NEW cells \in Seq(Cell), NEW q \in Seq(Cell), NEW at \in Nat, at > 0,
         at + Len(q) = Len(cells), \A j \in DOMAIN q : cells[at + j] = q[j]
  PROVE  variant_values(Tail(cells), Len(q)) = q
<1> DEFINE rest == Tail(cells)
           m    == Len(q)
<1>1. cells # << >> /\ m \in Nat /\ DOMAIN q = 1..m
  OBVIOUS
<1>2. /\ rest \in Seq(Cell) /\ Len(rest) = Len(cells) - 1
      /\ \A j \in 1..Len(rest) : rest[j] = cells[j + 1]
  BY <1>1
<1>3. at - 1 \in Nat /\ (at - 1) + m = Len(rest) /\ Len(rest) - m + 1 = (at - 1) + 1
  BY <1>1, <1>2
<1>4. \A j \in 1..m : (at - 1) + j \in 1..Len(rest) /\ (at - 1) + j + 1 = at + j
  BY <1>1, <1>3
<1> HIDE DEF rest
<1>5. \A j \in DOMAIN q : rest[(at - 1) + j] = q[j]
  BY <1>1, <1>2, <1>4
<1>6. SubSeq(rest, (at - 1) + 1, (at - 1) + m) = q
  BY <1>2, <1>3, <1>5, SliceOfCells
<1>7. QED
  BY <1>3, <1>6 DEF variant_values, rest

LEMMA DecodesEnum ==
  ASSUME NEW S, NEW inner \in Seq(S), NEW decode, Decodes(decode, inner),
         NEW p, p.type \in Type, p.cells \in Seq(Cell),
         TypeDef[p.type].variants \in Seq(Type), 2 * Len(TypeDef[p.type].variants) <= MaxDiscriminant,
         IsEnum(p, TypeDef[p.type], inner), \A i \in DOMAIN inner : inner[i].at \in Nat
  PROVE  extract_enum(decode, p.cells, p.type) = Reading(p)
<1> DEFINE d        == TypeDef[p.type]
           variants == d.variants
           n        == Len(variants)
           q        == inner[1]
<1>1. PICK v \in DOMAIN variants :
        /\ Len(inner) = 1
        /\ q.type = variants[v] /\ LiesIn(q, p)
        /\ q.at > 0 /\ q.at + Len(q.cells) = Len(p.cells)
        /\ p.cells[1] = Int_(Discriminant(v - 1, n))
        /\ p.value = [kind |-> "enum", variant |-> v - 1, value |-> q.value]
        /\ p.heap = q.heap
  BY DEF IsEnum
<1>2. n \in Nat /\ v \in 1..n /\ v - 1 \in 0..(n - 1) /\ v - 1 < n
  <2>1. n \in Nat /\ DOMAIN variants = 1..n
    OBVIOUS
  <2> HIDE DEF variants, n
  <2>2. QED
    BY <2>1
<1>3. /\ 1 \in DOMAIN inner /\ q.type \in Type /\ q.cells \in Seq(Cell)
      /\ Len(q.cells) = type_size(q.type) /\ IsValue(q.value)
      /\ decode[<<q.cells, q.type>>] = Reading(q) /\ q.at \in Nat
  BY <1>1 DEF Decodes
<1> HIDE DEF q
<1> DEFINE index   == variant_index(p.cells[1].n, n)
           variant == variants[index + 1]
           payload == variant_values(Tail(p.cells), type_size(variant))
           value   == decode[<<payload, variant>>]
<1>4. p.cells[1].tag = "int" /\ p.cells[1].n = Discriminant(v - 1, n) % Prime
  BY <1>1 DEF Int_
<1>5. index = v - 1
  BY <1>2, <1>4, VariantIndexOfDiscriminant
<1>6. variant = q.type
  <2> HIDE DEF index
  <2>1. v - 1 + 1 = v
    BY <1>2
  <2>2. QED
    BY <1>1, <1>5, <2>1
<1>7. payload = q.cells
  <2>1. variant_values(Tail(p.cells), Len(q.cells)) = q.cells
    BY <1>1, <1>3, PayloadIsAtTheEnd DEF LiesIn
  <2>2. QED
    BY <1>3, <1>6, <2>1
<1>8. value = Reading(q)
  BY <1>3, <1>6, <1>7
<1> HIDE DEF index, variant, payload
<1>9. extract_enum(decode, p.cells, p.type) =
        Collect(<<value>>, [kind |-> "enum", variant |-> index, value |-> value])
  <2>1. ~ (index >= n)
    BY <1>2, <1>5
  <2>2. ~ (p.cells[1].n > UsizeMax)
    BY <1>2, <1>4, VariantIndexOfDiscriminant
  <2>3. p.cells # << >> /\ ~ (type_size(variant) > Len(p.cells) - 1)
    <3>1. type_size(variant) = Len(q.cells) /\ Len(q.cells) \in Nat /\ Len(p.cells) \in Nat
      BY <1>3, <1>6
    <3>2. Len(p.cells) > 0 /\ ~ (type_size(variant) > Len(p.cells) - 1)
      BY <1>1, <1>3, <3>1
    <3>3. QED
      BY <3>2
  <2>4. QED
    BY <1>4, <2>1, <2>2, <2>3 DEF extract_enum, index, variant, payload
<1> HIDE DEF value
<1> DEFINE made == [kind |-> "enum", variant |-> index, value |-> value]
<1> HIDE DEF made
<1>10. Collect(<<value>>, made) = IF q.heap \subseteq DOMAIN memory THEN made ELSE NoValue
  BY <1>3, <1>8, CollectsOne
<1>11. q.heap \subseteq DOMAIN memory => made = p.value
  BY <1>1, <1>5, <1>8 DEF made, Reading
<1>12. QED
  BY <1>1, <1>9, <1>10, <1>11 DEF Reading, made

(* All cells of a leaf are kept when none of them is a pointer.            *)
LEMMA PlainIsKept ==
  ASSUME NEW cells \in Seq(Felt)
  PROVE  fallback_value(cells) = Plain(cells)
  BY FeltsOfFelts DEF fallback_value, Plain

LEMMA DecodesLeaf ==
  ASSUME NEW decode, NEW p, p.type \in Type, p.cells \in Seq(Cell),
         TypeDef[p.type].kind \in {"bool", "starknet", "other"},
         TypeDef[p.type].kind = "starknet" => TypeDef[p.type].named \in BOOLEAN,
         TypeDef[p.type].kind \in {"starknet", "other"} =>
           \A j \in DOMAIN p.cells : p.cells[j] \in Felt,
         IsLeaf(p, TypeDef[p.type])
  PROVE  maybe_relocatables_to_cairo_value(memory, decode, p.cells, p.type) = Reading(p)
<1> DEFINE d == TypeDef[p.type]
<1>1. Reading(p) = p.value
  BY DEF IsLeaf, Reading
<1>2. CASE d.kind = "bool"
  <2>1. PICK b \in {0, 1} : p.cells = <<Int_(b)>> /\ p.value = [kind |-> "bool", value |-> b # 0]
    BY <1>2 DEF IsLeaf
  <2>2. Int_(b).tag = "int" /\ Int_(b).n = b
    <3>1. b \in 0..(Prime - 1)
      BY FieldFacts
    <3>2. b % Prime = b
      BY <3>1, SmallRemainder
    <3>3. QED
      BY <3>2 DEF Int_
  <2>3. p.cells # << >> /\ p.cells[1].tag = "int" /\ p.cells[1].n = b /\ ~ (b > UsizeMax)
    BY <2>1, <2>2, IndexFacts
  <2>4. extract_bool(p.cells) = p.value
    BY <2>1, <2>3 DEF extract_bool
  <2>5. QED
    BY <1>1, <1>2, <2>4 DEF maybe_relocatables_to_cairo_value
<1>3. CASE d.kind = "starknet"
  <2>1. p.cells \in Seq(Felt) /\ p.cells # << >>
    BY <1>3 DEF IsLeaf
  <2>2. p.cells[1].tag = "int"
    <3>1. p.cells[1] \in Felt
      BY <2>1
    <3>2. QED
      BY <3>1 DEF Felt
  <2>3. maybe_relocatables_to_cairo_value(memory, decode, p.cells, p.type)
          = extract_starknet(p.cells, d.named)
    BY <1>3 DEF maybe_relocatables_to_cairo_value
  <2>4. CASE d.named
    <3>1. Len(p.cells) = 1 /\ p.value = [kind |-> "starknet", cells |-> p.cells]
      BY <1>3, <2>4 DEF IsLeaf
    <3>2. SubSeq(p.cells, 1, 1) = p.cells
      BY <2>1, <3>1
    <3>3. QED
      BY <1>1, <2>1, <2>2, <2>3, <2>4, <3>1, <3>2 DEF extract_starknet
  <2>5. CASE ~ d.named
    <3>1. p.value = Plain(p.cells)
      BY <1>3, <2>5 DEF IsLeaf
    <3>2. QED
      BY <1>1, <2>1, <2>2, <2>3, <2>5, <3>1, PlainIsKept DEF extract_starknet
  <2>6. QED
    BY <2>4, <2>5
<1>4. CASE d.kind = "other"
  <2>1. p.cells \in Seq(Felt) /\ p.value = Plain(p.cells)
    BY <1>4 DEF IsLeaf
  <2>2. maybe_relocatables_to_cairo_value(memory, decode, p.cells, p.type) = fallback_value(p.cells)
    BY <1>4 DEF maybe_relocatables_to_cairo_value
  <2>3. QED
    BY <1>1, <2>1, <2>2, PlainIsKept
<1>5. QED
  BY <1>2, <1>3, <1>4

LEMMA WholeElements ==
  ASSUME NEW n \in Nat, NEW size \in Nat, size # 0
  PROVE  (n * size) % size = 0 /\ (n * size) \div size = n /\ ~ (n * size < 0)
<1> DEFINE q == (n * size) \div size
           r == (n * size) % size
<1>1. q \in Int /\ r \in 0..(size - 1) /\ n * size = size * q + r /\ n * size >= 0
  OBVIOUS
<1> HIDE DEF q, r
<1>2. size * (n - q) = r
  BY <1>1
<1>3. ~ (n - q >= 1)
  BY <1>1, <1>2
<1>4. ~ (n - q <= -1)
  BY <1>1, <1>2
<1>5. n = q /\ r = 0
  BY <1>1, <1>2, <1>3, <1>4
<1>6. QED
  BY <1>1, <1>5 DEF q, r

(* An element is decoded once its cells in memory are all written.         *)
LEMMA DecodesArray ==
  ASSUME MemoryInv, NEW S, NEW inner \in Seq(S), NEW decode, Decodes(decode, inner),
         NEW p, p.type \in Type, p.cells \in Seq(Cell), p.heap \subseteq DOMAIN Variable.written,
         TypeDef[p.type].kind = "array", TypeDef[p.type].element \in Type,
         TypeSize[TypeDef[p.type].element] \in Nat,
         inner # << >> => type_size(TypeDef[p.type].element) # 0,
         IsArray(Variable, p, TypeDef[p.type], inner)
  PROVE  maybe_relocatables_to_cairo_value(memory, decode, p.cells, p.type) = Reading(p)
<1> DEFINE d     == TypeDef[p.type]
           size  == type_size(d.element)
           start == p.cells[1]
           n     == Len(inner)
           own   == {ElementCell(p, size, i, j) : i \in DOMAIN inner, j \in 1..size}
           made  == extract_array_from_pointers(memory, decode, start, p.cells[2], d.element)
           value == [kind |-> "array", elements |-> [i \in DOMAIN inner |-> inner[i].value]]
<1>1. /\ Len(p.cells) = 2 /\ start.tag = "ptr"
      /\ p.cells[2] = Ptr(start.seg, start.off + n * size)
      /\ \A i \in DOMAIN inner :
           /\ inner[i].type = d.element
           /\ \A j \in 1..size : Variable.written[ElementCell(p, size, i, j)] = inner[i].cells[j]
      /\ p.value = value /\ p.heap = own \union HeapOf(inner)
  BY DEF IsArray
<1>2. n \in Nat /\ DOMAIN inner = 1..n /\ size \in Nat
  BY DEF type_size
<1>3. start \in Cell /\ start.seg \in Nat /\ start.off \in Nat
  BY <1>1, CellTags
<1>4. p.cells[2].tag = "ptr" /\ p.cells[2].seg = start.seg /\ p.cells[2].off = start.off + n * size
  BY <1>1 DEF Ptr
<1>5. maybe_relocatables_to_cairo_value(memory, decode, p.cells, p.type) = made
  BY <1>1, <1>4 DEF maybe_relocatables_to_cairo_value
<1>6. CASE size = 0
  <2>1. made = [kind |-> "array", elements |-> << >>]
    BY <1>4, <1>6 DEF extract_array_from_pointers
  <2>2. DOMAIN inner = {}
    BY <1>6
  <2>3. p.heap = {}
    BY <1>1, <2>2 DEF HeapOf
  <2>4. p.value = [kind |-> "array", elements |-> << >>]
    <3>1. [i \in DOMAIN inner |-> inner[i].value] = << >>
      BY <2>2
    <3>2. QED
      BY <1>1, <3>1
  <2>5. QED
    BY <1>5, <2>1, <2>3, <2>4 DEF Reading
<1>7. CASE size # 0
  <2> DEFINE Address(i) == [j \in 1..size |-> ElementCell(p, size, i, j)]
             Cells(i) == [j \in 1..size |->
                            read_relocatable(memory, <<start.seg, start.off + (i - 1) * size + j - 1>>)]
             elements == [i \in 1..n |->
                            IF \E j \in 1..size : Cells(i)[j].tag = "none" THEN NoValue
                            ELSE decode[<<Cells(i), d.element>>]]
             parts    == [i \in 1..n |->
                            [heap  |-> {Address(i)[j] : j \in 1..size} \union inner[i].heap,
                             value |-> inner[i].value]]
  <2>1. (p.cells[2].off - start.off) = n * size
    BY <1>2, <1>3, <1>4
  <2>2. made = Collect(elements, [kind |-> "array", elements |-> elements])
    <3>1. (n * size) % size = 0 /\ (n * size) \div size = n /\ ~ (n * size < 0)
      BY <1>2, <1>7, WholeElements
    <3>2. QED
      BY <1>4, <1>7, <2>1, <3>1 DEF extract_array_from_pointers
  <2>3. ASSUME NEW i \in 1..n
        PROVE  elements[i] = Reading(parts[i])
    <3>1. /\ inner[i].cells \in Seq(Cell) /\ Len(inner[i].cells) = size
          /\ decode[<<inner[i].cells, d.element>>] = Reading(inner[i])
      <4>1. i \in DOMAIN inner /\ inner[i].type = d.element
        BY <1>1, <1>2
      <4>2. QED
        BY <4>1 DEF Decodes
    <3>2. \A j \in 1..size : /\ Address(i)[j] \in DOMAIN Variable.written
                             /\ Variable.written[Address(i)[j]] = inner[i].cells[j]
      BY <1>1, <1>2, <1>7
    <3>3. Cells(i) = [j \in 1..size |-> read_relocatable(memory, Address(i)[j])]
      BY DEF ElementCell
    <3> DEFINE q       == inner[i]
               address == Address(i)
               cells   == Cells(i)
    <3> HIDE DEF q, address, cells, size
    <3>4. (IF \E j \in 1..size : cells[j].tag = "none" THEN NoValue
           ELSE decode[<<cells, d.element>>]) =
             IF /\ \A j \in 1..size : address[j] \in DOMAIN memory
                /\ q.heap \subseteq DOMAIN memory
             THEN q.value ELSE NoValue
      <4>1. q.cells \in Seq(Cell) /\ Len(q.cells) = size
            /\ decode[<<q.cells, d.element>>] = Reading(q)
        BY <3>1 DEF q
      <4>2. \A j \in 1..size : /\ q.cells[j] \in Cell
                               /\ address[j] \in DOMAIN Variable.written
                               /\ Variable.written[address[j]] = q.cells[j]
        BY <3>2, <4>1 DEF q, address
      <4>3. \A j \in 1..size :
              cells[j] = IF address[j] \in DOMAIN memory THEN q.cells[j] ELSE NoCell
        BY <3>3, <4>2, ReadsWhatIsWritten DEF cells, address
      <4>4. \A j \in 1..size : cells[j].tag = "none" <=> address[j] \notin DOMAIN memory
        BY <4>2, <4>3, CellTags
      <4>5. CASE \A j \in 1..size : address[j] \in DOMAIN memory
        <5>1. \A j \in 1..size : cells[j] = q.cells[j]
          BY <4>3, <4>5
        <5>2. cells = [j \in 1..size |-> cells[j]]
          BY <3>3 DEF cells
        <5>3. q.cells = [j \in 1..size |-> q.cells[j]]
          BY <4>1
        <5>4. cells = q.cells
          BY <5>1, <5>2, <5>3
        <5>5. QED
          BY <4>1, <4>4, <4>5, <5>4 DEF Reading
      <4>6. CASE \E j \in 1..size : address[j] \notin DOMAIN memory
        BY <4>4, <4>6
      <4>7. QED
        BY <4>5, <4>6
    <3>5. elements[i] = IF \E j \in 1..size : cells[j].tag = "none" THEN NoValue
                        ELSE decode[<<cells, d.element>>]
      BY DEF cells
    <3>6. parts[i].heap = {address[j] : j \in 1..size} \union q.heap /\ parts[i].value = q.value
      BY DEF address, q
    <3> HIDE DEF elements, parts
    <3>7. QED
      BY <3>4, <3>5, <3>6 DEF Reading
  <2>4. HeapOf(parts) = p.heap
    <3> DEFINE Own(i) == {Address(i)[j] : j \in 1..size}
    <3>1. \A x : x \in HeapOf(parts) <=> \E i \in 1..n : x \in Own(i) \/ x \in inner[i].heap
      BY DEF HeapOf
    <3>2. \A x : x \in own <=> \E i \in 1..n : x \in Own(i)
      BY <1>2
    <3>3. \A x : x \in HeapOf(inner) <=> \E i \in 1..n : x \in inner[i].heap
      BY <1>2 DEF HeapOf
    <3> HIDE DEF Own, own, parts
    <3>4. HeapOf(parts) = own \union HeapOf(inner)
      BY <3>1, <3>2, <3>3
    <3>5. QED
      BY <1>1, <1>7, <3>4
  <2>5. p.value = value
    BY <1>1, <1>7
  <2>6. DOMAIN parts = 1..n /\ \A i \in 1..n : IsValue(parts[i].value)
    <3>1. \A i \in 1..n : IsValue(inner[i].value)
      BY <1>2 DEF Decodes
    <3>2. QED
      BY <3>1
  <2>7. DOMAIN elements = 1..n /\ elements = [i \in 1..n |-> elements[i]]
    OBVIOUS
  <2>8. \A i \in 1..n : parts[i].value = inner[i].value
    OBVIOUS
  <2> DEFINE whole == [kind |-> "array", elements |-> elements]
  <2> HIDE DEF elements, parts, whole
  <2>9. /\ Collect(elements, whole) = IF HeapOf(parts) \subseteq DOMAIN memory THEN whole ELSE NoValue
        /\ HeapOf(parts) \subseteq DOMAIN memory => \A i \in 1..n : elements[i] = parts[i].value
    <3>1. AreReadings(elements, parts, n)
      BY <1>2, <2>3, <2>6, <2>7 DEF AreReadings
    <3>2. QED
      BY <3>1, CollectsReadings, ReadingsAreValues
  <2>10. ASSUME HeapOf(parts) \subseteq DOMAIN memory PROVE whole = p.value
    <3>1. elements = [i \in 1..n |-> inner[i].value]
      BY <2>7, <2>8, <2>9, <2>10
    <3>2. QED
      BY <1>2, <2>5, <3>1 DEF whole
  <2>11. QED
    BY <1>5, <2>2, <2>4, <2>9, <2>10 DEF Reading, whole
<1>8. QED
  BY <1>6, <1>7

----------------------------------------------------------------------------
(* All parts, from the leaves up.                                          *)

Parts == Variable.parts

LEMMA PartFacts ==
  ASSUME MemoryInv, NEW k \in DOMAIN Parts
  PROVE  LET p == Parts[k]
         IN  /\ p.type \in Type /\ p.cells \in Seq(Cell) /\ Len(p.cells) = type_size(p.type)
             /\ p.at \in Nat /\ p.inner \in Seq((k + 1)..Len(Parts))
             /\ p.heap \subseteq DOMAIN Variable.written
             /\ IsLaidOut(Variable, k)
             /\ Len(Parts) \in Nat /\ DOMAIN Parts = 1..Len(Parts)
  BY SampleFacts DEF Parts, IsPart

LEMMA TypeFacts ==
  ASSUME NEW t \in Type
  PROVE  LET d == TypeDef[t]
         IN  /\ d.kind \in {"struct", "tuple", "enum", "snapshot", "nonzero", "array",
                            "bool", "starknet", "other"}
             /\ d.kind \in {"struct", "tuple"} => d.members \in Seq(Type)
             /\ d.kind = "enum" => d.variants \in Seq(Type) /\ 2 * Len(d.variants) <= MaxDiscriminant
             /\ d.kind \in {"snapshot", "nonzero"} => d.inner \in Type
             /\ d.kind = "array" => d.element \in Type /\ TypeSize[d.element] \in Nat
             /\ d.kind = "starknet" => d.named \in BOOLEAN
  BY ConstantsAssumption DEF TypeAssumption

LEMMA PartsHaveValues ==
  ASSUME MemoryInv, NEW k \in DOMAIN Parts
  PROVE  IsValue(Parts[k].value)
<1> DEFINE p     == Parts[k]
           d     == TypeDef[p.type]
           inner == Inner(Variable, k)
<1>1. p.type \in Type /\ IsLaidOut(Variable, k)
  BY PartFacts
<1>2. /\ d.kind \in {"struct", "tuple"} => IsStruct(p, d, inner)
      /\ d.kind = "enum" => IsEnum(p, d, inner)
      /\ d.kind \in {"snapshot", "nonzero"} => IsWrapper(p, d, inner)
      /\ d.kind = "array" => IsArray(Variable, p, d, inner)
      /\ d.kind \in {"bool", "starknet", "other"} => IsLeaf(p, d)
  BY <1>1 DEF IsLaidOut, Parts
<1>3. d.kind \in {"struct", "tuple", "enum", "snapshot", "nonzero", "array",
                  "bool", "starknet", "other"}
  BY <1>1, TypeFacts
<1> HIDE DEF p, d, inner
<1>4. IsValue(p.value)
  <2>1. CASE d.kind \in {"struct", "tuple"}
    BY <1>2, <2>1 DEF IsStruct, IsValue
  <2>2. CASE d.kind = "enum"
    <3>1. PICK q, v : p.value = [kind |-> "enum", variant |-> v, value |-> q]
      BY <1>2, <2>2 DEF IsEnum
    <3>2. QED
      BY <3>1 DEF IsValue
  <2>3. CASE d.kind \in {"snapshot", "nonzero"}
    BY <1>2, <2>3 DEF IsWrapper, IsValue
  <2>4. CASE d.kind = "array"
    BY <1>2, <2>4 DEF IsArray, IsValue
  <2>5. CASE d.kind \in {"bool", "starknet", "other"}
    <3>1. IsLeaf(p, d) /\ (d.kind = "starknet" => d.named \in BOOLEAN)
      BY <1>1, <1>2, <2>5, TypeFacts DEF p, d
    <3>2. p.value.kind \in {"bool", "starknet"} \/ p.value = Plain(p.cells)
      BY <2>5, <3>1 DEF IsLeaf
    <3>3. Plain(p.cells).kind \in {"felt", "other"}
      BY DEF Plain
    <3>4. p.value.kind \in {"bool", "starknet", "felt", "other"}
      BY <3>2, <3>3
    <3>5. QED
      BY <3>4 DEF IsValue
  <2>6. QED
    BY <1>3, <2>1, <2>2, <2>3, <2>4, <2>5
<1>5. QED
  BY <1>4 DEF p

(* A part is decoded when the parts in it are.                             *)
LEMMA DecodesPart ==
  ASSUME MemoryInv, Transparent(Variable), NEW k \in DOMAIN Parts, NEW decode,
         \A i \in (k + 1)..Len(Parts) :
           decode[<<Parts[i].cells, Parts[i].type>>] = Reading(Parts[i])
  PROVE  maybe_relocatables_to_cairo_value(memory, decode, Parts[k].cells, Parts[k].type)
           = Reading(Parts[k])
<1> DEFINE p     == Parts[k]
           d     == TypeDef[p.type]
           inner == Inner(Variable, k)
           S     == {Parts[i] : i \in (k + 1)..Len(Parts)}
<1>1. /\ p.type \in Type /\ p.cells \in Seq(Cell) /\ Len(p.cells) = type_size(p.type)
      /\ p.heap \subseteq DOMAIN Variable.written /\ p.inner \in Seq((k + 1)..Len(Parts))
      /\ IsLaidOut(Variable, k)
  BY PartFacts
<1>2. inner = [i \in DOMAIN p.inner |-> Parts[p.inner[i]]]
  BY DEF Inner, Parts
<1>3. inner \in Seq(S)
  <2> DEFINE numbers == p.inner
             Above   == (k + 1)..Len(Parts)
  <2>1. numbers \in Seq(Above)
    BY <1>1
  <2>2. inner = [i \in DOMAIN numbers |-> Parts[numbers[i]]]
    BY <1>2
  <2> HIDE DEF numbers, Above, inner
  <2>3. \A i \in DOMAIN numbers : numbers[i] \in Above
    BY <2>1
  <2>4. \A i \in DOMAIN numbers : Parts[numbers[i]] \in S
    BY <2>3 DEF Above
  <2> HIDE DEF S
  <2>5. QED
    BY <2>1, <2>2, <2>4
<1>4. \A i \in DOMAIN inner : \E j \in (k + 1)..Len(Parts) : inner[i] = Parts[j]
  <2>1. \A i \in DOMAIN inner : inner[i] \in S
    <3> HIDE DEF inner, S
    <3>1. QED
      BY <1>3
  <2>2. QED
    BY <2>1
<1>5. \A j \in (k + 1)..Len(Parts) : j \in DOMAIN Parts
  BY PartFacts
<1>6. \A i \in DOMAIN inner : inner[i].at \in Nat
  BY <1>4, <1>5, PartFacts
<1>7. Decodes(decode, inner)
  <2> SUFFICES ASSUME NEW i \in DOMAIN inner
               PROVE  LET q == inner[i]
                      IN  /\ q.type \in Type /\ q.cells \in Seq(Cell)
                          /\ Len(q.cells) = type_size(q.type) /\ IsValue(q.value)
                          /\ decode[<<q.cells, q.type>>] = Reading(q)
    BY DEF Decodes
  <2>1. PICK j \in (k + 1)..Len(Parts) : inner[i] = Parts[j]
    BY <1>4
  <2>2. QED
    BY <1>5, <2>1, PartFacts, PartsHaveValues
<1>8. /\ d.kind \in {"struct", "tuple"} => IsStruct(p, d, inner)
      /\ d.kind = "enum" => IsEnum(p, d, inner)
      /\ d.kind \in {"snapshot", "nonzero"} => IsWrapper(p, d, inner)
      /\ d.kind = "array" => IsArray(Variable, p, d, inner)
      /\ d.kind \in {"bool", "starknet", "other"} => IsLeaf(p, d)
  BY <1>1 DEF IsLaidOut, Parts
<1>9. /\ d.kind \in {"struct", "tuple", "enum", "snapshot", "nonzero", "array",
                      "bool", "starknet", "other"}
      /\ d.kind \in {"struct", "tuple"} => d.members \in Seq(Type)
      /\ d.kind = "enum" => d.variants \in Seq(Type) /\ 2 * Len(d.variants) <= MaxDiscriminant
      /\ d.kind = "array" => d.element \in Type /\ TypeSize[d.element] \in Nat
      /\ d.kind = "starknet" => d.named \in BOOLEAN
  BY <1>1, TypeFacts
<1> HIDE DEF p, inner, S
<1>10. /\ d.kind \in {"starknet", "other"} => \A j \in DOMAIN p.cells : p.cells[j] \in Felt
       /\ d.kind = "array" /\ p.inner # << >> => type_size(d.element) # 0
  BY DEF Transparent, Parts, p
<1>11. CASE d.kind \in {"struct", "tuple"}
  <2>1. maybe_relocatables_to_cairo_value(memory, decode, p.cells, p.type)
          = extract_struct(decode, p.cells, p.type)
    BY <1>11 DEF maybe_relocatables_to_cairo_value
  <2>2. extract_struct(decode, p.cells, p.type) = Reading(p)
    BY <1>1, <1>3, <1>6, <1>7, <1>8, <1>9, <1>11, DecodesStruct
  <2>3. QED
    BY <2>1, <2>2 DEF p
<1>12. CASE d.kind = "enum"
  <2>1. maybe_relocatables_to_cairo_value(memory, decode, p.cells, p.type)
          = extract_enum(decode, p.cells, p.type)
    BY <1>12 DEF maybe_relocatables_to_cairo_value
  <2>2. extract_enum(decode, p.cells, p.type) = Reading(p)
    BY <1>1, <1>3, <1>6, <1>7, <1>8, <1>9, <1>12, DecodesEnum
  <2>3. QED
    BY <2>1, <2>2 DEF p
<1>13. CASE d.kind \in {"snapshot", "nonzero"}
  <2> DEFINE value == decode[<<p.cells, d.inner>>]
  <2>1. maybe_relocatables_to_cairo_value(memory, decode, p.cells, p.type)
          = Collect(<<value>>, [kind |-> d.kind, value |-> value])
    BY <1>13 DEF maybe_relocatables_to_cairo_value
  <2>2. Collect(<<value>>, [kind |-> d.kind, value |-> value]) = Reading(p)
    BY <1>1, <1>3, <1>7, <1>8, <1>13, DecodesWrapper
  <2>3. QED
    BY <2>1, <2>2 DEF p
<1>14. CASE d.kind = "array"
  <2>1. inner # << >> => type_size(d.element) # 0
    BY <1>2, <1>10, <1>14
  <2>2. IsArray(Variable, p, d, inner)
    BY <1>8, <1>14
  <2>3. d.element \in Type /\ TypeSize[d.element] \in Nat
    BY <1>9, <1>14
  <2>4. maybe_relocatables_to_cairo_value(memory, decode, p.cells, p.type) = Reading(p)
    BY <1>1, <1>3, <1>7, <1>14, <2>1, <2>2, <2>3, DecodesArray
  <2>5. QED
    BY <2>4 DEF p
<1>15. CASE d.kind \in {"bool", "starknet", "other"}
  BY <1>1, <1>8, <1>9, <1>10, <1>15, DecodesLeaf DEF p
<1>16. QED
  BY <1>9, <1>11, <1>12, <1>13, <1>14, <1>15

(* Part k has at most as many levels below it as there are parts after it. *)
LEMMA DecodedParts ==
  ASSUME MemoryInv, Transparent(Variable), NEW k \in DOMAIN Parts, NEW n \in Nat, n > Len(Parts) - k
  PROVE  Decoded(memory)[n][<<Parts[k].cells, Parts[k].type>>] = Reading(Parts[k])
<1> DEFINE Right(i, m) == Decoded(memory)[m][<<Parts[i].cells, Parts[i].type>>] = Reading(Parts[i])
           Bad == {m \in Nat : \E i \in DOMAIN Parts : m > Len(Parts) - i /\ ~ Right(i, m)}
<1>1. SUFFICES ASSUME Bad # {} PROVE FALSE
  OBVIOUS
<1>2. PICK m \in Bad : \A j \in Bad : m <= j
  <2>1. Bad \subseteq Nat
    OBVIOUS
  <2> HIDE DEF Bad
  <2>2. QED
    BY <1>1, <2>1, LeastElement
<1>3. PICK i \in DOMAIN Parts : m > Len(Parts) - i /\ ~ Right(i, m)
  BY <1>2
<1>4. Len(Parts) \in Nat /\ i \in 1..Len(Parts) /\ DOMAIN Parts = 1..Len(Parts)
  BY PartFacts
<1>5. m # 0 /\ m - 1 \in Nat /\ m - 1 \notin Bad
  <2> HIDE DEF Bad, Right
  <2>1. m \in Nat /\ m # 0 /\ m - 1 \in Nat
    BY <1>2, <1>3, <1>4 DEF Bad
  <2>2. QED
    BY <1>2, <2>1
<1>6. \A j \in (i + 1)..Len(Parts) : Right(j, m - 1)
  <2>1. \A j \in (i + 1)..Len(Parts) : j \in DOMAIN Parts /\ m - 1 > Len(Parts) - j
    BY <1>3, <1>4, <1>5
  <2> HIDE DEF Right
  <2>2. QED
    BY <1>5, <2>1
<1>7. maybe_relocatables_to_cairo_value(memory, Decoded(memory)[m - 1], Parts[i].cells, Parts[i].type)
        = Reading(Parts[i])
  BY <1>6, DecodesPart
<1>8. Decoded(memory)[m] = Level(memory, Decoded(memory)[m - 1])
  BY <1>5, DecodedEquation
<1>9. <<Parts[i].cells, Parts[i].type>> \in Seq(Cell) \X Type
  BY PartFacts
<1>10. Level(memory, Decoded(memory)[m - 1])[<<Parts[i].cells, Parts[i].type>>]
         = maybe_relocatables_to_cairo_value(memory, Decoded(memory)[m - 1], Parts[i].cells, Parts[i].type)
  BY <1>9 DEF Level
<1>11. QED
  BY <1>3, <1>7, <1>8, <1>10

----------------------------------------------------------------------------
(* The variable.                                                           *)

(* All that the variable is read through is written: what the expressions  *)
(* of its cells read, and the memory that they point to.                   *)
Complete ==
  /\ \A i \in DOMAIN Variable.ref_expr : Readable(Variable.ref_expr[i])
  /\ Parts[1].heap \subseteq DOMAIN memory

LEMMA ValueOfVariable ==
  ASSUME MemoryInv, Transparent(Variable)
  PROVE  Value = IF Complete THEN Shown ELSE NoValue
<1> DEFINE exprs  == Variable.ref_expr
           p      == Parts[1]
           values == [i \in DOMAIN exprs |-> read_cell(memory, exprs[i])]
<1>1. /\ 1 \in DOMAIN Parts /\ Len(Parts) \in Nat /\ MaxNesting \in Nat
      /\ MaxNesting > Len(Parts) - 1
  BY SampleFacts, FieldFacts DEF Parts
<1>2. p.cells \in Seq(Cell) /\ DOMAIN exprs = DOMAIN p.cells
  BY <1>1, SampleFacts, PartFacts DEF Parts
<1>3. \A i \in DOMAIN exprs : values[i] = IF Readable(exprs[i]) THEN p.cells[i] ELSE NoCell
  <2> SUFFICES ASSUME NEW i \in DOMAIN exprs
               PROVE  values[i] = IF Readable(exprs[i]) THEN p.cells[i] ELSE NoCell
    OBVIOUS
  <2>1. StandsFor(Variable, exprs[i], p.cells[i]) /\ p.cells[i] \in Cell
    BY <1>2, SampleFacts DEF Parts
  <2>2. QED
    BY <2>1, ReadsCell
<1>4. Value = IF \E i \in DOMAIN values : values[i].tag = "none" THEN NoValue
              ELSE Decoded(memory)[MaxNesting][<<values, p.type>>]
  BY DEF Value, extract_var_value, Parts
<1>5. \A i \in DOMAIN exprs : values[i].tag = "none" <=> ~ Readable(exprs[i])
  <2>1. \A i \in DOMAIN exprs : p.cells[i] \in Cell
    BY <1>2
  <2> HIDE DEF exprs, p, values
  <2>2. QED
    BY <1>3, <2>1, CellTags
<1>6. CASE \A i \in DOMAIN exprs : Readable(exprs[i])
  <2>1. values = p.cells
    <3>1. \A i \in DOMAIN exprs : values[i] = p.cells[i]
      BY <1>3, <1>6
    <3>2. values = [i \in DOMAIN exprs |-> values[i]]
      OBVIOUS
    <3>3. p.cells = [i \in DOMAIN exprs |-> p.cells[i]]
      BY <1>2
    <3> HIDE DEF values, exprs, p
    <3>4. QED
      BY <3>1, <3>2, <3>3
  <2>2. Decoded(memory)[MaxNesting][<<p.cells, p.type>>] = Reading(p)
    BY <1>1, DecodedParts
  <2>3. Value = Reading(p)
    BY <1>4, <1>5, <1>6, <2>1, <2>2
  <2>4. QED
    BY <1>6, <2>3 DEF Reading, Complete, Shown, Parts
<1>7. CASE ~ \A i \in DOMAIN exprs : Readable(exprs[i])
  BY <1>4, <1>5, <1>7 DEF Complete
<1>8. QED
  BY <1>6, <1>7

(* The memory of the VM is write-once: a part of what the program writes.  *)
THEOREM MemoryIsWritten == Spec => []MemoryInv
<1>1. Init => MemoryInv
  BY DEF Init, MemoryInv
<1>2. MemoryInv /\ [Next]_vars => MemoryInv'
  <2> SUFFICES ASSUME MemoryInv, [Next]_vars PROVE MemoryInv'
    OBVIOUS
  <2>1. CASE Next
    <3>1. PICK a \in DOMAIN Variable.written \ DOMAIN memory :
            /\ memory' = [b \in DOMAIN memory \union {a} |-> Variable.written[b]]
            /\ sample' = sample
      BY <2>1 DEF Next, Write
    <3>2. Variable' = Variable
      BY <3>1 DEF Variable
    <3>3. DOMAIN memory' = DOMAIN memory \union {a}
      BY <3>1
    <3>4. QED
      BY <3>1, <3>2, <3>3 DEF MemoryInv
  <2>2. CASE UNCHANGED vars
    BY <2>2 DEF MemoryInv, Variable, vars
  <2>3. QED
    BY <2>1, <2>2
<1>3. QED
  BY <1>1, <1>2, PTL DEF Spec

(* The debugger shows the value of a variable that can be told from felts  *)
(* from the moment that the last cell it is read through is written, and   *)
(* nothing before.                                                         *)
ShownExactly == Transparent(Variable) => Value = IF Complete THEN Shown ELSE NoValue

THEOREM ValuesAreExact == Spec => []ShownExactly
<1>1. MemoryInv => ShownExactly
  BY ValueOfVariable DEF ShownExactly
<1>2. QED
  BY <1>1, MemoryIsWritten, PTL

(* Whatever part of it is written, such a variable is shown with its value *)
(* or not at all.                                                          *)
THEOREM ValuesAreRight == Spec => []NeverWrong
<1>1. ShownExactly => NeverWrong
  BY DEF ShownExactly, NeverWrong
<1>2. QED
  BY <1>1, ValuesAreExact, PTL

(* Once the memory of such a variable is written it is shown, unless one   *)
(* of its cells is a pointer that is still a sum.                          *)
THEOREM WrittenIsShown == Spec => []ShownWhenWritten
<1>1. MemoryInv => ShownWhenWritten
  <2> SUFFICES ASSUME MemoryInv, Transparent(Variable), memory = Variable.written,
                      \A i \in DOMAIN Variable.ref_expr :
                        ~ IsPointerSum(Variable, Variable.ref_expr[i])
               PROVE  Value = Shown
    BY DEF ShownWhenWritten
  <2>1. \A i \in DOMAIN Variable.ref_expr : Readable(Variable.ref_expr[i])
    BY SampleFacts DEF Readable, StandsFor
  <2>2. Parts[1].heap \subseteq DOMAIN memory
    BY SampleFacts, PartFacts DEF Parts
  <2>3. QED
    BY <2>1, <2>2, ValueOfVariable DEF Complete
<1>2. QED
  BY <1>1, MemoryIsWritten, PTL

----------------------------------------------------------------------------
(* Memory only grows: what is read of one is read of any that it is part   *)
(* of, whatever the cells are.                                             *)

Grows(old, new) ==
  /\ old \in [DOMAIN old -> Cell] /\ new \in [DOMAIN new -> Cell]
  /\ DOMAIN old \subseteq DOMAIN new
  /\ \A a \in DOMAIN old : new[a] = old[a]

(* What is there is the same later.                                        *)
LEMMA ReadsSame ==
  ASSUME NEW old, NEW new, Grows(old, new), NEW a
  PROVE  /\ read_relocatable(old, a) \in Cell \union {NoCell}
         /\ read_relocatable(old, a) # NoCell =>
              read_relocatable(new, a) = read_relocatable(old, a)
  BY DEF Grows, read_relocatable

LEMMA ExtractsSame ==
  ASSUME NEW old, NEW new, Grows(old, new), NEW ref, extract_felt(old, ref).tag = "int"
  PROVE  extract_felt(new, ref) = extract_felt(old, ref)
<1> DEFINE a == relocatable_from_cell_ref(ref)
<1>1. extract_felt(old, ref) = read_relocatable(old, a) /\ read_relocatable(old, a).tag = "int"
  BY CellTags DEF extract_felt
<1>2. read_relocatable(old, a) # NoCell
  BY <1>1, CellTags
<1> HIDE DEF a
<1>3. read_relocatable(new, a) = read_relocatable(old, a)
  BY <1>2, ReadsSame
<1>4. QED
  BY <1>1, <1>3 DEF extract_felt, a

LEMMA ReadsCellSame ==
  ASSUME NEW old, NEW new, Grows(old, new),
         NEW e, e.kind \in {"deref", "double_deref", "immediate", "bin_op"},
         read_cell(old, e).tag # "none"
  PROVE  read_cell(new, e) = read_cell(old, e)
<1>1. NoCell.tag = "none"
  BY CellTags
<1>2. CASE e.kind = "deref"
  <2> DEFINE a == relocatable_from_cell_ref(e.ref)
  <2>1. \A m : read_cell(m, e) = read_relocatable(m, a)
    BY <1>2 DEF read_cell
  <2> HIDE DEF a
  <2>2. QED
    BY <1>1, <2>1, ReadsSame
<1>3. CASE e.kind = "double_deref"
  <2> DEFINE a == relocatable_from_cell_ref(e.ref)
             Inner_(m) == read_relocatable(m, a)
  <2>1. \A m : read_cell(m, e) =
                 IF Inner_(m).tag = "ptr"
                 THEN read_relocatable(m, <<Inner_(m).seg, Inner_(m).off + e.offset>>)
                 ELSE NoCell
    BY <1>3 DEF read_cell
  <2>2. Inner_(old).tag = "ptr"
    <3> HIDE DEF Inner_
    <3>1. QED
      BY <1>1, <2>1
  <2>3. Inner_(new) = Inner_(old)
    <3>1. Inner_(old) # NoCell
      BY <1>1, <2>2
    <3> HIDE DEF a
    <3>2. QED
      BY <3>1, ReadsSame
  <2> DEFINE b == <<Inner_(old).seg, Inner_(old).off + e.offset>>
  <2>4. read_cell(old, e) = read_relocatable(old, b) /\ read_cell(new, e) = read_relocatable(new, b)
    <3> HIDE DEF Inner_
    <3>1. QED
      BY <2>1, <2>2, <2>3
  <2> HIDE DEF b
  <2>5. QED
    BY <1>1, <2>4, ReadsSame
<1>4. CASE e.kind = "immediate"
  BY <1>4 DEF read_cell
<1>5. CASE e.kind = "bin_op"
  <2> DEFINE X(m) == extract_felt(m, e.a)
             Y(m) == IF e.b.kind = "deref" THEN extract_felt(m, e.b.ref) ELSE Int_(e.b.value)
  <2>1. \A m : read_cell(m, e) =
                 IF X(m).tag = "int" /\ Y(m).tag = "int" THEN Apply(e.op, X(m).n, Y(m).n)
                 ELSE NoCell
    BY <1>5 DEF read_cell
  <2>2. X(old).tag = "int" /\ Y(old).tag = "int"
    <3> HIDE DEF X, Y
    <3>1. QED
      BY <1>1, <2>1
  <2>3. X(new) = X(old) /\ Y(new) = Y(old)
    BY <2>2, ExtractsSame
  <2> HIDE DEF X, Y
  <2>4. QED
    BY <2>1, <2>2, <2>3
<1>6. QED
  BY <1>2, <1>3, <1>4, <1>5

(* What a calls of the debugger makes of the cells of a value.             *)
StaysDecoded(first, second) ==
  \A x \in Seq(Cell) \X Type : IsValue(first[x]) => second[x] = first[x]

(* Values are collected from values.                                       *)
LEMMA CollectedFromValues ==
  ASSUME NEW n \in Nat, NEW parts, DOMAIN parts = 1..n, NEW made, IsValue(Collect(parts, made))
  PROVE  (\A i \in 1..n : IsValue(parts[i])) /\ Collect(parts, made) = made
<1>1. SUFFICES ASSUME ~ \A i \in 1..n : IsValue(parts[i]) PROVE FALSE
  BY DEF Collect
<1> DEFINE Missing == {i \in Nat : i \in 1..n /\ ~ IsValue(parts[i])}
           First(i) == ~ IsValue(parts[i]) /\ \A j \in 1..(i - 1) : IsValue(parts[j])
<1>2. Missing # {}
  BY <1>1
<1>3. PICK i \in Missing : \A k \in Missing : i <= k
  BY <1>2, LeastElement
<1>4. i \in 1..n /\ First(i)
  BY <1>3
<1>5. PICK k \in 1..n : k = (CHOOSE m \in 1..n : First(m)) /\ First(k)
  <2> HIDE DEF First
  <2>1. QED
    BY <1>4
<1>6. Collect(parts, made) = parts[k]
  BY <1>1, <1>5 DEF Collect
<1>7. QED
  BY <1>5, <1>6

(* Collecting the same values gives the same.                              *)
LEMMA CollectsSame ==
  ASSUME NEW n \in Nat, NEW before, NEW after, DOMAIN before = 1..n, DOMAIN after = 1..n,
         NEW made, \A i \in 1..n : IsValue(before[i]) /\ after[i] = before[i]
  PROVE  Collect(after, made) = made
  BY DEF Collect

LEMMA OffsetsType ==
  ASSUME NEW members \in Seq(Type)
  PROVE  \A i \in 0..Len(members) : Offsets(members)[i] \in Nat
<1> DEFINE Bad == {i \in Nat : i <= Len(members) /\ Offsets(members)[i] \notin Nat}
<1>1. SUFFICES ASSUME Bad # {} PROVE FALSE
  OBVIOUS
<1>2. PICK i \in Bad : \A k \in Bad : i <= k
  BY <1>1, LeastElement
<1>3. i \in Nat /\ i <= Len(members) /\ Offsets(members)[i] \notin Nat
  BY <1>2
<1>4. i # 0
  BY <1>3, OffsetsEquation
<1>5. i - 1 \in Nat /\ i - 1 \notin Bad /\ i \in DOMAIN members
  BY <1>2, <1>3, <1>4
<1>6. Offsets(members)[i - 1] \in Nat
  BY <1>3, <1>5
<1>7. type_size(members[i]) \in Nat
  <2>1. members[i] \in Type
    BY <1>5
  <2>2. QED
    BY <2>1, ConstantsAssumption DEF TypeAssumption, type_size
<1>8. Offsets(members)[i] = Offsets(members)[i - 1] + type_size(members[i])
  BY <1>3, <1>4, OffsetsEquation
<1>9. QED
  BY <1>3, <1>6, <1>7, <1>8

LEMMA StructStays ==
  ASSUME NEW first, NEW second, StaysDecoded(first, second),
         NEW cells \in Seq(Cell), NEW t \in Type, TypeDef[t].members \in Seq(Type),
         IsValue(extract_struct(first, cells, t))
  PROVE  extract_struct(second, cells, t) = extract_struct(first, cells, t)
<1> DEFINE members   == TypeDef[t].members
           n         == Len(members)
           slices    == member_slices(members, cells)
           Fields(f) == [i \in DOMAIN members |-> f[<<slices[i], members[i]>>]]
           Made(f)   == [kind |-> TypeDef[t].kind, fields |-> Fields(f)]
<1>1. n \in Nat /\ DOMAIN members = 1..n /\ \A i \in 1..n : members[i] \in Type
  OBVIOUS
<1>2. ~ IsValue(NoValue)
  BY DEF IsValue, NoValue
<1>3. \A i \in DOMAIN members : ~ (Offsets(members)[i] > Len(cells))
  BY <1>2 DEF extract_struct
<1>4. \A f : extract_struct(f, cells, t) = Collect(Fields(f), Made(f))
  BY <1>3 DEF extract_struct
<1>5. ASSUME NEW i \in 1..n PROVE <<slices[i], members[i]>> \in Seq(Cell) \X Type
  <2> DEFINE from == Offsets(members)[i - 1]
             size == type_size(members[i])
  <2>1. from \in Nat /\ size \in Nat /\ from + size = Offsets(members)[i]
    <3>1. i - 1 \in 0..n /\ i # 0 /\ i \in Nat
      BY <1>1
    <3>2. size \in Nat
      BY <1>1, ConstantsAssumption DEF TypeAssumption, type_size
    <3>3. QED
      BY <3>1, <3>2, OffsetsType, OffsetsEquation
  <2>2. from + size <= Len(cells)
    BY <1>1, <1>3, <2>1
  <2>3. slices[i] = SubSeq(cells, from + 1, from + size)
    BY <1>1 DEF member_slices
  <2> HIDE DEF from, size, slices
  <2>4. SubSeq(cells, from + 1, from + size) \in Seq(Cell)
    BY <2>1, <2>2
  <2>5. QED
    BY <1>1, <2>3, <2>4
<1> HIDE DEF slices
<1>6. \A f : DOMAIN Fields(f) = 1..n
  BY <1>1
<1>7. \A i \in 1..n : IsValue(Fields(first)[i])
  <2> DEFINE fields == Fields(first)
             made   == Made(first)
  <2>1. DOMAIN fields = 1..n /\ IsValue(Collect(fields, made))
    BY <1>4, <1>6
  <2> HIDE DEF fields, made, n
  <2>2. \A i \in 1..n : IsValue(fields[i])
    BY <1>1, <2>1, CollectedFromValues
  <2>3. QED
    BY <2>2 DEF fields
<1>8. \A i \in 1..n : Fields(second)[i] = Fields(first)[i]
  <2> SUFFICES ASSUME NEW i \in 1..n PROVE Fields(second)[i] = Fields(first)[i]
    OBVIOUS
  <2> DEFINE x == <<slices[i], members[i]>>
  <2>1. \A f : Fields(f)[i] = f[x]
    BY <1>1
  <2>2. x \in Seq(Cell) \X Type
    BY <1>5
  <2> HIDE DEF x
  <2>3. IsValue(first[x])
    BY <1>7, <2>1
  <2>4. second[x] = first[x]
    BY <2>2, <2>3 DEF StaysDecoded
  <2>5. QED
    BY <2>1, <2>4
<1>9. Fields(second) = Fields(first)
  <2> DEFINE g == Fields(first)
             h == Fields(second)
  <2>1. g = [i \in 1..n |-> g[i]] /\ h = [i \in 1..n |-> h[i]]
    BY <1>1
  <2>2. \A i \in 1..n : h[i] = g[i]
    BY <1>8
  <2> HIDE DEF g, h
  <2>3. g = h
    BY <2>1, <2>2
  <2>4. QED
    BY <2>3 DEF g, h
<1>10. QED
  BY <1>4, <1>9

(* One value in another.                                                   *)
LEMMA WrappedStays ==
  ASSUME NEW first, NEW second, StaysDecoded(first, second), NEW x \in Seq(Cell) \X Type,
         NEW made, IsValue(Collect(<<first[x]>>, made))
  PROVE  IsValue(first[x]) /\ second[x] = first[x]
<1> DEFINE list == <<first[x]>>
<1>1. DOMAIN list = 1..1 /\ list[1] = first[x] /\ IsValue(Collect(list, made))
  OBVIOUS
<1> HIDE DEF list
<1>2. IsValue(list[1])
  <2> DEFINE n == 1
  <2>1. n \in Nat /\ DOMAIN list = 1..n /\ 1 \in 1..n
    BY <1>1
  <2> HIDE DEF n
  <2>2. QED
    BY <1>1, <2>1, CollectedFromValues
<1>3. QED
  BY <1>1, <1>2 DEF StaysDecoded

LEMMA EnumStays ==
  ASSUME NEW first, NEW second, StaysDecoded(first, second),
         NEW cells \in Seq(Cell), NEW t \in Type, TypeDef[t].variants \in Seq(Type),
         IsValue(extract_enum(first, cells, t))
  PROVE  extract_enum(second, cells, t) = extract_enum(first, cells, t)
<1> DEFINE variants == TypeDef[t].variants
           index    == variant_index(cells[1].n, Len(variants))
           variant  == variants[index + 1]
           x        == <<variant_values(Tail(cells), type_size(variant)), variant>>
           Made(f)  == [kind |-> "enum", variant |-> index, value |-> f[x]]
<1>1. ~ IsValue(NoValue) /\ ~ IsValue(Panic)
  BY DEF IsValue, NoValue, Panic
<1>2. /\ cells # << >> /\ cells[1].tag = "int" /\ ~ (cells[1].n > UsizeMax)
      /\ ~ (index >= Len(variants)) /\ ~ (type_size(variant) > Len(cells) - 1)
  BY <1>1 DEF extract_enum
<1>3. \A f : extract_enum(f, cells, t) = Collect(<<f[x]>>, Made(f))
  BY <1>2 DEF extract_enum
<1>4. index \in Nat
  <2>1. cells[1].n \in Nat /\ Len(variants) \in Nat
    <3>1. cells[1] \in Cell
      BY <1>2
    <3>2. cells[1].n \in 0..(Prime - 1) /\ Prime \in Nat
      BY <1>2, <3>1, CellTags, FieldFacts
    <3>3. QED
      BY <3>2
  <2> DEFINE stored == cells[1].n
             n      == Len(variants)
  <2>2. stored \in Nat /\ n \in Nat
    BY <2>1
  <2> HIDE DEF stored, n
  <2>3. (stored + 1) \div 2 \in Int /\ (stored + 1) \div 2 >= 0
    BY <2>2
  <2>4. variant_index(stored, n) \in Nat
    BY <2>2, <2>3 DEF variant_index
  <2>5. QED
    BY <2>4 DEF stored, n
<1>5. variant \in Type
  <2>1. index + 1 \in 1..Len(variants)
    BY <1>2, <1>4
  <2> HIDE DEF index
  <2>2. QED
    BY <2>1
<1>6. x \in Seq(Cell) \X Type
  <2> DEFINE rest == Tail(cells)
             size == type_size(variant)
  <2>1. size \in Nat
    <3> HIDE DEF variant
    <3>1. QED
      BY <1>5, ConstantsAssumption DEF TypeAssumption, type_size
  <2>2. rest \in Seq(Cell) /\ Len(rest) = Len(cells) - 1
    BY <1>2
  <2>3. size <= Len(rest)
    <3> HIDE DEF variant
    <3>1. QED
      BY <1>2, <2>1, <2>2
  <2> HIDE DEF rest, size
  <2>4. SubSeq(rest, Len(rest) - size + 1, Len(rest)) \in Seq(Cell)
    BY <2>1, <2>2, <2>3
  <2>5. variant_values(rest, size) \in Seq(Cell)
    BY <2>4 DEF variant_values
  <2>6. QED
    BY <1>5, <2>5 DEF rest, size
<1> HIDE DEF x, index
<1>7. second[x] = first[x]
  <2> DEFINE made == Made(first)
  <2>1. IsValue(Collect(<<first[x]>>, made))
    BY <1>3
  <2> HIDE DEF made
  <2>2. QED
    BY <1>6, <2>1, WrappedStays
<1>8. QED
  BY <1>3, <1>7

LEMMA ArrayStays ==
  ASSUME NEW old, NEW new, Grows(old, new), NEW first, NEW second, StaysDecoded(first, second),
         NEW start, NEW end, start.off \in Nat, end.off \in Nat, NEW t \in Type,
         IsValue(extract_array_from_pointers(old, first, start, end, t))
  PROVE  extract_array_from_pointers(new, second, start, end, t)
           = extract_array_from_pointers(old, first, start, end, t)
<1> DEFINE size        == type_size(t)
           total       == end.off - start.off
           n           == total \div size
           A(i, j)     == <<start.seg, start.off + (i - 1) * size + j - 1>>
           Cells(m, i) == [j \in 1..size |-> read_relocatable(m, A(i, j))]
           Element(m, f, i) == IF \E j \in 1..size : Cells(m, i)[j].tag = "none" THEN NoValue
                               ELSE f[<<Cells(m, i), t>>]
           Elements(m, f) == [i \in 1..n |-> Element(m, f, i)]
           Made(m, f)  == [kind |-> "array", elements |-> Elements(m, f)]
<1>1. ~ IsValue(NoValue)
  BY DEF IsValue, NoValue
<1>2. start.seg = end.seg
  BY <1>1 DEF extract_array_from_pointers
<1>3. CASE size = 0
  BY <1>2, <1>3 DEF extract_array_from_pointers
<1>4. CASE size # 0
  <2>1. ~ (total < 0 \/ total % size # 0)
    BY <1>1, <1>2, <1>4 DEF extract_array_from_pointers
  <2>2. \A m, f : extract_array_from_pointers(m, f, start, end, t)
                   = Collect(Elements(m, f), Made(m, f))
    BY <1>2, <1>4, <2>1 DEF extract_array_from_pointers
  <2>3. size \in Nat /\ size > 0 /\ total \in Nat
    <3>1. size \in Nat
      BY ConstantsAssumption DEF TypeAssumption, type_size
    <3>2. QED
      BY <1>4, <2>1, <3>1
  <2>4. n \in Nat
    <3> HIDE DEF size, total
    <3>1. total \div size \in Int /\ total \div size >= 0
      BY <2>3
    <3>2. QED
      BY <3>1
  <2> HIDE DEF n
  <2>5. \A i \in 1..n : IsValue(Element(old, first, i))
    <3> DEFINE elements == Elements(old, first)
               made     == Made(old, first)
    <3>1. DOMAIN elements = 1..n /\ IsValue(Collect(elements, made))
      BY <2>2
    <3>2. \A i \in 1..n : elements[i] = Element(old, first, i)
      <4> HIDE DEF Element
      <4>1. QED
        OBVIOUS
    <3> HIDE DEF elements, made, Element
    <3>3. \A i \in 1..n : IsValue(elements[i])
      BY <2>4, <3>1, CollectedFromValues
    <3>4. QED
      BY <3>2, <3>3
  <2>6. ASSUME NEW i \in 1..n PROVE Element(new, second, i) = Element(old, first, i)
    <3> HIDE DEF size, A
    <3> DEFINE before == Cells(old, i)
               after  == Cells(new, i)
    <3>1. \A j \in 1..size : before[j].tag # "none"
      BY <1>1, <2>5
    <3>2. IsValue(first[<<before, t>>])
      BY <2>5, <3>1
    <3>3. \A j \in 1..size : /\ before[j] = read_relocatable(old, A(i, j))
                             /\ after[j] = read_relocatable(new, A(i, j))
      OBVIOUS
    <3>4. before = [j \in 1..size |-> before[j]] /\ after = [j \in 1..size |-> after[j]]
      OBVIOUS
    <3>5. Element(new, second, i) = IF \E j \in 1..size : after[j].tag = "none" THEN NoValue
                                    ELSE second[<<after, t>>]
      OBVIOUS
    <3>6. Element(old, first, i) = first[<<before, t>>]
      BY <3>1
    <3> HIDE DEF before, after, Element
    <3>7. \A j \in 1..size : before[j] \in Cell /\ after[j] = before[j]
      BY <3>1, <3>3, ReadsSame, CellTags
    <3>8. after = before
      BY <3>4, <3>7
    <3>9. before \in Seq(Cell)
      BY <2>3, <3>4, <3>7
    <3>10. second[<<before, t>>] = first[<<before, t>>]
      BY <3>2, <3>9 DEF StaysDecoded
    <3>11. QED
      BY <3>1, <3>5, <3>6, <3>8, <3>10
  <2>7. Elements(new, second) = Elements(old, first)
    <3> HIDE DEF Element
    <3>1. QED
      BY <2>6
  <2>8. QED
    BY <2>2, <2>7
<1>5. QED
  BY <1>3, <1>4

(* A value is what it was, however deep.                                   *)
LEMMA LevelStays ==
  ASSUME NEW old, NEW new, Grows(old, new), NEW first, NEW second, StaysDecoded(first, second)
  PROVE  StaysDecoded(Level(old, first), Level(new, second))
<1> SUFFICES ASSUME NEW cells \in Seq(Cell), NEW t \in Type,
                    IsValue(maybe_relocatables_to_cairo_value(old, first, cells, t))
             PROVE  maybe_relocatables_to_cairo_value(new, second, cells, t)
                      = maybe_relocatables_to_cairo_value(old, first, cells, t)
  BY DEF StaysDecoded, Level
<1> DEFINE d       == TypeDef[t]
           V(m, f) == maybe_relocatables_to_cairo_value(m, f, cells, t)
<1>1. ~ IsValue(NoValue)
  BY DEF IsValue, NoValue
<1>2. CASE d.kind \in {"struct", "tuple"}
  <2>1. \A m, f : V(m, f) = extract_struct(f, cells, t)
    BY <1>2 DEF maybe_relocatables_to_cairo_value
  <2>2. d.members \in Seq(Type)
    BY <1>2, TypeFacts
  <2> HIDE DEF d
  <2>3. QED
    BY <2>1, <2>2, StructStays DEF d
<1>3. CASE d.kind = "enum"
  <2>1. \A m, f : V(m, f) = extract_enum(f, cells, t)
    BY <1>3 DEF maybe_relocatables_to_cairo_value
  <2>2. d.variants \in Seq(Type)
    BY <1>3, TypeFacts
  <2>3. QED
    BY <2>1, <2>2, EnumStays
<1>4. CASE d.kind \in {"snapshot", "nonzero"}
  <2> DEFINE x       == <<cells, d.inner>>
             Made(f) == [kind |-> d.kind, value |-> f[x]]
  <2>1. \A m, f : V(m, f) = Collect(<<f[x]>>, Made(f))
    BY <1>4 DEF maybe_relocatables_to_cairo_value
  <2>2. x \in Seq(Cell) \X Type
    BY <1>4, TypeFacts
  <2> HIDE DEF x
  <2>3. second[x] = first[x]
    <3> DEFINE made == Made(first)
    <3>1. IsValue(Collect(<<first[x]>>, made))
      BY <2>1
    <3> HIDE DEF made
    <3>2. QED
      BY <2>2, <3>1, WrappedStays
  <2>4. QED
    BY <2>1, <2>3
<1>5. CASE d.kind = "array"
  <2>1. Len(cells) = 2 /\ cells[1].tag = "ptr" /\ cells[2].tag = "ptr"
    BY <1>1, <1>5 DEF maybe_relocatables_to_cairo_value
  <2>2. \A m, f : V(m, f) = extract_array_from_pointers(m, f, cells[1], cells[2], d.element)
    BY <1>5, <2>1 DEF maybe_relocatables_to_cairo_value
  <2>3. cells[1].off \in Nat /\ cells[2].off \in Nat
    <3>1. cells[1] \in Cell /\ cells[2] \in Cell
      BY <2>1
    <3>2. QED
      BY <2>1, <3>1, CellTags
  <2>4. d.element \in Type
    BY <1>5, TypeFacts
  <2> HIDE DEF d
  <2>5. QED
    BY <2>2, <2>3, <2>4, ArrayStays
<1>6. CASE d.kind \in {"bool", "starknet", "other"}
  BY <1>6 DEF maybe_relocatables_to_cairo_value
<1>7. QED
  BY <1>2, <1>3, <1>4, <1>5, <1>6, TypeFacts

LEMMA DecodedStays ==
  ASSUME NEW old, NEW new, Grows(old, new), NEW n \in Nat
  PROVE  StaysDecoded(Decoded(old)[n], Decoded(new)[n])
<1> DEFINE Right(m) == StaysDecoded(Decoded(old)[m], Decoded(new)[m])
           Bad == {m \in Nat : ~ Right(m)}
<1>1. SUFFICES ASSUME Bad # {} PROVE FALSE
  OBVIOUS
<1>2. PICK m \in Bad : \A k \in Bad : m <= k
  BY <1>1, LeastElement
<1>3. m \in Nat /\ ~ Right(m)
  BY <1>2
<1>4. CASE m = 0
  <2>1. Decoded(old)[0] = Bottom /\ Decoded(new)[0] = Bottom
    BY DecodedEquation
  <2>2. QED
    BY <1>3, <1>4, <2>1 DEF StaysDecoded
<1>5. CASE m # 0
  <2>1. m - 1 \in Nat /\ m - 1 \notin Bad
    <3> HIDE DEF Right
    <3>1. QED
      BY <1>2, <1>3, <1>5
  <2>2. StaysDecoded(Decoded(old)[m - 1], Decoded(new)[m - 1])
    BY <2>1
  <2>3. /\ Decoded(old)[m] = Level(old, Decoded(old)[m - 1])
        /\ Decoded(new)[m] = Level(new, Decoded(new)[m - 1])
    BY <1>3, <1>5, DecodedEquation
  <2>4. QED
    BY <1>3, <2>2, <2>3, LevelStays
<1>6. QED
  BY <1>4, <1>5

LEMMA MemoryGrows ==
  ASSUME MemoryInv, MemoryInv', Next
  PROVE  Grows(memory, memory') /\ Variable' = Variable
<1>1. Variable' = Variable /\ DOMAIN memory \subseteq DOMAIN memory'
  BY DEF Next, Write, Variable
<1>2. /\ \A a \in DOMAIN memory : memory[a] = Variable.written[a]
      /\ DOMAIN memory \subseteq DOMAIN Variable.written
      /\ memory = [a \in DOMAIN memory |-> memory[a]]
  BY DEF MemoryInv
<1>3. /\ \A a \in DOMAIN memory' : memory'[a] = Variable.written[a]
      /\ DOMAIN memory' \subseteq DOMAIN Variable.written
      /\ memory' = [a \in DOMAIN memory' |-> memory'[a]]
  BY <1>1 DEF MemoryInv
<1>4. \A a \in DOMAIN Variable.written : Variable.written[a] \in Cell
  BY SampleFacts
<1>5. memory \in [DOMAIN memory -> Cell] /\ memory' \in [DOMAIN memory' -> Cell]
  BY <1>2, <1>3, <1>4
<1>6. QED
  BY <1>1, <1>2, <1>3, <1>5 DEF Grows

(* A value that was read once is read ever after, whatever it is made of:  *)
(* the memory it was read from does not change and what else is written    *)
(* does not hide it.                                                       *)
THEOREM ValuesStay == Spec => ValueStays
<1>1. ASSUME MemoryInv, MemoryInv', Next, IsValue(Value)
      PROVE  Value' = Value
  <2> DEFINE exprs     == Variable.ref_expr
             p         == Parts[1]
             Values_(m) == [i \in DOMAIN exprs |-> read_cell(m, exprs[i])]
             before    == Values_(memory)
             after     == Values_(memory')
  <2>1. Grows(memory, memory') /\ Variable' = Variable
    BY <1>1, MemoryGrows
  <2>2. ~ IsValue(NoValue)
    BY DEF IsValue, NoValue
  <2>3. Value = IF \E i \in DOMAIN before : before[i].tag = "none" THEN NoValue
                ELSE Decoded(memory)[MaxNesting][<<before, p.type>>]
    BY DEF Value, extract_var_value, Parts
  <2>4. Value' = IF \E i \in DOMAIN after : after[i].tag = "none" THEN NoValue
                 ELSE Decoded(memory')[MaxNesting][<<after, p.type>>]
    BY <2>1 DEF Value, extract_var_value, Parts
  <2>5. \A i \in DOMAIN exprs : read_cell(memory, exprs[i]).tag # "none"
    BY <1>1, <2>2, <2>3
  <2>6. /\ 1 \in DOMAIN Parts /\ p.cells \in Seq(Cell) /\ p.type \in Type
        /\ DOMAIN exprs = DOMAIN p.cells
        /\ \A i \in DOMAIN exprs : StandsFor(Variable, exprs[i], p.cells[i])
    BY <1>1, SampleFacts, PartFacts DEF Parts
  <2>7. \A i \in DOMAIN exprs : read_cell(memory, exprs[i]) = p.cells[i]
    <3> SUFFICES ASSUME NEW i \in DOMAIN exprs PROVE read_cell(memory, exprs[i]) = p.cells[i]
      OBVIOUS
    <3>1. p.cells[i] \in Cell /\ StandsFor(Variable, exprs[i], p.cells[i])
      BY <2>6
    <3>2. read_cell(memory, exprs[i]) \in {p.cells[i], NoCell}
      BY <1>1, <3>1, ReadsCell
    <3>3. QED
      BY <2>5, <3>2, CellTags
  <2>8. \A i \in DOMAIN exprs : read_cell(memory', exprs[i]) = read_cell(memory, exprs[i])
    <3>1. \A i \in DOMAIN exprs :
            exprs[i].kind \in {"deref", "double_deref", "immediate", "bin_op"}
      BY <2>6 DEF StandsFor, Expression
    <3> HIDE DEF exprs
    <3>2. QED
      BY <2>1, <2>5, <3>1, ReadsCellSame
  <2>9. before = p.cells /\ after = p.cells
    <3>1. p.cells = [i \in DOMAIN exprs |-> p.cells[i]]
      BY <2>6
    <3> HIDE DEF p, exprs
    <3>2. QED
      BY <2>7, <2>8, <3>1
  <2> HIDE DEF before, after, exprs, p
  <2>10. Value = Decoded(memory)[MaxNesting][<<before, p.type>>]
    BY <1>1, <2>2, <2>3
  <2>11. Value' = Decoded(memory')[MaxNesting][<<after, p.type>>]
    <3>1. ~ \E i \in DOMAIN after : after[i].tag = "none"
      BY <1>1, <2>2, <2>3, <2>9
    <3>2. QED
      BY <2>4, <3>1
  <2>12. <<before, p.type>> \in Seq(Cell) \X Type
    BY <2>6, <2>9
  <2>13. StaysDecoded(Decoded(memory)[MaxNesting], Decoded(memory')[MaxNesting])
    BY <2>1, DecodedStays, FieldFacts
  <2>14. QED
    BY <1>1, <2>9, <2>10, <2>11, <2>12, <2>13 DEF StaysDecoded
<1>2. MemoryInv /\ MemoryInv' /\ [Next]_vars => [IsValue(Value) => Value' = Value]_vars
  BY <1>1
<1>3. QED
  BY <1>2, MemoryIsWritten, PTL DEF Spec, ValueStays
=============================================================================
