------------------------ MODULE CairoVariablesProofs ------------------------
(***************************************************************************)
(* Proofs about CairoVariables, for every function and whatever the order  *)
(* in which the variables of a statement are considered.                   *)
(***************************************************************************)
EXTENDS CairoVariables, TLAPS

(* An element of a sequence has the type of the elements. *)
LEMMA SequenceElement ==
  ASSUME NEW S, NEW q \in Seq(S), NEW i \in DOMAIN q
  PROVE  i \in Nat /\ q[i] \in S
  OBVIOUS

(* What a statement produces is typed, and no two of it are one Cairo      *)
(* variable.                                                               *)
LEMMA ExtractIsInjective ==
  ASSUME NEW results \in Seq(Results)
  PROVE  /\ extract_cairo_var_map(results) \subseteq Results
         /\ \A r, s \in extract_cairo_var_map(results) : SameVariable(r, s) => r = s
<1>1. DOMAIN results = 1..Len(results) /\ \A i \in DOMAIN results : results[i] \in Results
  OBVIOUS
<1>2. extract_cairo_var_map(results) \subseteq Results
  BY <1>1 DEF extract_cairo_var_map
<1>3. ASSUME NEW r \in extract_cairo_var_map(results), NEW s \in extract_cairo_var_map(results),
             SameVariable(r, s)
      PROVE  r = s
  <2>1. PICK i \in DOMAIN results :
          /\ r = results[i]
          /\ IsCairo(results[i])
          /\ \A j \in DOMAIN results :
               j > i /\ IsCairo(results[j]) => ~ SameVariable(results[i], results[j])
    BY DEF extract_cairo_var_map
  <2>2. PICK k \in DOMAIN results :
          /\ s = results[k]
          /\ IsCairo(results[k])
          /\ \A j \in DOMAIN results :
               j > k /\ IsCairo(results[j]) => ~ SameVariable(results[k], results[j])
    BY DEF extract_cairo_var_map
  <2>3. SameVariable(s, r)
    BY <1>3 DEF SameVariable
  <2>4. i \in Nat /\ k \in Nat
    BY <1>1
  <2>5. ~ (k > i) /\ ~ (i > k)
    BY <1>3, <2>1, <2>2, <2>3
  <2> QED
    BY <2>1, <2>2, <2>4, <2>5
<1> QED
  BY <1>2, <1>3

LEMMA ProducedIsInjective ==
  ASSUME NEW s \in Statement, NEW target
  PROVE  /\ produced(s, target) \subseteq Results
         /\ \A q, r \in produced(s, target) : SameVariable(q, r) => q = r
<1>1. Branches[s] \in Seq([target : Statement, results : Seq(Results)])
  BY BranchAssumption
<1>2. \A b \in DOMAIN Branches[s] : b \in Nat /\ Branches[s][b].results \in Seq(Results)
  <2>1. SUFFICES ASSUME NEW b \in DOMAIN Branches[s]
                 PROVE  b \in Nat /\ Branches[s][b].results \in Seq(Results)
    OBVIOUS
  <2>2. b \in Nat /\ Branches[s][b] \in [target : Statement, results : Seq(Results)]
    BY <1>1, SequenceElement
  <2> QED
    BY <2>2
<1>3. produced(s, target) \subseteq Results
  BY <1>2, ExtractIsInjective DEF produced
<1>4. ASSUME NEW q \in produced(s, target), NEW r \in produced(s, target), SameVariable(q, r)
      PROVE  q = r
  <2>1. PICK b \in DOMAIN Branches[s] :
          q \in extract_cairo_var_map(Branches[s][b].results) /\ Branches[s][b].target = target
    BY DEF produced
  <2>2. PICK c \in DOMAIN Branches[s] :
          r \in extract_cairo_var_map(Branches[s][c].results) /\ Branches[s][c].target = target
    BY DEF produced
  <2>3. b = c
    BY <2>1, <2>2, TargetAssumption
  <2> QED
    BY <1>2, <1>4, <2>1, <2>2, <2>3, ExtractIsInjective
<1> QED
  BY <1>3, <1>4

LEMMA TraceIsInjective ==
  ASSUME TypeOK, NEW i \in 1..Len(trace)
  PROVE  /\ ProducedAt(i) \subseteq Results
         /\ \A q, r \in ProducedAt(i) : SameVariable(q, r) => q = r
<1>1. trace \in Seq([stmt : Statement, target : Statement]) /\ i \in DOMAIN trace
  BY DEF TypeOK
<1>2. trace[i] \in [stmt : Statement, target : Statement]
  BY <1>1, SequenceElement
<1>3. trace[i].stmt \in Statement
  BY <1>2
<1> QED
  BY <1>3, ProducedIsInjective DEF ProducedAt

(* All that is produced is a Cairo variable, defined somewhere. *)
LEMMA ProducedIsCairo ==
  ASSUME NEW i, NEW r \in ProducedAt(i)
  PROVE  CairoVariable[r.id].start \in Nat
<1>1. r.id \in DOMAIN CairoVariable
  BY DEF ProducedAt, produced, extract_cairo_var_map, IsCairo
<1> QED
  BY <1>1, ResultAssumption

(* A candidate, by its parts. *)
LEMMA CandidateParts ==
  ASSUME NEW r, NEW i
  PROVE  /\ Candidate(r, i).name = CairoVariable[r.id].name
         /\ Candidate(r, i).start = CairoVariable[r.id].start
         /\ Candidate(r, i).cells = r.cells
         /\ Candidate(r, i).id = r.id
         /\ Candidate(r, i).position = i
  BY DEF Candidate, Shown

(* The numbers by which candidates are ranked. *)
LEMMA CandidateTypes ==
  ASSUME TypeOK, NEW i \in 1..Len(trace), NEW r \in ProducedAt(i)
  PROVE  /\ Candidate(r, i).start \in Nat
         /\ Candidate(r, i).cells \in Nat
         /\ Candidate(r, i).position \in Nat
<1>1. r \in [id : Nat, cells : Nat, panic_result : BOOLEAN]
  BY TraceIsInjective, ResultAssumption
<1>2. r.cells \in Nat
  BY <1>1
<1> QED
  BY <1>2, ProducedIsCairo, CandidateParts

(* What has been considered, by its parts. *)
LEMMA ConsideredParts ==
  ASSUME TypeOK, NEW c \in Considered
  PROVE  \E i \in 1..position : \E r \in ProducedAt(i) :
           /\ c = Candidate(r, i)
           /\ i = position => r \notin todo
           /\ c.name = CairoVariable[r.id].name /\ c.start = CairoVariable[r.id].start
           /\ c.start \in Nat /\ c.cells \in Nat
           /\ c.position \in Nat /\ c.position = i
<1>1. PICK i \in 1..position : \E r \in ProducedAt(i) :
        c = Candidate(r, i) /\ (i = position => r \notin todo)
  BY DEF Considered
<1>2. PICK r \in ProducedAt(i) :
        c = Candidate(r, i) /\ (i = position => r \notin todo)
  BY <1>1
<1>3. i \in 1..Len(trace)
  BY DEF TypeOK
<1> QED
  BY <1>2, <1>3, CandidateTypes, CandidateParts

(* A candidate that has not been considered is newer than what its name    *)
(* stands for, when they are one variable.                                 *)
LEMMA CandidateIsNewer ==
  ASSUME TypeOK, position > 0, todo \subseteq ProducedAt(position),
         NEW r \in todo, NEW e \in Considered,
         e.name = Candidate(r, position).name, e.start = Candidate(r, position).start
  PROVE  e.position < position
<1>1. position \in 1..Len(trace)
  BY DEF TypeOK
<1>2. PICK i \in 1..position : \E q \in ProducedAt(i) :
        /\ i = position => q \notin todo
        /\ e.name = CairoVariable[q.id].name /\ e.start = CairoVariable[q.id].start
        /\ e.position = i
  BY ConsideredParts
<1>3. PICK q \in ProducedAt(i) :
        /\ i = position => q \notin todo
        /\ e.name = CairoVariable[q.id].name /\ e.start = CairoVariable[q.id].start
        /\ e.position = i
  BY <1>2
<1>4. SameVariable(q, r)
  <2>1. /\ e.name = CairoVariable[r.id].name
        /\ e.start = CairoVariable[r.id].start
    BY CandidateParts
  <2>2. QED
    BY <1>3, <2>1 DEF SameVariable
<1>5. i # position
  BY <1>1, <1>3, <1>4, TraceIsInjective
<1> QED
  BY <1>1, <1>3, <1>5

----------------------------------------------------------------------------
(* What a new candidate does to what is shown. *)
LEMMA ConsiderKeeps ==
  ASSUME TypeOK, position > 0, todo \subseteq ProducedAt(position),
         Keeps(current, Considered), AreOf(current, Considered),
         NEW r \in todo, Consider(r)
  PROVE  Keeps(current', Considered') /\ AreOf(current', Considered')
<1> DEFINE c == Candidate(r, position)
<1>1. position \in 1..Len(trace)
  BY DEF TypeOK
<1>2. /\ c.start \in Nat /\ c.cells \in Nat /\ c.position = position
      /\ position \in Nat
  BY <1>1, CandidateTypes, CandidateParts
<1>3. Considered' = IF Eligible(r, position) THEN Considered \union {c} ELSE Considered
  <2>1. /\ UNCHANGED <<trace, unreadable, position>>
        /\ todo' = todo \ {r}
    BY DEF Consider
  <2>2. \A i, s : Eligible(s, i)' <=> Eligible(s, i)
    BY <2>1 DEF Eligible
  <2>3. \A i : ProducedAt(i)' = ProducedAt(i)
    BY <2>1 DEF ProducedAt
  <2>4. ASSUME NEW d
        PROVE  d \in Considered' <=>
                 \E i \in 1..position : \E s \in ProducedAt(i) :
                   Eligible(s, i) /\ (i = position => s \notin todo \ {r}) /\ d = Candidate(s, i)
    BY <2>1, <2>2, <2>3 DEF Considered
  <2>5. ASSUME NEW d
        PROVE  d \in Considered <=>
                 \E i \in 1..position : \E s \in ProducedAt(i) :
                   Eligible(s, i) /\ (i = position => s \notin todo) /\ d = Candidate(s, i)
    BY DEF Considered
  <2>6. r \in ProducedAt(position) /\ position \in 1..position
    BY <1>1
  <2>7. ASSUME NEW d
        PROVE  d \in Considered' <=> d \in Considered \/ (Eligible(r, position) /\ d = c)
    BY <2>4, <2>5, <2>6
  <2> QED
    BY <2>7
<1>4. \A e \in Considered : e.start \in Nat /\ e.cells \in Nat /\ e.position \in Nat
  BY ConsideredParts
<1>5. CASE Eligible(r, position) /\ ~ Ignored(c)
  <2>1. current' = [n \in DOMAIN current \union {c.name} |-> IF n = c.name THEN c ELSE current[n]]
    BY <1>5 DEF Consider, Insert
  <2>2. ASSUME NEW e \in Considered, e.name = c.name
        PROVE  Outranks(c, e)
    <3> DEFINE f == current[c.name]
    <3>1. /\ c.name \in DOMAIN current
          /\ f \in Considered /\ f.name = c.name
          /\ e = f \/ Outranks(f, e)
      BY <2>2 DEF Keeps, AreOf
    <3>2. ~ (c.start < f.start) /\ ~ (c.start = f.start /\ c.cells < f.cells)
      BY <1>5, <3>1 DEF Ignored
    <3>3. f.start = c.start => f.position < position
      BY <3>1, CandidateIsNewer
    <3>4. /\ f.start \in Nat /\ f.cells \in Nat /\ f.position \in Nat
          /\ e.start \in Nat /\ e.cells \in Nat /\ e.position \in Nat
      BY <1>4, <3>1
    <3>5. Outranks(c, f)
      <4> HIDE DEF c, f
      <4> QED
        BY <1>2, <3>2, <3>3, <3>4 DEF Outranks
    <3>6. CASE e = f
      BY <3>5, <3>6
    <3>7. CASE Outranks(f, e)
      <4> HIDE DEF c, f
      <4> QED
        BY <1>2, <3>4, <3>5, <3>7 DEF Outranks
    <3> QED
      BY <3>1, <3>6, <3>7
  <2>3. Considered' = Considered \union {c}
    BY <1>3, <1>5
  <2> HIDE DEF c
  <2>4. Keeps(current', Considered')
    BY <2>1, <2>2, <2>3 DEF Keeps
  <2>5. AreOf(current', Considered')
    BY <2>1, <2>3 DEF AreOf
  <2> QED
    BY <2>4, <2>5
<1>6. CASE Eligible(r, position) /\ Ignored(c)
  <2>1. current' = current
    BY <1>6 DEF Consider
  <2>2. Considered' = Considered \union {c}
    BY <1>3, <1>6
  <2>3. c.name \in DOMAIN current /\ Outranks(current[c.name], c)
    BY <1>6 DEF Ignored, Outranks
  <2> HIDE DEF c
  <2> QED
    BY <2>1, <2>2, <2>3 DEF Keeps, AreOf
<1>7. CASE ~ Eligible(r, position)
  <2>1. current' = current /\ Considered' = Considered
    BY <1>3, <1>7 DEF Consider
  <2> QED
    BY <2>1 DEF Keeps, AreOf
<1> QED
  BY <1>5, <1>6, <1>7

----------------------------------------------------------------------------
(* What could be shown before a statement can be shown after it. *)
LEMMA CandidatesGrow ==
  ASSUME TypeOK, Execute
  PROVE  Candidates \subseteq Candidates' /\ ReadableParams \subseteq ReadableParams'
<1>1. PICK b \in DOMAIN Branches[at] :
        /\ \/ trace' = Append(trace, [stmt |-> at, target |-> Branches[at][b].target])
           \/ trace' = trace
        /\ unreadable' \subseteq unreadable \union
             {<<Len(trace) + 1, r.id>> :
                r \in {s \in produced(at, Branches[at][b].target) : s.cells > 0}}
  BY DEF Execute
<1>2. Len(trace) \in Nat /\ Len(trace') \in {Len(trace), Len(trace) + 1}
  BY <1>1 DEF TypeOK
<1>3. \A i \in 1..Len(trace) : trace'[i] = trace[i]
  BY <1>1 DEF TypeOK
<1>4. \A i \in 0..Len(trace) : \A id :
         <<i, id>> \notin unreadable => <<i, id>> \notin unreadable'
  <2>1. SUFFICES ASSUME NEW i \in 0..Len(trace), NEW id, <<i, id>> \in unreadable'
                 PROVE  <<i, id>> \in unreadable
    OBVIOUS
  <2>2. i # Len(trace) + 1
    BY <1>2
  <2> QED
    BY <1>1, <2>1, <2>2
<1>5. Candidates \subseteq Candidates'
  <2>1. SUFFICES ASSUME NEW i \in 1..Len(trace), NEW r \in ProducedAt(i), Eligible(r, i)
                 PROVE  i \in 1..Len(trace') /\ r \in ProducedAt(i)' /\ Eligible(r, i)'
    BY DEF Candidates
  <2>2. i \in 1..Len(trace') /\ i \in 0..Len(trace)
    BY <1>2
  <2>3. r \in ProducedAt(i)'
    BY <1>3, <2>1 DEF ProducedAt
  <2>4. Eligible(r, i)'
    BY <1>4, <2>1, <2>2 DEF Eligible
  <2> QED
    BY <2>2, <2>3, <2>4
<1>6. ReadableParams \subseteq ReadableParams'
  <2>1. function_param_vars' = function_param_vars
    BY DEF Execute, function_param_vars
  <2>2. 0 \in 0..Len(trace)
    BY <1>2
  <2> QED
    BY <1>4, <2>1, <2>2 DEF ReadableParams
<1> QED
  BY <1>5, <1>6

(* What the client is shown when the whole trace has been considered. *)
LEMMA FinishShows ==
  ASSUME VariablesInv, FinishReading
  PROVE  /\ Keeps(shown', Candidates)
         /\ AreOf(shown', Candidates \union ReadableParams)
         /\ \A p \in ReadableParams : p.name \in DOMAIN shown'
<1>1. Considered = Candidates
  <2>1. position = Len(trace) /\ todo = {}
    BY DEF FinishReading
  <2> QED
    BY <2>1 DEF Considered, Candidates
<1>2. Keeps(current, Candidates) /\ AreOf(current, Candidates)
  BY <1>1 DEF VariablesInv, FinishReading
<1>3. PICK values \in ParamValues : shown' = Extend(values, current)
  BY DEF FinishReading
<1>4. /\ DOMAIN values = {p.name : p \in ReadableParams}
      /\ \A n \in DOMAIN values : values[n] \in ReadableParams /\ values[n].name = n
  BY <1>3 DEF ParamValues
<1>5. /\ DOMAIN shown' = DOMAIN values \union DOMAIN current
      /\ \A n \in DOMAIN shown' :
           shown'[n] = IF n \in DOMAIN current THEN current[n] ELSE values[n]
  BY <1>3 DEF Extend
<1>6. Keeps(shown', Candidates)
  BY <1>2, <1>5 DEF Keeps
<1>7. AreOf(shown', Candidates \union ReadableParams)
  BY <1>2, <1>4, <1>5 DEF AreOf
<1>8. \A p \in ReadableParams : p.name \in DOMAIN shown'
  BY <1>4, <1>5
<1> QED
  BY <1>6, <1>7, <1>8

LEMMA TypesPreserved ==
  ASSUME TypeOK, Next
  PROVE  TypeOK'
<1>1. CASE Execute
  <2>1. PICK b \in DOMAIN Branches[at] :
          /\ \/ trace' = Append(trace, [stmt |-> at, target |-> Branches[at][b].target])
             \/ trace' = trace
          /\ at' = Branches[at][b].target
    BY <1>1 DEF Execute
  <2>2. Branches[at] \in Seq([target : Statement, results : Seq(Results)])
    BY BranchAssumption DEF TypeOK
  <2>3. Branches[at][b] \in [target : Statement, results : Seq(Results)]
    BY <2>2, SequenceElement
  <2>4. at' \in Statement
    BY <2>1, <2>3
  <2> DEFINE entry == [stmt |-> at, target |-> Branches[at][b].target]
             Entries == [stmt : Statement, target : Statement]
  <2>5. entry \in Entries /\ trace \in Seq(Entries)
    BY <2>1, <2>4 DEF TypeOK
  <2>6. trace' = Append(trace, entry) \/ trace' = trace
    BY <2>1
  <2> HIDE DEF entry, Entries
  <2>7. trace' \in Seq(Entries) /\ Len(trace') \in {Len(trace), Len(trace) + 1}
    BY <2>5, <2>6
  <2>8. trace' \in Seq([stmt : Statement, target : Statement])
    BY <2>7 DEF Entries
  <2>9. entrance' \in BOOLEAN
    BY <1>1 DEF Execute
  <2> QED
    BY <1>1, <2>4, <2>7, <2>8, <2>9 DEF TypeOK, Execute
<1>2. CASE StartReading
  BY <1>2 DEF TypeOK, StartReading
<1>3. CASE NextEntry
  <2>1. position + 1 \in 1..Len(trace)
    BY <1>3 DEF TypeOK, NextEntry
  <2>2. todo' \subseteq Results
    BY <1>3, <2>1, TraceIsInjective DEF NextEntry
  <2> QED
    BY <1>3, <2>1, <2>2 DEF TypeOK, NextEntry
<1>4. CASE \E r \in todo : Consider(r)
  BY <1>4 DEF TypeOK, Consider
<1>5. CASE FinishReading
  BY <1>5 DEF TypeOK, FinishReading
<1> QED
  BY <1>1, <1>2, <1>3, <1>4, <1>5 DEF Next

----------------------------------------------------------------------------
(* While variables are read, and when nothing happens, all that can be     *)
(* shown stays the same.                                                   *)
LEMMA CandidatesStay ==
  ASSUME UNCHANGED <<trace, unreadable, parameters>>
  PROVE  Candidates' = Candidates /\ ReadableParams' = ReadableParams
<1>1. \A i : ProducedAt(i)' = ProducedAt(i)
  BY DEF ProducedAt
<1>2. \A r, i : Eligible(r, i)' <=> Eligible(r, i)
  BY DEF Eligible
<1>3. Candidates' = Candidates
  BY <1>1, <1>2 DEF Candidates
<1>4. ReadableParams' = ReadableParams
  BY DEF ReadableParams, function_param_vars
<1> QED
  BY <1>3, <1>4

LEMMA InvInit == Init => VariablesInv
<1>1. SUFFICES ASSUME Init PROVE VariablesInv
  OBVIOUS
<1>2. TypeOK
  <2>1. at \in Statement /\ entrance \in BOOLEAN
    BY <1>1, BranchAssumption DEF Init
  <2> QED
    BY <1>1, <2>1 DEF Init, TypeOK
<1>3. DOMAIN shown = {} /\ phase = "stopped"
  BY <1>1 DEF Init, Nothing
<1> QED
  BY <1>2, <1>3 DEF VariablesInv, LastDefinedIsShown, AreOf

LEMMA InvNext == VariablesInv /\ [Next]_vars => VariablesInv'
<1>1. SUFFICES ASSUME VariablesInv, [Next]_vars PROVE VariablesInv'
  OBVIOUS
<1>2. TypeOK
  BY <1>1 DEF VariablesInv
<1>3. CASE Execute
  <2>1. phase' = "stopped" /\ shown' = shown
    BY <1>3 DEF Execute
  <2>2. AreOf(shown, Candidates' \union ReadableParams')
    BY <1>1, <1>2, <1>3, CandidatesGrow DEF VariablesInv, AreOf
  <2>3. TypeOK'
    BY <1>2, <1>3, TypesPreserved DEF Next
  <2> QED
    BY <2>1, <2>2, <2>3 DEF VariablesInv, LastDefinedIsShown, AreOf
<1>4. CASE StartReading
  <2>1. /\ phase' = "reading" /\ shown' = shown /\ position' = 0 /\ todo' = {}
        /\ DOMAIN current' = {}
        /\ UNCHANGED <<trace, unreadable, parameters>>
    BY <1>4 DEF StartReading, Nothing
  <2>2. Considered' = {}
    BY <2>1 DEF Considered
  <2>3. Keeps(current', Considered') /\ AreOf(current', Considered')
    BY <2>1, <2>2 DEF Keeps, AreOf
  <2>4. AreOf(shown', Candidates' \union ReadableParams')
    BY <1>1, <2>1, CandidatesStay DEF VariablesInv
  <2>5. TypeOK'
    BY <1>2, <1>4, TypesPreserved DEF Next
  <2> QED
    BY <2>1, <2>3, <2>4, <2>5 DEF VariablesInv, LastDefinedIsShown, Keeps, AreOf
<1>5. CASE NextEntry
  <2>1. /\ phase = "reading" /\ phase' = "reading" /\ shown' = shown /\ current' = current
        /\ todo = {} /\ position' = position + 1 /\ todo' = ProducedAt(position + 1)
        /\ UNCHANGED <<trace, unreadable, parameters>>
    BY <1>5 DEF NextEntry
  <2>2. position \in Nat
    BY <1>2 DEF TypeOK
  <2>3. Considered' = Considered
    <3>1. \A i : ProducedAt(i)' = ProducedAt(i)
      BY <2>1 DEF ProducedAt
    <3>2. \A r, i : Eligible(r, i)' <=> Eligible(r, i)
      BY <2>1 DEF Eligible
    <3>3. ASSUME NEW c
          PROVE  c \in Considered' <=>
                   \E i \in 1..(position + 1) : \E r \in ProducedAt(i) :
                     /\ Eligible(r, i)
                     /\ i = position + 1 => r \notin ProducedAt(position + 1)
                     /\ c = Candidate(r, i)
      BY <2>1, <3>1, <3>2 DEF Considered
    <3>4. ASSUME NEW c
          PROVE  c \in Considered <=>
                   \E i \in 1..position : \E r \in ProducedAt(i) :
                     Eligible(r, i) /\ c = Candidate(r, i)
      BY <2>1 DEF Considered
    <3>5. ASSUME NEW c
          PROVE  c \in Considered' <=> c \in Considered
      BY <2>2, <3>3, <3>4
    <3> QED
      BY <3>5
  <2>4. Keeps(current', Considered') /\ AreOf(current', Considered')
    BY <1>1, <2>1, <2>3 DEF VariablesInv
  <2>5. AreOf(shown', Candidates' \union ReadableParams')
    BY <1>1, <2>1, CandidatesStay DEF VariablesInv
  <2>6. TypeOK'
    BY <1>2, <1>5, TypesPreserved DEF Next
  <2>7. position' # 0 /\ todo' = ProducedAt(position)'
    BY <2>1, <2>2 DEF ProducedAt
  <2> QED
    BY <2>1, <2>4, <2>5, <2>6, <2>7 DEF VariablesInv, LastDefinedIsShown
<1>6. ASSUME NEW r \in todo, Consider(r)
      PROVE  VariablesInv'
  <2>1. /\ phase = "reading" /\ phase' = "reading" /\ shown' = shown
        /\ todo' \subseteq todo
        /\ UNCHANGED <<trace, unreadable, parameters, position>>
    BY <1>6 DEF Consider
  <2>2. /\ todo \subseteq ProducedAt(position) /\ position # 0
        /\ Keeps(current, Considered) /\ AreOf(current, Considered)
    BY <1>1, <2>1, <1>6 DEF VariablesInv
  <2>3. position > 0
    BY <1>2, <2>2 DEF TypeOK
  <2>4. Keeps(current', Considered') /\ AreOf(current', Considered')
    BY <1>2, <1>6, <2>2, <2>3, ConsiderKeeps
  <2>5. AreOf(shown', Candidates' \union ReadableParams')
    BY <1>1, <2>1, CandidatesStay DEF VariablesInv
  <2>6. TypeOK'
    BY <1>2, <1>6, TypesPreserved DEF Next
  <2>7. position' # 0 /\ todo' \subseteq ProducedAt(position)'
    BY <2>1, <2>2 DEF ProducedAt
  <2> QED
    BY <2>1, <2>4, <2>5, <2>6, <2>7 DEF VariablesInv, LastDefinedIsShown
<1>7. CASE FinishReading
  <2>1. phase' = "shown" /\ UNCHANGED <<trace, unreadable, parameters>>
    BY <1>7 DEF FinishReading
  <2>2. Candidates' = Candidates /\ ReadableParams' = ReadableParams
    BY <2>1, CandidatesStay
  <2>3. TypeOK'
    BY <1>2, <1>7, TypesPreserved DEF Next
  <2>4. /\ Keeps(shown', Candidates)
        /\ AreOf(shown', Candidates \union ReadableParams)
        /\ \A p \in ReadableParams : p.name \in DOMAIN shown'
    BY <1>1, <1>7, FinishShows
  <2> QED
    BY <2>1, <2>2, <2>3, <2>4 DEF VariablesInv, LastDefinedIsShown
<1>8. CASE UNCHANGED vars
  <2>1. /\ Candidates' = Candidates /\ ReadableParams' = ReadableParams
        /\ phase' = phase /\ shown' = shown /\ current' = current
        /\ todo' = todo /\ position' = position
    BY <1>8, CandidatesStay DEF vars
  <2>2. TypeOK'
    BY <1>2, <1>8 DEF TypeOK, vars
  <2>3. Considered' = Considered /\ ProducedAt(position)' = ProducedAt(position)
    BY <1>8 DEF Considered, ProducedAt, Eligible, vars
  <2> QED
    BY <1>1, <2>1, <2>2, <2>3 DEF VariablesInv, LastDefinedIsShown
<1> QED
  BY <1>1, <1>3, <1>4, <1>5, <1>6, <1>7, <1>8 DEF Next

(* In every function, whatever the order in which the variables of a       *)
(* statement are considered, the candidate that outranks all others of its *)
(* name is shown, parameters where there is none, and nothing else         *)
(* (get_values_of_variables, get_current_function_variables).              *)
THEOREM LastDefined == Spec => []LastDefinedIsShown
<1>1. Spec => []VariablesInv
  BY InvInit, InvNext, PTL DEF Spec
<1>2. VariablesInv => LastDefinedIsShown
  BY DEF VariablesInv
<1> QED
  BY <1>1, <1>2, PTL

(* The inductive invariant itself: a reading that is under way is right    *)
(* for the part of the trace it has considered, and starts from nothing.   *)
THEOREM ReadingIsRight == Spec => []VariablesInv
  BY InvInit, InvNext, PTL DEF Spec

(* No name the client was shown falls back to an earlier definition, to    *)
(* fewer cells or to an older value while the function runs.               *)
THEOREM Forwards == Spec => NamesMoveForward
<1>1. VariablesInv /\ [Next]_vars =>
        [\A n \in DOMAIN shown : n \in DOMAIN shown' /\ Forward(shown'[n], shown[n])]_vars
  <2>1. SUFFICES ASSUME VariablesInv, Next, NEW n \in DOMAIN shown
                 PROVE  n \in DOMAIN shown' /\ Forward(shown'[n], shown[n])
    OBVIOUS
  <2>2. CASE shown' = shown
    BY <2>2 DEF Forward
  <2>3. CASE FinishReading
    <3>1. /\ Keeps(shown', Candidates)
          /\ \A p \in ReadableParams : p.name \in DOMAIN shown'
      BY <2>1, <2>3, FinishShows
    <3>2. shown[n].name = n /\ shown[n] \in Candidates \union ReadableParams
      BY <2>1 DEF VariablesInv, AreOf
    <3>3. CASE shown[n] \in Candidates
      BY <3>1, <3>2, <3>3 DEF Keeps, Forward
    <3>4. CASE shown[n] \in ReadableParams
      <4>1. shown[n].position = 0
        BY <3>4 DEF ReadableParams, function_param_vars, Shown
      <4> QED
        BY <3>1, <3>2, <3>4, <4>1 DEF Forward
    <3> QED
      BY <3>2, <3>3, <3>4
  <2> QED
    BY <2>1, <2>2, <2>3 DEF Next, Execute, StartReading, NextEntry, Consider
<1> QED
  BY <1>1, ReadingIsRight, PTL DEF Spec, NamesMoveForward
=============================================================================
