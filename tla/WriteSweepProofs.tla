--------------------------- MODULE WriteSweepProofs ---------------------------
(***************************************************************************)
(* For every set of registers, every device, and however many datagrams    *)
(* are lost: the artifact of a sweep that finishes names what it could not *)
(* put back, and while nothing is lost every pass puts back what it wrote. *)
(* Of its verdicts, "clamped" is said of registers that stop short and of  *)
(* those as_tag sent something else, and "ignored" only where each attempt *)
(* that would have shown has met with a loss.                              *)
(***************************************************************************)
EXTENDS WriteSweep, PlanProofs, FiniteSetTheorems, WellFoundedInduction, TLAPS

----------------------------------------------------------------------------
(* The writes are queued in the order of one of the two lists.             *)

\* To walk through a list is to find the members of a set, and only those.
LEMMA InOrderIsAll ==
  ASSUME NEW list \in {Targets, Sorted}, NEW regs \in SUBSET Reg
  PROVE  /\ InOrder(list, regs) \in Seq(Reg)
         /\ ToSet(InOrder(list, regs)) = regs \intersect ToSet(list)
<1>. DEFINE taken == [i \in DOMAIN list |-> IF list[i] \in regs THEN << list[i] >> ELSE <<>>]
<1>1. list \in Seq(Reg)
  BY SweepConstants
<1>2. DOMAIN list = 1 .. Len(list) /\ Len(list) \in Nat /\ \A i \in DOMAIN list : list[i] \in Reg
  BY <1>1
<1>3. \A i \in DOMAIN list : taken[i] \in Seq(Reg)
  BY <1>2
<1>4. \A i \in DOMAIN list : ToSet(taken[i]) = IF list[i] \in regs THEN {list[i]} ELSE {}
  BY DEF ToSet
<1>5. DOMAIN taken = DOMAIN list /\ InOrder(list, regs) = FlattenSeq(taken)
  BY DEF InOrder
<1>6. taken = [i \in 1 .. Len(list) |-> taken[i]]
  BY <1>2
<1>. HIDE DEF taken
<1>7. taken \in Seq(Seq(Reg))
  BY <1>2, <1>3, <1>6
<1>8. ToSet(InOrder(list, regs)) = UNION {ToSet(taken[i]) : i \in DOMAIN list}
  BY <1>5, <1>7, FlattenRange
<1>9. ToSet(list) = {list[i] : i \in DOMAIN list}
  BY DEF ToSet
<1>10. UNION {ToSet(taken[i]) : i \in DOMAIN list} = regs \intersect ToSet(list)
  <2>1. \A r : r \in UNION {ToSet(taken[i]) : i \in DOMAIN list}
                 <=> \E i \in DOMAIN list : r = list[i] /\ list[i] \in regs
    BY <1>4
  <2>. QED
    BY <1>9, <2>1
<1>11. InOrder(list, regs) \in Seq(Reg)
  BY <1>5, <1>7, FlattenTyped
<1>. QED
  BY <1>8, <1>10, <1>11

----------------------------------------------------------------------------
(* What is left changed is named.  The reference is the device as it was,  *)
(* the last dump is the device as it is, and no write comes after it.      *)

Quiet == {"open", "before", "pass", "repair", "done"}

IInv ==
  /\ pc \in Quiet => queue = <<>>
  /\ pc \in {"open", "before"} => dev = first
  /\ \A r \in DOMAIN before : before[r] = first[r]
  /\ pc = "repair" => \A r \in DOMAIN state : state[r] = dev[r]
  /\ EveryDriftIsNamed

\* A dump that arrives says what the device holds.
LEMMA DumpsAreTrue ==
  ASSUME NEW seen \in Dumps
  PROVE  \A r \in DOMAIN seen : seen[r] = dev[r]
<1>1. CASE seen = <<>>
  BY <1>1
<1>2. ASSUME NEW l, seen = [r \in Reg \ l |-> dev[r]] PROVE \A r \in DOMAIN seen : seen[r] = dev[r]
  BY <1>2
<1> QED
  BY <1>1, <1>2 DEF Dumps

\* What differs between a reference and a reading, or is in one of them only,
\* has drifted.
LEMMA DriftIsSeen ==
  ASSUME \A r \in DOMAIN before : before[r] = first[r],
         \A r \in DOMAIN state : state[r] = dev[r],
         NEW r \in DOMAIN before \union DOMAIN state, dev[r] # first[r]
  PROVE  r \in Wrong
BY DEF Wrong, Drifted

\* For no register there is nothing to write.
LEMMA NothingToWrite ==
  ASSUME NEW values
  PROVE  Writes(InOrder(Targets, {}), values) = <<>>
<1>1. /\ InOrder(Targets, {}) \in Seq(Reg)
      /\ ToSet(InOrder(Targets, {})) = {} \intersect ToSet(Targets)
  <2>1. {} \in SUBSET Reg /\ Targets \in {Targets, Sorted}
    OBVIOUS
  <2>. QED
    BY <2>1, InOrderIsAll
<1>. DEFINE order == InOrder(Targets, {})
<1>2. order \in Seq(Reg) /\ \A i \in DOMAIN order : FALSE
  BY <1>1 DEF ToSet
<1>. HIDE DEF order
<1>3. order = <<>>
  BY <1>2
<1>. QED
  BY <1>3 DEF Writes, order

\* Whatever the sweep does next, its reference and its last dump stay what they
\* are said to be.
LEMMA Inductive == IInv /\ [Next]_vars => IInv'
<1> SUFFICES ASSUME IInv, [Next]_vars PROVE IInv'
  OBVIOUS
<1> USE DEF Quiet
<1>1. CASE Open
  BY <1>1 DEF IInv, EveryDriftIsNamed, Finished, Open, Ends, toolVars
<1>2. CASE Write
  BY <1>2 DEF IInv, EveryDriftIsNamed, Finished, Write, toolVars
<1>3. CASE ReadBefore
  <2>1. PICK seen \in Dumps :
          /\ IF seen = <<>> THEN Ends("1", {})
             ELSE /\ before' = seen /\ state' = seen /\ pc' = "pass"
                  /\ UNCHANGED <<dev, queue, exit>>
          /\ UNCHANGED first /\ pc = "before"
    BY <1>3 DEF ReadBefore, Reads
  <2>2. CASE seen = <<>>
    BY <2>1, <2>2 DEF IInv, EveryDriftIsNamed, Finished, Ends
  <2>3. CASE seen # <<>>
    BY <2>1, <2>3, DumpsAreTrue DEF IInv, EveryDriftIsNamed, Finished
  <2> QED
    BY <2>2, <2>3
<1>4. CASE BeginPass
  <2>1. CASE Ends("crash", {})
    BY <1>4, <2>1 DEF IInv, EveryDriftIsNamed, Finished, Ends, BeginPass
  <2>2. CASE ~Ends("crash", {})
    <3>1. /\ \E values : queue' = Writes(InOrder(Targets, DOMAIN written'), values)
          /\ IF DOMAIN written' = {} THEN pc' = "pass" ELSE pc' = "look"
          /\ UNCHANGED <<dev, before, state, first>>
      BY <1>4, <2>2 DEF BeginPass
    <3>2. pc' = "pass" => queue' = <<>>
      BY <3>1, NothingToWrite
    <3> QED
      BY <3>1, <3>2 DEF IInv, EveryDriftIsNamed, Finished
  <2> QED
    BY <2>1, <2>2
<1>5. CASE Look
  BY <1>5 DEF IInv, EveryDriftIsNamed, Finished, Look
<1>6. CASE Reread
  BY <1>6 DEF IInv, EveryDriftIsNamed, Finished, Reread, Reads
<1>7. CASE ReadAgain
  BY <1>7, DumpsAreTrue DEF IInv, EveryDriftIsNamed, Finished, ReadAgain, Reads
<1>8. CASE Repair
  <2>1. pc = "repair" /\ UNCHANGED first
    BY <1>8 DEF Repair
  <2>2. CASE Wrong = {} /\ Ends("0", {})
    BY <2>1, <2>2, DriftIsSeen DEF IInv, EveryDriftIsNamed, Finished, Ends
  <2>3. CASE Ends("1", Wrong)
    BY <2>1, <2>3, DriftIsSeen DEF IInv, EveryDriftIsNamed, Finished, Ends
  <2>4. CASE Rewrite
    BY <2>1, <2>4 DEF IInv, EveryDriftIsNamed, Finished, Rewrite
  <2> QED
    BY <1>8, <2>2, <2>3, <2>4 DEF Repair
<1>9. CASE Interrupt
  BY <1>9 DEF IInv, EveryDriftIsNamed, Finished, Interrupt, Ends
<1>10. CASE UNCHANGED vars
  BY <1>10 DEF IInv, EveryDriftIsNamed, Finished, vars, toolVars
<1> QED
  BY <1>1, <1>2, <1>3, <1>4, <1>5, <1>6, <1>7, <1>8, <1>9, <1>10 DEF Next, SweepStep

\* A sweep that finishes names every register it did not put back, as far as
\* its first or its last dump reported it (repair, drifted, main).
THEOREM DriftIsNamed == Spec => []EveryDriftIsNamed
<1>1. Init => IInv
  BY DEF Init, IInv, EveryDriftIsNamed, Finished, Quiet
<1>2. IInv => EveryDriftIsNamed
  BY DEF IInv
<1> QED
  BY <1>1, <1>2, Inductive, PTL DEF Spec

----------------------------------------------------------------------------
(* Of the numbers: every non-empty set of naturals has a smallest member,  *)
(* and a largest when it is bounded.                                       *)

LEMMA Largest ==
  ASSUME NEW S \in SUBSET Nat, S # {}, NEW n \in Nat, \A x \in S : x <= n
  PROVE  \E x \in S : \A y \in S : y <= x
<1>. DEFINE T == {n - x : x \in S}
<1>1. T \in SUBSET Nat /\ T # {}
  <2>1. \A x \in S : n - x \in Nat
    OBVIOUS
  <2>2. \A t \in T : t \in Nat
    BY <2>1
  <2>. QED
    BY <2>2
<1>2. PICK t \in T : \A u \in T : t <= u
  <2>. HIDE DEF T
  <2>. QED
    BY <1>1, Smallest
<1>3. PICK x \in S : t = n - x
  BY <1>2
<1>4. \A y \in S : n - x <= n - y
  BY <1>2, <1>3
<1>. QED
  BY <1>3, <1>4

----------------------------------------------------------------------------
(* Types.                                                                  *)

WriteOrder == [reg : Reg, value : Int]
Option     == [value : Int, size : Int]

LEMMA AsTagTyped ==
  ASSUME NEW r \in Reg, NEW v \in Int
  PROVE  AsTag(r, v) \in Int
<1>1. Unit \in Int /\ v \div Unit \in Int
  <2>1. \A u \in Nat \ {0} : v \div u \in Int
    OBVIOUS
  <2>. QED
    BY <2>1, SweepConstants
<1>2. \A u, w \in Int : u * w \in Int /\ u * (w + 1) \in Int
  OBVIOUS
<1>. QED
  BY <1>1, <1>2 DEF AsTag

LEMMA EnumsTyped ==
  ASSUME NEW r \in Reg, NEW v \in Int
  PROVE  EnumCandidates(r, v) \in Seq(Option)
<1>. DEFINE wire   == Kind[r].wire
            others == {i \in DOMAIN wire : wire[i] # v}
            lowest  == CHOOSE i \in others : \A j \in others : i <= j
            highest == CHOOSE i \in others : \A j \in others : j <= i
<1>1. wire \in Seq(Int)
  BY SweepConstants
<1>2. CASE others = {}
  BY <1>2 DEF EnumCandidates
<1>3. CASE others # {}
  <2>1. others \in SUBSET Nat /\ Len(wire) \in Nat /\ \A i \in others : i <= Len(wire)
    BY <1>1
  <2>2. \A i \in others : wire[i] \in Int
    BY <1>1
  <2>3. /\ \E i \in others : \A j \in others : i <= j
        /\ \E i \in others : \A j \in others : j <= i
    <3>. HIDE DEF others
    <3>. QED
      BY <1>3, <2>1, Smallest, Largest
  <2>4. lowest \in others /\ highest \in others
    <3>. HIDE DEF others
    <3>. QED
      BY <2>3
  <2>5. EnumCandidates(r, v) =
          IF lowest = highest THEN <<Candidate(wire[lowest], Unit)>>
          ELSE <<Candidate(wire[lowest], Unit), Candidate(wire[highest], Unit)>>
    BY <1>3 DEF EnumCandidates
  <2>6. \A x, y \in Int : /\ <<Candidate(x, Unit)>> \in Seq(Option)
                         /\ <<Candidate(x, Unit), Candidate(y, Unit)>> \in Seq(Option)
    BY SweepConstants DEF Candidate, Option
  <2>7. wire[lowest] \in Int /\ wire[highest] \in Int
    <3>. HIDE DEF wire, others, lowest, highest
    <3>. QED
      BY <2>2, <2>4
  <2>. HIDE DEF wire, lowest, highest
  <2>. QED
    BY <2>5, <2>6, <2>7
<1>. QED
  BY <1>2, <1>3

LEMMA NumbersTyped ==
  ASSUME NEW r \in Reg, NEW v \in Int
  PROVE  NumberCandidates(r, v) \in Seq(Option)
<1>. DEFINE lo == Kind[r].lo  hi == Kind[r].hi
            up == v - lo <= hi - v
            Far(i) == IF Bounded(r) THEN ((hi - lo) \div 100) * Steps[i] ELSE Unit * Steps[i]
            Clipped(x) == Smaller(hi, Larger(lo, x))
<1>1. lo \in Int /\ hi \in Int
  BY SweepConstants
<1>2. \A i \in 1 .. 3 : Steps[i] \in {1, 10, 50}
  BY DEF Steps
<1>3. \A i \in 1 .. 3 : Far(i) \in Int
  <2>. TAKE i \in 1 .. 3
  <2>1. Steps[i] = 1 \/ Steps[i] = 10 \/ Steps[i] = 50
    BY <1>2
  <2>2. (hi - lo) \div 100 \in Int /\ Unit \in Int
    BY <1>1, SweepConstants
  <2>3. \A a \in Int : a * Steps[i] \in Int
    BY <2>1
  <2>. QED
    BY <2>2, <2>3
<1>4. \A x \in Int : Clipped(x) \in Int
  BY <1>1 DEF Smaller, Larger
<1>5. NumberCandidates(r, v) =
        IF ~Bounded(r) THEN [i \in 1..3 |-> Candidate(v + Far(i), Far(i))]
        ELSE IF hi <= lo THEN <<>>
        ELSE [i \in 1..3 |-> Candidate(Clipped(IF up THEN v + Far(i) ELSE v - Far(i)), Far(i))]
  BY DEF NumberCandidates
<1>. HIDE DEF lo, hi, up, Far, Clipped
<1>6. \A i \in 1 .. 3 : /\ Candidate(v + Far(i), Far(i)) \in Option
                         /\ Candidate(Clipped(IF up THEN v + Far(i) ELSE v - Far(i)), Far(i)) \in Option
  BY <1>2, <1>3, <1>4 DEF Candidate, Option
<1>. QED
  BY <1>5, <1>6

LEMMA CandidatesTyped ==
  ASSUME NEW r \in Reg, NEW v \in Int
  PROVE  Candidates(r, v) \in Seq(Option)
<1>1. \A x \in {0, Unit} : <<Candidate(x, Unit)>> \in Seq(Option)
  BY SweepConstants DEF Candidate, Option
<1>. QED
  BY <1>1, EnumsTyped, NumbersTyped DEF Candidates

LEMMA ChosenTyped ==
  ASSUME NEW options \in Seq(Option), options # <<>>, NEW step \in Nat \ {0}
  PROVE  Chosen(options, step) \in Option
BY DEF Chosen, Smaller

LEMMA WritesTyped ==
  ASSUME NEW list \in {Targets, Sorted}, NEW regs \in SUBSET Reg, NEW values,
         \A r \in regs : values[r] \in Int
  PROVE  /\ Writes(InOrder(list, regs), values) \in Seq(WriteOrder)
         /\ \A i \in DOMAIN Writes(InOrder(list, regs), values) :
              LET w == Writes(InOrder(list, regs), values)[i]
              IN  w.reg \in regs /\ w.value = AsTag(w.reg, values[w.reg])
         /\ \A r \in regs \intersect ToSet(list) :
              \E i \in DOMAIN Writes(InOrder(list, regs), values) :
                 Writes(InOrder(list, regs), values)[i].reg = r
<1>. DEFINE order == InOrder(list, regs)
<1>1. order \in Seq(Reg) /\ ToSet(order) = regs \intersect ToSet(list)
  BY InOrderIsAll
<1>. HIDE DEF order
<1>2. \A i \in DOMAIN order : order[i] \in regs
  BY <1>1 DEF ToSet
<1>3. \A r \in regs \intersect ToSet(list) : \E i \in DOMAIN order : order[i] = r
  BY <1>1 DEF ToSet
<1>4. DOMAIN order = 1 .. Len(order) /\ Len(order) \in Nat
  BY <1>1
<1>5. /\ Writes(order, values) \in Seq(WriteOrder)
      /\ DOMAIN Writes(order, values) = DOMAIN order
      /\ \A i \in DOMAIN order :
           Writes(order, values)[i] = [reg |-> order[i], value |-> AsTag(order[i], values[order[i]])]
  <2>1. \A i \in DOMAIN order : AsTag(order[i], values[order[i]]) \in Int
    BY <1>2, AsTagTyped
  <2>. QED
    BY <1>2, <1>4, <2>1 DEF Writes, WriteOrder
<1>. QED
  BY <1>2, <1>3, <1>5 DEF order

LEMMA PutTyped ==
  ASSUME dev \in [Reg -> Int], NEW r \in Reg, NEW v \in Int
  PROVE  Put(r, v) \in [Reg -> Int]
<1>1. Device[r].grain \in Nat \ {0} /\ Device[r].top \in Int /\ Device[r].partner \in Reg
  BY SweepConstants
<1>2. Rounded(r, v) \in Int
  <2>1. \A g \in Nat \ {0} : ((2 * v + g) \div (2 * g)) \in Int
    OBVIOUS
  <2>2. \A g \in Nat \ {0} : ((2 * v + g) \div (2 * g)) * g \in Int
    BY <2>1
  <2>. QED
    BY <1>1, <2>2 DEF Rounded
<1>. QED
  BY <1>1, <1>2 DEF Put, Taken, Smaller

LEMMA DumpsTyped ==
  ASSUME dev \in [Reg -> Int], losses \in 0 .. MaxLosses, NEW seen \in Dumps
  PROVE  /\ DOMAIN seen \subseteq Reg /\ \A r \in DOMAIN seen : seen[r] \in Int
         /\ Lost(seen) \in Nat /\ losses + Lost(seen) <= MaxLosses
         /\ Lost(seen) = 0 => DOMAIN seen = Reg
<1>0. MaxLosses \in Nat /\ IsFiniteSet(Reg) /\ Reg # {}
  BY SweepConstants
<1>1. CASE seen = <<>> /\ losses < MaxLosses
  BY <1>0, <1>1 DEF Lost
<1>2. ASSUME NEW l \in LostSets[MaxLosses - losses], seen = [r \in Reg \ l |-> dev[r]]
      PROVE  /\ DOMAIN seen \subseteq Reg /\ \A r \in DOMAIN seen : seen[r] \in Int
             /\ Lost(seen) \in Nat /\ losses + Lost(seen) <= MaxLosses
             /\ Lost(seen) = 0 => DOMAIN seen = Reg
  <2>1. MaxLosses - losses \in 0 .. MaxLosses
    BY <1>0
  <2>2. l \in SUBSET Reg /\ Cardinality(l) <= MaxLosses - losses
    BY <1>2, <2>1 DEF LostSets
  <2>3. IsFiniteSet(l) /\ Cardinality(l) \in Nat /\ (Cardinality(l) = 0 <=> l = {})
    BY <1>0, <2>2, FS_Subset, FS_CardinalityType, FS_EmptySet
  <2>4. DOMAIN seen = Reg \ l /\ Reg \ DOMAIN seen = l
    BY <1>2, <2>2
  <2>5. CASE seen = <<>>
    <3>1. DOMAIN seen = {}
      BY <2>5
    <3>2. l = Reg
      BY <2>2, <2>4, <3>1
    <3>3. Cardinality(l) # 0
      BY <1>0, <2>3, <3>2
    <3>. QED
      BY <1>0, <2>2, <2>3, <2>5, <3>1, <3>3 DEF Lost
  <2>6. CASE seen # <<>>
    <3>1. Lost(seen) = Cardinality(l)
      BY <2>4, <2>6 DEF Lost
    <3>. QED
      BY <1>0, <1>2, <2>2, <2>3, <2>4, <3>1
  <2>. QED
    BY <2>5, <2>6
<1>. QED
  BY <1>1, <1>2 DEF Dumps

\* How often a register of this parity has had its turn.
Turns(r, begun) == IF Odd(r) THEN (begun + 1) \div 2 ELSE begun \div 2

Try == [value : Int, size : Int, held : Int, reported : [answered : BOOLEAN, value : Int]]

\* Every register is tried at most once in the passes of its parity, which are
\* three of the six; what is put back is what the dump before the pass said.
TurnsTaken ==
  /\ DOMAIN attempts \subseteq Reg
  /\ \A r \in DOMAIN attempts :
       /\ attempts[r] \in Seq(Try)
       /\ pc \in {"open", "before", "pass", "look"} => Len(attempts[r]) <= Turns(r, passes)
       /\ pc = "reread" => Len(attempts[r]) <= Turns(r, passes + 1)

Held ==
  /\ queue \in Seq(WriteOrder)
  /\ first \in Initial
  /\ pending \subseteq Reg \intersect ToSet(Targets)
  /\ \A r \in DOMAIN before : before[r] \in Int
  /\ \A r \in DOMAIN state : state[r] \in Int
  /\ pc = "look" => /\ DOMAIN written \subseteq DOMAIN state \intersect ToSet(Targets)
                    /\ \A r \in DOMAIN written :
                         written[r] \in Option /\ Odd(r) = (passes % 2 = 0)
  /\ pc \in {"look", "reread"} => passes < 6
  /\ pc = "recheck" => rounds < MaxRounds

SweepInv == SweepTypeOK /\ Held /\ TurnsTaken

LEMMA TurnsBounded ==
  ASSUME NEW r, NEW p \in 0 .. 6
  PROVE  /\ Turns(r, p) \in 0 .. 3
         /\ Turns(r, p) <= Turns(r, p + 1)
         /\ Odd(r) = (p % 2 = 0) => Turns(r, p + 1) = Turns(r, p) + 1
<1>1. /\ p \div 2 \in 0 .. 3 /\ (p + 1) \div 2 \in 0 .. 3
      /\ p \div 2 <= (p + 1) \div 2 /\ (p + 1) \div 2 <= (p + 1 + 1) \div 2
  OBVIOUS
<1>2. /\ p % 2 = 0 => (p + 1 + 1) \div 2 = (p + 1) \div 2 + 1
      /\ p % 2 # 0 => (p + 1) \div 2 = p \div 2 + 1
  OBVIOUS
<1>3. Odd(r) \in BOOLEAN /\ (p % 2 = 0) \in BOOLEAN
  BY DEF Odd
<1>4. Turns(r, p) \in 0 .. 3 /\ Turns(r, p) <= Turns(r, p + 1)
  <2>1. CASE Odd(r)
    BY <1>1, <2>1 DEF Turns
  <2>2. CASE ~Odd(r)
    BY <1>1, <2>2 DEF Turns
  <2>. QED
    BY <2>1, <2>2
<1>5. ASSUME Odd(r) = (p % 2 = 0) PROVE Turns(r, p + 1) = Turns(r, p) + 1
  <2>1. CASE Odd(r) /\ p % 2 = 0
    BY <1>2, <2>1 DEF Turns
  <2>2. CASE ~Odd(r) /\ p % 2 # 0
    BY <1>2, <2>2 DEF Turns
  <2>. QED
    BY <1>3, <1>5, <2>1, <2>2
<1>. QED
  BY <1>4, <1>5

LEMMA ReadingTyped ==
  ASSUME SweepTypeOK, NEW seen \in Dumps, Reads(seen)
  PROVE  /\ DOMAIN seen \subseteq Reg /\ \A r \in DOMAIN seen : seen[r] \in Int
         /\ losses' \in 0 .. MaxLosses
         /\ queue = <<>>
<1>1. MaxLosses \in Nat
  BY SweepConstants
<1>. QED
  BY <1>1, DumpsTyped DEF SweepTypeOK, Reads

LEMMA OpenTyped ==
  ASSUME SweepInv, Open
  PROVE  SweepInv'
<1>1. CASE Ends("1", {}) /\ UNCHANGED <<losses, first>>
  BY <1>1 DEF SweepInv, SweepTypeOK, Held, TurnsTaken, Ends
<1>2. CASE pc = "open" /\ pc' = "before" /\ UNCHANGED <<dev, queue, toolVars, losses, first>>
  BY <1>2 DEF SweepInv, SweepTypeOK, Held, TurnsTaken, toolVars
<1>. QED
  BY <1>1, <1>2 DEF Open

LEMMA EndsTyped ==
  ASSUME SweepInv, NEW code, NEW drift, Ends(code, drift), UNCHANGED first,
         losses' \in 0 .. MaxLosses
  PROVE  SweepInv'
BY DEF SweepInv, SweepTypeOK, Held, TurnsTaken, Ends

LEMMA WriteTyped ==
  ASSUME SweepInv, Write
  PROVE  SweepInv'
<1>1. queue \in Seq(WriteOrder) /\ queue # <<>> /\ queue' = Tail(queue)
  BY DEF SweepInv, Held, Write
<1>2. Head(queue) \in WriteOrder /\ Tail(queue) \in Seq(WriteOrder)
  BY <1>1
<1>3. dev' \in [Reg -> Int]
  <2>1. Head(queue).reg \in Reg /\ Head(queue).value \in Int
    BY <1>2 DEF WriteOrder
  <2>. QED
    BY <2>1, PutTyped DEF Write, SweepInv, SweepTypeOK
<1>4. losses' \in 0 .. MaxLosses
  BY SweepConstants DEF Write, SweepInv, SweepTypeOK
<1>5. UNCHANGED <<pc, toolVars, first>>
  BY DEF Write
<1>. QED
  BY <1>1, <1>2, <1>3, <1>4, <1>5 DEF SweepInv, SweepTypeOK, Held, TurnsTaken, toolVars

LEMMA ReadBeforeTyped ==
  ASSUME SweepInv, ReadBefore
  PROVE  SweepInv'
<1>1. PICK seen \in Dumps :
        /\ Reads(seen)
        /\ IF seen = <<>> THEN Ends("1", {})
           ELSE /\ before' = seen /\ state' = seen
                /\ pending' = {r \in ToSet(Targets) \intersect DOMAIN seen : ~Kind[r].dangerous}
                /\ attempts' = [r \in pending' |-> <<>>]
                /\ pc' = "pass"
                /\ UNCHANGED <<dev, queue, passes, written, rounds, unrestored, exit>>
  BY DEF ReadBefore
<1>2. pc = "before" /\ UNCHANGED first
  BY DEF ReadBefore
<1>3. /\ DOMAIN seen \subseteq Reg /\ \A r \in DOMAIN seen : seen[r] \in Int
      /\ losses' \in 0 .. MaxLosses
  BY <1>1, ReadingTyped DEF SweepInv
<1>4. CASE seen = <<>>
  BY <1>1, <1>2, <1>3, <1>4, EndsTyped
<1>5. CASE seen # <<>>
  <2>1. SweepTypeOK'
    BY <1>1, <1>3, <1>5 DEF SweepInv, SweepTypeOK
  <2>2. pending' \subseteq Reg \intersect ToSet(Targets)
    BY <1>1, <1>3, <1>5
  <2>3. Held'
    BY <1>1, <1>2, <1>3, <1>5, <2>2 DEF SweepInv, Held
  <2>4. \A r \in Reg : Turns(r, passes) \in Nat
    BY TurnsBounded DEF SweepInv, SweepTypeOK
  <2>5. TurnsTaken'
    <3>1. /\ DOMAIN attempts' = pending' /\ \A r \in pending' : attempts'[r] = <<>>
          /\ passes' = passes /\ pc' = "pass"
      BY <1>1, <1>5
    <3>2. \A r \in Reg : 0 <= Turns(r, passes')
      BY <2>4, <3>1
    <3>3. <<>> \in Seq(Try) /\ Len(<<>>) = 0
      OBVIOUS
    <3>. QED
      BY <2>2, <3>1, <3>2, <3>3 DEF TurnsTaken
  <2>. QED
    BY <2>1, <2>3, <2>5 DEF SweepInv
<1>. QED
  BY <1>4, <1>5

\* What a pass writes: a candidate for a register the last dump reported, of
\* the parity of the pass.
LEMMA ProbesTyped ==
  ASSUME SweepInv, pc = "pass", passes < 6, Group(pending) \subseteq DOMAIN state
  PROVE  /\ DOMAIN Probes(Group(pending)) \subseteq pending \intersect DOMAIN state
         /\ \A r \in DOMAIN Probes(Group(pending)) :
              /\ Probes(Group(pending))[r] \in Option
              /\ Odd(r) = (passes % 2 = 0)
<1>. DEFINE D == {r \in Group(pending) : Candidates(r, state[r]) # <<>>}
<1>1. D \subseteq pending \intersect DOMAIN state /\ \A r \in D : Odd(r) = (passes % 2 = 0)
  BY DEF Group
<1>2. Step \in Nat \ {0}
  BY DEF Step, SweepInv, SweepTypeOK
<1>3. \A r \in D : Chosen(Candidates(r, state[r]), Step) \in Option
  <2>. TAKE r \in D
  <2>1. r \in Reg /\ state[r] \in Int /\ Candidates(r, state[r]) # <<>>
    BY <1>1 DEF SweepInv, Held
  <2>2. Candidates(r, state[r]) \in Seq(Option)
    BY <2>1, CandidatesTyped
  <2>. QED
    BY <1>2, <2>1, <2>2, ChosenTyped
<1>4. Probes(Group(pending)) = [r \in D |-> Chosen(Candidates(r, state[r]), Step)]
  BY DEF Probes
<1>. HIDE DEF D
<1>. QED
  BY <1>1, <1>3, <1>4

LEMMA BeginPassTyped ==
  ASSUME SweepInv, BeginPass
  PROVE  SweepInv'
<1>. DEFINE group == Group(pending)
            chosen == Probes(group)
            values == [r \in DOMAIN chosen |-> chosen[r].value]
<1>1. pc = "pass" /\ passes < 6 /\ UNCHANGED <<losses, first>>
  BY DEF BeginPass
<1>2. CASE ~(group \subseteq DOMAIN state)
  <2>1. Ends("crash", {})
    BY <1>2 DEF BeginPass
  <2>2. losses' \in 0 .. MaxLosses
    BY <1>1 DEF SweepInv, SweepTypeOK
  <2>. QED
    BY <1>1, <2>1, <2>2, EndsTyped
<1>3. CASE group \subseteq DOMAIN state
  <2>1. /\ written' = chosen
        /\ queue' = Writes(InOrder(Targets, DOMAIN written'), [r \in DOMAIN written' |-> written'[r].value])
        /\ IF DOMAIN written' = {} THEN pc' = "pass" /\ passes' = passes + 1
           ELSE pc' = "look" /\ UNCHANGED passes
        /\ UNCHANGED <<dev, before, state, pending, attempts, rounds, unrestored, exit>>
    BY <1>3 DEF BeginPass
  <2>2. /\ DOMAIN chosen \subseteq pending \intersect DOMAIN state
        /\ \A r \in DOMAIN chosen : chosen[r] \in Option /\ Odd(r) = (passes % 2 = 0)
    BY <1>1, <1>3, ProbesTyped
  <2>. HIDE DEF chosen
  <2>3. DOMAIN chosen \subseteq Reg /\ \A r \in DOMAIN chosen : values[r] \in Int
    BY <2>2 DEF SweepInv, Held, Option
  <2>4. queue' = Writes(InOrder(Targets, DOMAIN chosen), values)
    BY <2>1
  <2>5. queue' \in Seq(WriteOrder)
    BY <2>3, <2>4, WritesTyped
  <2>6. DOMAIN chosen \subseteq DOMAIN state \intersect ToSet(Targets)
    BY <2>2 DEF SweepInv, Held
  <2>7. passes' \in 0 .. 6 /\ pc' \in {"pass", "look"} /\ (pc' = "look" => passes' = passes)
    BY <1>1, <2>1 DEF SweepInv, SweepTypeOK
  <2>8. SweepTypeOK'
    BY <1>1, <2>1, <2>7 DEF SweepInv, SweepTypeOK
  <2>9. Held'
    BY <1>1, <2>1, <2>2, <2>5, <2>6, <2>7 DEF SweepInv, Held
  <2>10. TurnsTaken'
    <3>1. \A r \in DOMAIN attempts : attempts[r] \in Seq(Try) /\ Len(attempts[r]) <= Turns(r, passes)
      BY <1>1 DEF SweepInv, TurnsTaken
    <3>2. \A r : Turns(r, passes) <= Turns(r, passes') /\ Turns(r, passes) \in Nat /\ Turns(r, passes') \in Nat
      BY <1>1, <2>1, <2>7, TurnsBounded DEF SweepInv, SweepTypeOK
    <3>3. \A r \in DOMAIN attempts : Len(attempts[r]) <= Turns(r, passes')
      BY <3>1, <3>2
    <3>. QED
      BY <2>1, <2>7, <3>1, <3>3 DEF SweepInv, TurnsTaken
  <2>. QED
    BY <2>8, <2>9, <2>10 DEF SweepInv
<1>. QED
  BY <1>2, <1>3

\* What is put back after a pass: to each register written, what it was before.
LEMMA RestoreTyped ==
  ASSUME SweepInv, pc = "look"
  PROVE  /\ RestoreWrites \in Seq(WriteOrder)
         /\ \A i \in DOMAIN RestoreWrites :
              /\ RestoreWrites[i].reg \in DOMAIN written
              /\ RestoreWrites[i].value = AsTag(RestoreWrites[i].reg, state[RestoreWrites[i].reg])
         /\ \A r \in DOMAIN written : \E i \in DOMAIN RestoreWrites : RestoreWrites[i].reg = r
<1>1. /\ DOMAIN written \subseteq Reg /\ DOMAIN written \subseteq ToSet(Targets)
      /\ \A r \in DOMAIN written : state[r] \in Int
  BY DEF SweepInv, SweepTypeOK, Held
<1>. QED
  BY <1>1, WritesTyped DEF RestoreWrites

LEMMA LookTyped ==
  ASSUME SweepInv, Look
  PROVE  SweepInv'
<1>. DEFINE Came(seen, r) == [value    |-> written[r].value,
                              size     |-> written[r].size,
                              held     |-> state[r],
                              reported |-> Reported(seen, r)]
<1>1. PICK seen \in Dumps :
        /\ Reads(seen)
        /\ attempts' = [r \in DOMAIN attempts |->
                          IF r \in DOMAIN written THEN Append(attempts[r], Came(seen, r))
                          ELSE attempts[r]]
        /\ pending' = {r \in pending : ~(r \in DOMAIN written /\ Reported(seen, r).answered)}
  BY DEF Look
<1>2. /\ pc = "look" /\ queue' = RestoreWrites /\ pc' = "reread"
      /\ UNCHANGED <<dev, before, state, passes, written, rounds, unrestored, exit, first>>
  BY DEF Look
<1>3. /\ \A r \in DOMAIN seen : seen[r] \in Int
      /\ losses' \in 0 .. MaxLosses
  BY <1>1, ReadingTyped DEF SweepInv
<1>4. passes \in 0 .. 6 /\ passes < 6
  BY <1>2 DEF SweepInv, SweepTypeOK, Held
<1>5. \A r \in DOMAIN written : Came(seen, r) \in Try
  <2>. TAKE r \in DOMAIN written
  <2>1. written[r].value \in Int /\ written[r].size \in Int /\ state[r] \in Int
    BY <1>2 DEF SweepInv, Held, Option
  <2>2. Reported(seen, r) \in [answered : BOOLEAN, value : Int]
    BY <1>3 DEF Reported, Answer, Silence
  <2>. QED
    BY <2>1, <2>2 DEF Try
<1>. HIDE DEF Came
<1>6. \A r \in DOMAIN attempts : /\ attempts'[r] \in Seq(Try)
                                 /\ Len(attempts'[r]) <= Turns(r, passes + 1)
                                 /\ Len(attempts'[r]) <= 3
  <2>. TAKE r \in DOMAIN attempts
  <2>1. attempts[r] \in Seq(Try) /\ Len(attempts[r]) <= Turns(r, passes)
    BY <1>2 DEF SweepInv, TurnsTaken
  <2>2. passes + 1 \in 0 .. 6
    BY <1>4
  <2>3. Turns(r, passes) \in 0 .. 3 /\ Turns(r, passes + 1) \in 0 .. 3 /\ Turns(r, passes) <= Turns(r, passes + 1)
    BY <1>4, <2>2, TurnsBounded
  <2>4. CASE r \in DOMAIN written
    <3>1. Turns(r, passes + 1) = Turns(r, passes) + 1
      <4>1. Odd(r) = (passes % 2 = 0)
        BY <1>2, <2>4 DEF SweepInv, Held
      <4>. QED
        BY <1>4, <4>1, TurnsBounded
    <3>2. attempts'[r] = Append(attempts[r], Came(seen, r))
      BY <1>1, <2>4
    <3>. QED
      BY <1>5, <2>1, <2>3, <2>4, <3>1, <3>2
  <2>5. CASE r \notin DOMAIN written
    BY <1>1, <2>1, <2>3, <2>5
  <2>. QED
    BY <2>4, <2>5
<1>7. DOMAIN attempts' = DOMAIN attempts
  BY <1>1
<1>8. SweepTypeOK'
  BY <1>2, <1>3, <1>6, <1>7 DEF SweepInv, SweepTypeOK
<1>9. Held'
  BY <1>1, <1>2, <1>4, RestoreTyped DEF SweepInv, Held
<1>10. TurnsTaken'
  BY <1>2, <1>6, <1>7 DEF SweepInv, TurnsTaken
<1>. QED
  BY <1>8, <1>9, <1>10 DEF SweepInv

LEMMA RereadTyped ==
  ASSUME SweepInv, Reread
  PROVE  SweepInv'
<1>1. PICK seen \in Dumps : Reads(seen) /\ state' = seen
  BY DEF Reread
<1>2. /\ pc = "reread" /\ passes' = passes + 1 /\ pc' = "pass"
      /\ UNCHANGED <<dev, queue, before, pending, written, attempts, rounds, unrestored, exit, first>>
  BY DEF Reread
<1>3. /\ DOMAIN seen \subseteq Reg /\ \A r \in DOMAIN seen : seen[r] \in Int
      /\ losses' \in 0 .. MaxLosses
  BY <1>1, ReadingTyped DEF SweepInv
<1>4. passes' \in 0 .. 6
  BY <1>2 DEF SweepInv, SweepTypeOK, Held
<1>5. SweepTypeOK'
  BY <1>1, <1>2, <1>3, <1>4 DEF SweepInv, SweepTypeOK
<1>6. Held'
  BY <1>1, <1>2, <1>3 DEF SweepInv, Held
<1>7. TurnsTaken'
  BY <1>2 DEF SweepInv, TurnsTaken
<1>. QED
  BY <1>5, <1>6, <1>7 DEF SweepInv

LEMMA ReadAgainTyped ==
  ASSUME SweepInv, ReadAgain
  PROVE  SweepInv'
<1>1. PICK seen \in Dumps : Reads(seen) /\ state' = seen
  BY DEF ReadAgain
<1>2. /\ pc' = "repair"
      /\ UNCHANGED <<dev, queue, before, pending, passes, written, attempts, unrestored, exit, first>>
  BY DEF ReadAgain
<1>3. /\ DOMAIN seen \subseteq Reg /\ \A r \in DOMAIN seen : seen[r] \in Int
      /\ losses' \in 0 .. MaxLosses
  BY <1>1, ReadingTyped DEF SweepInv
<1>4. rounds' \in 0 .. MaxRounds
  BY DEF ReadAgain, SweepInv, SweepTypeOK, Held, MaxRounds
<1>5. SweepTypeOK'
  BY <1>1, <1>2, <1>3, <1>4 DEF SweepInv, SweepTypeOK
<1>6. Held'
  BY <1>1, <1>2, <1>3 DEF SweepInv, Held
<1>7. TurnsTaken'
  BY <1>2 DEF SweepInv, TurnsTaken
<1>. QED
  BY <1>5, <1>6, <1>7 DEF SweepInv

LEMMA RepairTyped ==
  ASSUME SweepInv, Repair
  PROVE  SweepInv'
<1>1. pc = "repair" /\ UNCHANGED <<losses, first>> /\ losses' \in 0 .. MaxLosses
  BY DEF Repair, SweepInv, SweepTypeOK
<1>2. CASE Ends("0", {}) \/ Ends("1", Wrong)
  BY <1>1, <1>2, EndsTyped
<1>3. CASE rounds # MaxRounds /\ Rewrite /\ UNCHANGED rounds
  <2>1. queue' \in Seq(WriteOrder)
    <3>1. Wrong \intersect DOMAIN before \in SUBSET Reg
      BY DEF SweepInv, SweepTypeOK
    <3>2. \A r \in Wrong \intersect DOMAIN before : before[r] \in Int
      BY DEF SweepInv, Held
    <3>. QED
      BY <1>3, <3>1, <3>2, WritesTyped DEF Rewrite
  <2>2. /\ pc' = "recheck"
        /\ UNCHANGED <<dev, before, state, pending, passes, written, attempts, unrestored, exit, rounds>>
    BY <1>3 DEF Rewrite
  <2>3. rounds < MaxRounds
    BY <1>3 DEF SweepInv, SweepTypeOK, MaxRounds
  <2>4. SweepTypeOK'
    BY <1>1, <2>2 DEF SweepInv, SweepTypeOK
  <2>5. Held'
    BY <1>1, <2>1, <2>2, <2>3 DEF SweepInv, Held
  <2>6. TurnsTaken'
    BY <2>2 DEF SweepInv, TurnsTaken
  <2>. QED
    BY <2>4, <2>5, <2>6 DEF SweepInv
<1>. QED
  BY <1>2, <1>3 DEF Repair

LEMMA SweepStepTyped == SweepInv /\ [Next]_vars => SweepInv'
<1>. SUFFICES ASSUME SweepInv, [Next]_vars PROVE SweepInv'
  OBVIOUS
<1>1. CASE Open        BY <1>1, OpenTyped
<1>2. CASE Write       BY <1>2, WriteTyped
<1>3. CASE ReadBefore  BY <1>3, ReadBeforeTyped
<1>4. CASE BeginPass   BY <1>4, BeginPassTyped
<1>5. CASE Look        BY <1>5, LookTyped
<1>6. CASE Reread      BY <1>6, RereadTyped
<1>7. CASE ReadAgain   BY <1>7, ReadAgainTyped
<1>8. CASE Repair      BY <1>8, RepairTyped
<1>9. CASE Interrupt
  <2>1. losses' \in 0 .. MaxLosses
    BY <1>9 DEF Interrupt, SweepInv, SweepTypeOK
  <2>. QED
    BY <1>9, <2>1, EndsTyped DEF Interrupt
<1>10. CASE UNCHANGED vars
  BY <1>10 DEF SweepInv, SweepTypeOK, Held, TurnsTaken, vars, toolVars
<1>. QED
  BY <1>1, <1>2, <1>3, <1>4, <1>5, <1>6, <1>7, <1>8, <1>9, <1>10 DEF Next, SweepStep

LEMMA SweepInitTyped == Init => SweepInv
<1>. SUFFICES ASSUME Init PROVE SweepInv
  OBVIOUS
<1>1. MaxLosses \in Nat /\ Initial \subseteq [Reg -> Int]
  BY SweepConstants
<1>2. DOMAIN <<>> = {} /\ <<>> \in Seq(WriteOrder)
  OBVIOUS
<1>. QED
  BY <1>1, <1>2 DEF Init, SweepInv, SweepTypeOK, Held, TurnsTaken, MaxRounds

\* What the sweep holds stays within its types, and no register is tried more
\* often than the three candidates of METHOD (_pass, sweep).
THEOREM SweepTyped == Spec => []SweepTypeOK
<1>1. SweepInv => SweepTypeOK
  BY DEF SweepInv
<1>. QED
  BY <1>1, SweepInitTyped, SweepStepTyped, PTL DEF Spec

----------------------------------------------------------------------------
(* While nothing is lost, a pass puts back what it wrote.                  *)

\* A register, or the one it is linked with.
Moves(w) == {w, Device[w].partner}

\* What differs from the first dump was written, or is linked with what was.
Touched(r, regs) == \E w \in regs : Device[w].takes # "none" /\ r \in Moves(w)

\* The state the pass goes by is the device as it was.
Known == \A r \in Reg : r \in DOMAIN state /\ state[r] = first[r]

\* Before a pass nothing differs; in its middle what was written may; at its
\* end what still differs has its old value on the way.
GoesBack ==
  losses = 0 /\ Level =>
    /\ pc \in {"open", "before", "pass"} => dev = first
    /\ pc \in {"pass", "look"} => Known
    /\ pc \in {"open", "before", "pass"} => queue = <<>>
    /\ pc = "look" =>
         /\ \A i \in DOMAIN queue : queue[i].reg \in DOMAIN written
         /\ \A r \in Reg : dev[r] # first[r] => Touched(r, DOMAIN written)
    /\ pc = "reread" =>
         /\ \A i \in DOMAIN queue : queue[i].value = AsTag(queue[i].reg, first[queue[i].reg])
         /\ \A r \in Reg : dev[r] # first[r] => Touched(r, {queue[i].reg : i \in DOMAIN queue})

\* A write changes a register and the one it is linked with, or nothing.
LEMMA PutMoves ==
  ASSUME dev \in [Reg -> Int], NEW w \in Reg, NEW v \in Int, NEW r \in Reg, Put(w, v)[r] # dev[r]
  PROVE  Device[w].takes # "none" /\ r \in Moves(w)
BY DEF Put, Refuses, Moves

\* What the device itself has held it takes back, and its partner with it.
LEMMA PutsBack ==
  ASSUME TakesItBack, Level, first \in Initial, dev \in [Reg -> Int], NEW w \in Reg,
         Device[w].takes # "none", NEW r \in Moves(w)
  PROVE  Put(w, AsTag(w, first[w]))[r] = first[r]
<1>1. /\ Device[w].partner \in Reg /\ Device[w].takes \in Takes /\ Device[w].top \in Int
      /\ first \in [Reg -> Int]
  BY SweepConstants
<1>2. /\ AsTag(w, first[w]) = first[w] /\ Rounded(w, first[w]) = first[w]
      /\ Device[w].takes = "up to top" => first[w] <= Device[w].top
      /\ Device[w].takes = "below top only" => first[w] <= Device[w].top
  BY DEF TakesItBack
<1>3. first[w] = first[Device[w].partner]
  BY DEF Level
<1>4. /\ first[w] \in Int /\ Device[w].top \in Int
      /\ \A a, b \in Int : a <= b => ~(a > b) /\ Smaller(a, b) = a
  BY <1>1 DEF Smaller
<1>5. ~Refuses(w, first[w])
  <2>1. Device[w].takes = "below top only" => ~(first[w] > Device[w].top)
    BY <1>2, <1>4, Zenon
  <2>. QED
    BY <2>1, Zenon DEF Refuses
<1>6. Put(w, first[w]) = [dev EXCEPT ![w] = first[w], ![Device[w].partner] = first[w]]
  <2>1. (IF Device[w].takes = "up to top" THEN Smaller(Rounded(w, first[w]), Device[w].top)
         ELSE Rounded(w, first[w])) = first[w]
    BY <1>2, <1>4, Zenon
  <2>. QED
    BY <1>5, <2>1 DEF Put, Taken
<1>. QED
  BY <1>1, <1>2, <1>3, <1>6 DEF Moves

\* Of no loss, a dump is whole.
LEMMA WholeDump ==
  ASSUME SweepTypeOK, NEW seen \in Dumps, Reads(seen), losses' = 0
  PROVE  losses = 0 /\ \A r \in Reg : r \in DOMAIN seen /\ seen[r] = dev[r]
<1>1. losses \in Nat /\ Lost(seen) \in Nat /\ (Lost(seen) = 0 => DOMAIN seen = Reg)
  BY DumpsTyped, SweepConstants DEF SweepTypeOK
<1>2. losses' = losses + Lost(seen)
  BY DEF Reads
<1>3. losses = 0 /\ Lost(seen) = 0
  BY <1>1, <1>2
<1>. QED
  BY <1>1, <1>3, DumpsAreTrue

\* A write of the pass, and one that puts an old value back.
LEMMA WriteGoesBack ==
  ASSUME TakesItBack, SweepInv, GoesBack, Write
  PROVE  GoesBack'
<1>. SUFFICES ASSUME losses' = 0, Level' PROVE
       /\ pc \notin {"open", "before", "pass"}
       /\ pc = "look" =>
            /\ Known
            /\ \A i \in DOMAIN queue' : queue'[i].reg \in DOMAIN written
            /\ \A r \in Reg : dev'[r] # first[r] => Touched(r, DOMAIN written)
       /\ pc = "reread" =>
            /\ \A i \in DOMAIN queue' : queue'[i].value = AsTag(queue'[i].reg, first[queue'[i].reg])
            /\ \A r \in Reg : dev'[r] # first[r] => Touched(r, {queue'[i].reg : i \in DOMAIN queue'})
  BY DEF Write, toolVars, GoesBack, Known, Touched
<1>1. losses = 0 /\ dev' = Put(Head(queue).reg, Head(queue).value)
  BY SweepConstants DEF Write, SweepInv, SweepTypeOK
<1>2. Level /\ first \in Initial
  BY DEF Write, Level, SweepInv, Held
<1>3. /\ queue \in Seq(WriteOrder) /\ queue # <<>> /\ queue' = Tail(queue)
      /\ dev \in [Reg -> Int]
  BY DEF SweepInv, SweepTypeOK, Held, Write
<1>4. /\ Head(queue) = queue[1] /\ 1 \in DOMAIN queue
      /\ \A i \in DOMAIN queue' : i + 1 \in DOMAIN queue /\ queue'[i] = queue[i + 1]
      /\ \A i \in DOMAIN queue : i # 1 => i - 1 \in DOMAIN queue' /\ queue'[i - 1] = queue[i]
  BY <1>3
<1>5. queue[1].reg \in Reg /\ queue[1].value \in Int
  <2>1. queue[1] \in WriteOrder
    BY <1>3, <1>4
  <2>. QED
    BY <2>1 DEF WriteOrder
<1>. DEFINE h == queue[1]
<1>6. ASSUME pc = "look" PROVE
       /\ Known
       /\ \A i \in DOMAIN queue' : queue'[i].reg \in DOMAIN written
       /\ \A r \in Reg : dev'[r] # first[r] => Touched(r, DOMAIN written)
  <2>1. /\ Known
        /\ \A i \in DOMAIN queue : queue[i].reg \in DOMAIN written
        /\ \A r \in Reg : dev[r] # first[r] => Touched(r, DOMAIN written)
    BY <1>1, <1>2, <1>6 DEF GoesBack
  <2>2. ASSUME NEW r \in Reg, dev'[r] # first[r] PROVE Touched(r, DOMAIN written)
    <3>1. CASE dev'[r] = dev[r]
      BY <2>1, <2>2, <3>1
    <3>2. CASE dev'[r] # dev[r]
      <4>1. Device[h.reg].takes # "none" /\ r \in Moves(h.reg)
        BY <1>1, <1>3, <1>4, <1>5, <3>2, PutMoves
      <4>. QED
        BY <1>4, <2>1, <4>1 DEF Touched
    <3>. QED
      BY <3>1, <3>2
  <2>. QED
    BY <1>4, <2>1, <2>2
<1>7. ASSUME pc = "reread" PROVE
       /\ \A i \in DOMAIN queue' : queue'[i].value = AsTag(queue'[i].reg, first[queue'[i].reg])
       /\ \A r \in Reg : dev'[r] # first[r] => Touched(r, {queue'[i].reg : i \in DOMAIN queue'})
  <2>1. /\ \A i \in DOMAIN queue : queue[i].value = AsTag(queue[i].reg, first[queue[i].reg])
        /\ \A r \in Reg : dev[r] # first[r] => Touched(r, {queue[i].reg : i \in DOMAIN queue})
    BY <1>1, <1>2, <1>7 DEF GoesBack
  <2>2. dev' = Put(h.reg, AsTag(h.reg, first[h.reg]))
    BY <1>1, <1>4, <2>1
  <2>3. ASSUME NEW r \in Reg, dev'[r] # first[r]
        PROVE  Touched(r, {queue'[i].reg : i \in DOMAIN queue'})
    <3>1. ~(Device[h.reg].takes # "none" /\ r \in Moves(h.reg))
      BY <1>2, <1>3, <1>5, <2>2, <2>3, PutsBack
    <3>2. dev'[r] = dev[r]
      <4>1. AsTag(h.reg, first[h.reg]) \in Int
        BY <1>2, <1>5, AsTagTyped, SweepConstants
      <4>. QED
        BY <1>3, <1>5, <2>2, <3>1, <4>1, PutMoves
    <3>3. PICK i \in DOMAIN queue : Device[queue[i].reg].takes # "none" /\ r \in Moves(queue[i].reg)
      BY <2>1, <2>3, <3>2 DEF Touched
    <3>4. i # 1
      BY <3>1, <3>3
    <3>. QED
      BY <1>4, <3>3, <3>4 DEF Touched
  <2>. QED
    BY <1>4, <2>1, <2>3
<1>8. pc \notin {"open", "before", "pass"}
  BY <1>1, <1>2, <1>3 DEF GoesBack
<1>. QED
  BY <1>6, <1>7, <1>8

LEMMA GoesBackStep ==
  ASSUME TakesItBack, SweepInv, IInv, GoesBack, [Next]_vars
  PROVE  GoesBack'
<1>. USE DEF GoesBack
<1>1. ASSUME NEW code, NEW drift, Ends(code, drift) PROVE GoesBack'
  BY <1>1 DEF Ends
<1>2. CASE Open
  <2>1. CASE Ends("1", {})
    BY <1>1, <2>1
  <2>2. CASE pc' = "before" /\ UNCHANGED <<dev, queue, toolVars>>
    BY <1>2, <2>2 DEF Open, Level
  <2>. QED
    BY <1>2, <2>1, <2>2 DEF Open
<1>3. CASE Write
  BY <1>3, WriteGoesBack
<1>4. CASE ReadBefore
  <2>1. PICK seen \in Dumps :
          /\ Reads(seen)
          /\ \/ Ends("1", {})
             \/ state' = seen /\ pc' = "pass" /\ UNCHANGED <<dev, queue>>
    BY <1>4 DEF ReadBefore
  <2>2. CASE state' = seen /\ pc' = "pass" /\ UNCHANGED <<dev, queue>>
    <3>1. pc = "before" /\ UNCHANGED first /\ queue = <<>>
      BY <1>4, <2>1 DEF ReadBefore, Reads
    <3>2. dev = first
      BY <3>1 DEF IInv
    <3>3. losses' = 0 => Known'
      BY <2>1, <2>2, <3>1, <3>2, WholeDump DEF SweepInv, Known
    <3>. QED
      BY <2>2, <3>1, <3>2, <3>3
  <2>. QED
    BY <1>1, <2>1, <2>2
<1>5. CASE BeginPass
  <2>1. CASE Ends("crash", {})
    BY <1>1, <2>1
  <2>2. CASE ~Ends("crash", {})
    <3>1. /\ written' = Probes(Group(pending)) /\ Group(pending) \subseteq DOMAIN state
          /\ queue' = Writes(InOrder(Targets, DOMAIN written'), [r \in DOMAIN written' |-> written'[r].value])
          /\ IF DOMAIN written' = {} THEN pc' = "pass" /\ passes' = passes + 1
             ELSE pc' = "look" /\ UNCHANGED passes
          /\ UNCHANGED <<dev, before, state, pending, attempts, rounds, unrestored, exit>>
      BY <1>5, <2>2 DEF BeginPass
    <3>2. pc = "pass" /\ passes < 6 /\ UNCHANGED <<losses, first>>
      BY <1>5 DEF BeginPass
    <3>3. pc' = "pass" => queue' = <<>>
      BY <3>1, NothingToWrite
    <3>4. \A i \in DOMAIN queue' : queue'[i].reg \in DOMAIN written'
      <4>. DEFINE chosen == Probes(Group(pending))
                  values == [r \in DOMAIN chosen |-> chosen[r].value]
      <4>1. /\ DOMAIN chosen \subseteq Reg
            /\ \A r \in DOMAIN chosen : chosen[r].value \in Int
        BY <3>1, <3>2, ProbesTyped DEF SweepInv, Held, Option
      <4>2. queue' = Writes(InOrder(Targets, DOMAIN chosen), values) /\ written' = chosen
        BY <3>1
      <4>. HIDE DEF chosen
      <4>. QED
        BY <4>1, <4>2, WritesTyped
    <3>5. losses' = 0 /\ Level' => dev = first /\ Known'
      BY <3>1, <3>2 DEF Level, Known
    <3>. QED
      BY <3>1, <3>2, <3>3, <3>4, <3>5
  <2>. QED
    BY <2>1, <2>2
<1>6. CASE Look
  <2>1. /\ pc = "look" /\ pc' = "reread" /\ queue' = RestoreWrites
        /\ UNCHANGED <<dev, written, state, first>>
    BY <1>6 DEF Look
  <2>2. \A r \in Reg : Touched(r, DOMAIN written) => Touched(r, {queue'[i].reg : i \in DOMAIN queue'})
    <3>1. \A w \in DOMAIN written : w \in {queue'[i].reg : i \in DOMAIN queue'}
      BY <2>1, RestoreTyped
    <3>. QED
      BY <3>1 DEF Touched
  <2>3. losses' = 0 => losses = 0
    BY <1>6, WholeDump DEF Look, SweepInv
  <2>4. ASSUME losses = 0, Level
        PROVE  \A i \in DOMAIN queue' : queue'[i].value = AsTag(queue'[i].reg, first[queue'[i].reg])
    <3>1. Known /\ DOMAIN written \subseteq Reg
      BY <2>1, <2>4 DEF SweepInv, SweepTypeOK, Held
    <3>. QED
      BY <2>1, <3>1, RestoreTyped DEF Known
  <2>. QED
    BY <2>1, <2>2, <2>3, <2>4 DEF Level
<1>7. CASE Reread
  <2>1. PICK seen \in Dumps : Reads(seen) /\ state' = seen
    BY <1>7 DEF Reread
  <2>2. pc = "reread" /\ pc' = "pass" /\ UNCHANGED <<dev, queue, first>> /\ queue = <<>>
    BY <1>7 DEF Reread, Reads
  <2>3. ASSUME losses' = 0, Level PROVE dev = first /\ Known'
    <3>1. losses = 0 /\ \A r \in Reg : r \in DOMAIN seen /\ seen[r] = dev[r]
      BY <2>1, <2>3, WholeDump DEF SweepInv
    <3>2. \A r \in Reg : dev[r] = first[r]
      BY <2>2, <2>3, <3>1 DEF Touched
    <3>3. dev \in [Reg -> Int] /\ first \in [Reg -> Int]
      BY SweepConstants DEF SweepInv, SweepTypeOK, Held
    <3>. QED
      BY <2>1, <2>2, <3>1, <3>2, <3>3 DEF Known
  <2>. QED
    BY <2>2, <2>3 DEF Level
<1>8. CASE ReadAgain
  BY <1>8 DEF ReadAgain
<1>9. CASE Repair
  BY <1>1, <1>9 DEF Repair, Rewrite
<1>10. CASE Interrupt
  BY <1>1, <1>10 DEF Interrupt
<1>11. CASE UNCHANGED vars
  BY <1>11 DEF vars, toolVars, Level, Known, Touched
<1>. QED
  BY <1>2, <1>3, <1>4, <1>5, <1>6, <1>7, <1>8, <1>9, <1>10, <1>11 DEF Next, SweepStep

\* While no datagram is lost, a pass gives a device back as the sweep found it,
\* when its linked pairs were level and it takes back what it has held (_pass).
THEOREM RestoredUnlessLost == TakesItBack => (Spec => []DriftNeedsALoss)
<1>. SUFFICES ASSUME TakesItBack PROVE Spec => []DriftNeedsALoss
  OBVIOUS
<1>1. Init => SweepInv /\ IInv /\ GoesBack
  <2>1. Init => IInv
    BY DEF Init, IInv, EveryDriftIsNamed, Finished, Quiet
  <2>2. Init => GoesBack
    BY DEF Init, GoesBack
  <2>. QED
    BY <2>1, <2>2, SweepInitTyped
<1>2. SweepInv /\ IInv /\ GoesBack /\ [Next]_vars => (SweepInv /\ IInv /\ GoesBack)'
  BY SweepStepTyped, Inductive, GoesBackStep
<1>3. GoesBack => DriftNeedsALoss
  BY DEF GoesBack, DriftNeedsALoss
<1>. QED
  BY <1>1, <1>2, <1>3, PTL DEF Spec

----------------------------------------------------------------------------
(* The passes: what is written is a candidate for what the last dump said,  *)
(* and no other write of the pass reaches a register that is written.       *)

\* Under way, a register is as the dump had it, or as its own write left it.
OwnWriteOnly(r) ==
  \/ dev[r] = state[r]
  \/ LET sent == AsTag(r, written[r].value) IN ~Refuses(r, sent) /\ dev[r] = Taken(r, sent)

PassInv ==
  /\ pc = "pass" => \A r \in DOMAIN state : state[r] = dev[r]
  /\ pc = "look" =>
       /\ \A i \in DOMAIN queue :
            /\ queue[i].reg \in DOMAIN written
            /\ queue[i].value = AsTag(queue[i].reg, written[queue[i].reg].value)
       /\ \A r \in DOMAIN written :
            /\ Candidates(r, state[r]) # <<>>
            /\ written[r] = Chosen(Candidates(r, state[r]), Step)
            /\ OwnWriteOnly(r)
  /\ pc = "reread" =>
       \A i \in DOMAIN queue :
         queue[i].reg \in DOMAIN state /\ queue[i].value = AsTag(queue[i].reg, state[queue[i].reg])

\* What a write makes of each register.
LEMMA PutGives ==
  ASSUME dev \in [Reg -> Int], NEW w \in Reg, NEW v, NEW r \in Reg
  PROVE  Put(w, v)[r] = IF r \in Moves(w) /\ ~Refuses(w, v) THEN Taken(w, v) ELSE dev[r]
<1>1. Device[w].partner \in Reg
  BY SweepConstants
<1>. QED
  BY <1>1 DEF Put, Moves

\* A write that is taken: the first of those still to be sent.
LEMMA WriteTakes ==
  ASSUME SweepInv, Write
  PROVE  /\ 1 \in DOMAIN queue /\ queue[1].reg \in Reg /\ queue[1].value \in Int
         /\ \/ dev' = Put(queue[1].reg, queue[1].value) /\ losses' = losses
            \/ dev' = dev /\ losses' = losses + 1
         /\ UNCHANGED <<pc, toolVars, first>>
         /\ \A i \in DOMAIN queue' : i + 1 \in DOMAIN queue /\ queue'[i] = queue[i + 1]
         /\ \A i \in DOMAIN queue : i # 1 => i - 1 \in DOMAIN queue' /\ queue'[i - 1] = queue[i]
<1>1. queue \in Seq(WriteOrder) /\ queue # <<>> /\ queue' = Tail(queue)
  BY DEF SweepInv, Held, Write
<1>2. 1 \in DOMAIN queue /\ Head(queue) = queue[1] /\ queue[1] \in WriteOrder
  BY <1>1
<1>3. /\ \A i \in DOMAIN queue' : i + 1 \in DOMAIN queue /\ queue'[i] = queue[i + 1]
      /\ \A i \in DOMAIN queue : i # 1 => i - 1 \in DOMAIN queue' /\ queue'[i - 1] = queue[i]
  BY <1>1
<1>. QED
  BY <1>2, <1>3 DEF Write, WriteOrder

LEMMA PassWrite ==
  ASSUME PairsAcrossPasses, SweepInv, IInv, PassInv, Write
  PROVE  PassInv'
<1>1. /\ 1 \in DOMAIN queue /\ queue[1].reg \in Reg /\ queue[1].value \in Int
      /\ dev' = Put(queue[1].reg, queue[1].value) \/ dev' = dev
      /\ UNCHANGED <<pc, toolVars, first>>
      /\ \A i \in DOMAIN queue' : i + 1 \in DOMAIN queue /\ queue'[i] = queue[i + 1]
  BY WriteTakes
<1>2. pc # "pass"
  BY <1>1 DEF IInv, Quiet
<1>3. ASSUME pc = "look", NEW r \in DOMAIN written PROVE OwnWriteOnly(r)'
  <2>1. /\ queue[1].reg \in DOMAIN written
        /\ queue[1].value = AsTag(queue[1].reg, written[queue[1].reg].value)
        /\ OwnWriteOnly(r)
    BY <1>1, <1>3 DEF PassInv
  <2>2. r \in Reg /\ Odd(r) = (passes % 2 = 0) /\ Odd(queue[1].reg) = (passes % 2 = 0)
    BY <1>3, <2>1 DEF SweepInv, SweepTypeOK, Held
  <2>3. CASE dev' = dev
    BY <1>1, <2>1, <2>3 DEF OwnWriteOnly, toolVars
  <2>4. CASE dev' = Put(queue[1].reg, queue[1].value)
    <3>1. r \in Moves(queue[1].reg) => r = queue[1].reg
      BY <1>1, <2>2 DEF Moves, PairsAcrossPasses
    <3>2. dev \in [Reg -> Int]
      BY DEF SweepInv, SweepTypeOK
    <3>3. dev'[r] = IF r \in Moves(queue[1].reg) /\ ~Refuses(queue[1].reg, queue[1].value)
                    THEN Taken(queue[1].reg, queue[1].value) ELSE dev[r]
      BY <1>1, <2>2, <2>4, <3>2, PutGives
    <3>. QED
      BY <1>1, <2>1, <3>1, <3>3 DEF OwnWriteOnly, toolVars
  <2>. QED
    BY <1>1, <2>3, <2>4
<1>4. ASSUME pc = "look" PROVE
        /\ \A i \in DOMAIN queue' :
             /\ queue'[i].reg \in DOMAIN written
             /\ queue'[i].value = AsTag(queue'[i].reg, written[queue'[i].reg].value)
        /\ \A r \in DOMAIN written :
             /\ Candidates(r, state[r]) # <<>>
             /\ written[r] = Chosen(Candidates(r, state[r]), Step)
  BY <1>1, <1>4 DEF PassInv
<1>5. ASSUME pc = "reread", NEW i \in DOMAIN queue'
      PROVE  queue'[i].reg \in DOMAIN state /\ queue'[i].value = AsTag(queue'[i].reg, state[queue'[i].reg])
  BY <1>1, <1>5 DEF PassInv
<1>6. UNCHANGED <<pc, written, state, passes>>
  BY <1>1 DEF toolVars
<1>. QED
  BY <1>2, <1>3, <1>4, <1>5, <1>6 DEF PassInv, Step

\* The head of a pass: candidates go out for registers that are as the dump says.
LEMMA PassBegins ==
  ASSUME SweepInv, PassInv, BeginPass
  PROVE  /\ UNCHANGED <<dev, before, state, pending, attempts, losses, first>>
         /\ \/ pc' = "done"
            \/ /\ Group(pending) \subseteq DOMAIN state
               /\ written' = Probes(Group(pending))
               /\ \A i \in DOMAIN queue' :
                    /\ queue'[i].reg \in DOMAIN written'
                    /\ queue'[i].value = AsTag(queue'[i].reg, written'[queue'[i].reg].value)
               /\ \A r \in DOMAIN written' : \E i \in DOMAIN queue' : queue'[i].reg = r
               /\ \/ DOMAIN written' = {} /\ pc' = "pass" /\ passes' = passes + 1
                  \/ DOMAIN written' # {} /\ pc' = "look" /\ passes' = passes
<1>1. pc = "pass" /\ passes < 6 /\ UNCHANGED <<losses, first>>
  BY DEF BeginPass
<1>2. CASE ~(Group(pending) \subseteq DOMAIN state)
  BY <1>1, <1>2 DEF BeginPass, Ends
<1>3. CASE Group(pending) \subseteq DOMAIN state
  <2>. DEFINE chosen == Probes(Group(pending))
              values == [r \in DOMAIN chosen |-> chosen[r].value]
  <2>1. /\ DOMAIN chosen \subseteq pending \intersect DOMAIN state
        /\ \A r \in DOMAIN chosen : chosen[r] \in Option
    BY <1>1, <1>3, ProbesTyped
  <2>2. /\ written' = chosen
        /\ queue' = Writes(InOrder(Targets, DOMAIN written'), [r \in DOMAIN written' |-> written'[r].value])
        /\ IF DOMAIN written' = {} THEN pc' = "pass" /\ passes' = passes + 1
           ELSE pc' = "look" /\ UNCHANGED passes
        /\ UNCHANGED <<dev, before, state, pending, attempts, rounds, unrestored, exit>>
    BY <1>3 DEF BeginPass
  <2>. HIDE DEF chosen
  <2>3. DOMAIN chosen \subseteq Reg /\ DOMAIN chosen \subseteq ToSet(Targets)
        /\ \A r \in DOMAIN chosen : values[r] \in Int
    BY <2>1 DEF SweepInv, Held, Option
  <2>4. queue' = Writes(InOrder(Targets, DOMAIN chosen), values)
    BY <2>2
  <2>5. /\ \A i \in DOMAIN queue' : /\ queue'[i].reg \in DOMAIN chosen
                                    /\ queue'[i].value = AsTag(queue'[i].reg, values[queue'[i].reg])
        /\ \A r \in DOMAIN chosen : \E i \in DOMAIN queue' : queue'[i].reg = r
    <3>1. DOMAIN chosen \in SUBSET Reg /\ Targets \in {Targets, Sorted}
      BY <2>3
    <3>. HIDE DEF values
    <3>2. /\ \A i \in DOMAIN Writes(InOrder(Targets, DOMAIN chosen), values) :
               LET w == Writes(InOrder(Targets, DOMAIN chosen), values)[i]
               IN  w.reg \in DOMAIN chosen /\ w.value = AsTag(w.reg, values[w.reg])
          /\ \A r \in DOMAIN chosen \intersect ToSet(Targets) :
               \E i \in DOMAIN Writes(InOrder(Targets, DOMAIN chosen), values) :
                  Writes(InOrder(Targets, DOMAIN chosen), values)[i].reg = r
      BY <2>3, <3>1, WritesTyped
    <3>. QED
      BY <2>3, <2>4, <3>2
  <2>6. \A i \in DOMAIN queue' : queue'[i].value = AsTag(queue'[i].reg, chosen[queue'[i].reg].value)
    BY <2>5
  <2>. QED
    BY <1>1, <1>3, <2>2, <2>5, <2>6 DEF chosen
<1>. QED
  BY <1>2, <1>3

LEMMA PassStep ==
  ASSUME PairsAcrossPasses, SweepInv, IInv, PassInv, [Next]_vars
  PROVE  PassInv'
<1>0. ASSUME NEW code, NEW drift, Ends(code, drift) PROVE PassInv'
  BY <1>0 DEF Ends, PassInv
<1>1. CASE Open
  BY <1>0, <1>1 DEF Open, PassInv
<1>2. CASE Write
  BY <1>2, PassWrite
<1>3. CASE ReadBefore
  <2>1. PICK seen \in Dumps : Ends("1", {}) \/ (state' = seen /\ pc' = "pass" /\ UNCHANGED dev)
    BY <1>3 DEF ReadBefore
  <2>. QED
    BY <1>0, <2>1, DumpsAreTrue DEF PassInv
<1>4. CASE BeginPass
  <2>1. CASE pc' = "done"
    BY <2>1 DEF PassInv
  <2>2. CASE pc' # "done"
    <3>1. /\ UNCHANGED <<dev, state>> /\ written' = Probes(Group(pending))
          /\ pc' = "pass" \/ (pc' = "look" /\ passes' = passes)
          /\ \A i \in DOMAIN queue' :
               /\ queue'[i].reg \in DOMAIN written'
               /\ queue'[i].value = AsTag(queue'[i].reg, written'[queue'[i].reg].value)
          /\ Group(pending) \subseteq DOMAIN state
      BY <1>4, <2>2, PassBegins
    <3>2. pc = "pass" /\ \A r \in DOMAIN state : state[r] = dev[r]
      BY <1>4 DEF BeginPass, PassInv
    <3>3. \A r \in DOMAIN written' :
            /\ r \in DOMAIN state /\ Candidates(r, state[r]) # <<>>
            /\ written'[r] = Chosen(Candidates(r, state[r]), Step)
      BY <3>1 DEF Probes
    <3>4. pc' = "look" => Step' = Step
      BY <3>1 DEF Step
    <3>. QED
      BY <3>1, <3>2, <3>3, <3>4 DEF PassInv, OwnWriteOnly
  <2>. QED
    BY <2>1, <2>2
<1>5. CASE Look
  <2>1. /\ pc = "look" /\ pc' = "reread" /\ queue' = RestoreWrites /\ UNCHANGED state
    BY <1>5 DEF Look
  <2>2. DOMAIN written \subseteq DOMAIN state
    BY <2>1 DEF SweepInv, Held
  <2>. QED
    BY <2>1, <2>2, RestoreTyped DEF PassInv
<1>6. CASE Reread
  <2>1. PICK seen \in Dumps : state' = seen
    BY <1>6 DEF Reread
  <2>. QED
    BY <1>6, <2>1, DumpsAreTrue DEF Reread, PassInv
<1>7. CASE ReadAgain
  BY <1>7 DEF ReadAgain, PassInv
<1>8. CASE Repair
  BY <1>0, <1>8 DEF Repair, Rewrite, PassInv
<1>9. CASE Interrupt
  BY <1>0, <1>9 DEF Interrupt
<1>10. CASE UNCHANGED vars
  BY <1>10 DEF vars, toolVars, PassInv, OwnWriteOnly, Step
<1>. QED
  BY <1>1, <1>2, <1>3, <1>4, <1>5, <1>6, <1>7, <1>8, <1>9, <1>10 DEF Next, SweepStep

----------------------------------------------------------------------------
(* "Clamped" is said only of a register that stops short, or is not sent    *)
(* what was asked of it.                                                    *)

LEMMA StepTyped ==
  ASSUME SweepInv
  PROVE  Step \in Nat \ {0}
BY DEF Step, SweepInv, SweepTypeOK

LEMMA ChosenIsOne ==
  ASSUME NEW r \in Reg, NEW v \in Int, Candidates(r, v) # <<>>, NEW step \in Nat \ {0}
  PROVE  /\ Chosen(Candidates(r, v), step) \in ToSet(Candidates(r, v))
         /\ AsTag(r, Chosen(Candidates(r, v), step).value) \in Sendable(r, v)
<1>1. Candidates(r, v) \in Seq(Option)
  BY CandidatesTyped
<1>2. Smaller(step, Len(Candidates(r, v))) \in DOMAIN Candidates(r, v)
  BY <1>1 DEF Smaller
<1>. QED
  BY <1>2 DEF Chosen, ToSet, Sendable

\* What is held, reported and written stays within the values; what was
\* answered was followed, or as_tag had blurred it.
HeldWithin(values) ==
  /\ \A r \in Reg : dev[r] \in values[r]
  /\ \A r \in DOMAIN before : before[r] \in values[r]
  /\ \A r \in DOMAIN state : state[r] \in values[r]
  /\ pc = "recheck" => \A i \in DOMAIN queue :
       queue[i].reg \in DOMAIN before /\ queue[i].value = AsTag(queue[i].reg, before[queue[i].reg])

AnswersFollow ==
  \A r \in DOMAIN attempts : Device[r].takes # "up to top" =>
    \A i \in DOMAIN attempts[r] : attempts[r][i].reported.answered =>
      Followed(attempts[r][i]) \/ Blurred(r, attempts[r][i])

ClampInv(values) == HeldWithin(values) /\ AnswersFollow

LEMMA WriteWithin ==
  ASSUME NEW values, HoldsOnly(values), SweepInv, IInv, PassInv, HeldWithin(values), Write
  PROVE  HeldWithin(values)'
<1>. DEFINE w == queue[1].reg
            x == queue[1].value
<1>1. /\ 1 \in DOMAIN queue /\ w \in Reg /\ x \in Int
      /\ dev' = Put(w, x) \/ dev' = dev
      /\ UNCHANGED <<pc, toolVars, first>>
      /\ \A i \in DOMAIN queue' : i + 1 \in DOMAIN queue /\ queue'[i] = queue[i + 1]
  BY WriteTakes
<1>2. \E v \in values[w] : x \in Sendable(w, v)
  <2>1. CASE pc = "look"
    <3>1. w \in DOMAIN written /\ x = AsTag(w, written[w].value)
      BY <1>1, <2>1 DEF PassInv
    <3>2. Candidates(w, state[w]) # <<>> /\ written[w] = Chosen(Candidates(w, state[w]), Step)
      BY <2>1, <3>1 DEF PassInv
    <3>3. w \in DOMAIN state /\ state[w] \in Int
      BY <2>1, <3>1 DEF SweepInv, Held
    <3>4. Step \in Nat \ {0}
      BY StepTyped
    <3>5. x \in Sendable(w, state[w])
      BY <1>1, <3>1, <3>2, <3>3, <3>4, ChosenIsOne
    <3>. QED
      BY <3>3, <3>5 DEF HeldWithin
  <2>2. CASE pc = "reread"
    <3>1. w \in DOMAIN state /\ x = AsTag(w, state[w])
      BY <1>1, <2>2 DEF PassInv
    <3>. QED
      BY <3>1 DEF HeldWithin, Sendable
  <2>3. CASE pc = "recheck"
    <3>1. w \in DOMAIN before /\ x = AsTag(w, before[w])
      BY <1>1, <2>3 DEF HeldWithin
    <3>. QED
      BY <3>1 DEF HeldWithin, Sendable
  <2>. QED
    BY <1>1, <2>1, <2>2, <2>3 DEF IInv, Quiet, SweepInv, SweepTypeOK
<1>3. ~Refuses(w, x) => Taken(w, x) \in values[w] /\ Taken(w, x) \in values[Device[w].partner]
  BY <1>1, <1>2 DEF HoldsOnly
<1>4. \A r \in Reg : dev'[r] \in values[r]
  <2>. TAKE r \in Reg
  <2>1. dev[r] \in values[r] /\ dev \in [Reg -> Int]
    BY DEF HeldWithin, SweepInv, SweepTypeOK
  <2>2. Put(w, x)[r] = IF r \in Moves(w) /\ ~Refuses(w, x) THEN Taken(w, x) ELSE dev[r]
    BY <1>1, <2>1, PutGives
  <2>. QED
    BY <1>1, <1>3, <2>1, <2>2 DEF Moves
<1>. QED
  BY <1>1, <1>4 DEF HeldWithin, toolVars

LEMMA AppendedAt ==
  ASSUME NEW r \in DOMAIN attempts, SweepInv, NEW e, NEW i \in DOMAIN Append(attempts[r], e)
  PROVE  \/ i \in DOMAIN attempts[r] /\ Append(attempts[r], e)[i] = attempts[r][i]
         \/ Append(attempts[r], e)[i] = e
<1>1. attempts[r] \in Seq(Try)
  BY DEF SweepInv, TurnsTaken
<1>. QED
  BY <1>1

\* An answer is what the register's own write left of it.
LEMMA LookFollows ==
  ASSUME NEW values, RoundsCleanly(values),
         SweepInv, PassInv, HeldWithin(values), AnswersFollow, Look
  PROVE  AnswersFollow'
<1>. DEFINE Came(seen, q) == [value    |-> written[q].value,
                              size     |-> written[q].size,
                              held     |-> state[q],
                              reported |-> Reported(seen, q)]
<1>1. PICK seen \in Dumps :
        attempts' = [r \in DOMAIN attempts |->
                       IF r \in DOMAIN written THEN Append(attempts[r], Came(seen, r))
                       ELSE attempts[r]]
  BY DEF Look
<1>2. pc = "look"
  BY DEF Look
<1>. SUFFICES ASSUME NEW r \in DOMAIN attempts, Device[r].takes # "up to top",
                     NEW i \in DOMAIN attempts'[r], attempts'[r][i].reported.answered
              PROVE  Followed(attempts'[r][i]) \/ Blurred(r, attempts'[r][i])
  BY <1>1 DEF AnswersFollow
<1>3. attempts[r] \in Seq(Try)
  BY DEF SweepInv, TurnsTaken
<1>. DEFINE new == Came(seen, r)
<1>6. attempts'[r] = IF r \in DOMAIN written THEN Append(attempts[r], new) ELSE attempts[r]
  BY <1>1
<1>7. new.reported = Reported(seen, r) /\ new.value = written[r].value /\ new.size = written[r].size
  OBVIOUS
<1>8. \/ i \in DOMAIN attempts[r] /\ attempts'[r][i] = attempts[r][i]
      \/ r \in DOMAIN written /\ attempts'[r][i] = new
  <2>. HIDE DEF new
  <2>1. CASE r \in DOMAIN written
    <3>1. attempts'[r] = Append(attempts[r], new)
      BY <1>6, <2>1
    <3>2. i \in DOMAIN Append(attempts[r], new)
      BY <3>1
    <3>3. \/ i \in DOMAIN attempts[r] /\ Append(attempts[r], new)[i] = attempts[r][i]
          \/ Append(attempts[r], new)[i] = new
      BY <3>2, AppendedAt
    <3>. QED
      BY <2>1, <3>1, <3>3
  <2>2. CASE r \notin DOMAIN written
    BY <1>6, <2>2
  <2>. QED
    BY <2>1, <2>2
<1>4. CASE i \in DOMAIN attempts[r] /\ attempts'[r][i] = attempts[r][i]
  BY <1>4 DEF AnswersFollow
<1>5. CASE r \in DOMAIN written /\ attempts'[r][i] = new
  <2>1. r \in DOMAIN written /\ Reported(seen, r).answered
    BY <1>5, <1>7
  <2>2. r \in DOMAIN seen /\ seen[r] # state[r] /\ Reported(seen, r) = Answer(seen[r])
    BY <2>1 DEF Reported, Silence
  <2>3. seen[r] = dev[r]
    BY <2>2, DumpsAreTrue
  <2>4. /\ r \in Reg /\ r \in DOMAIN state /\ state[r] \in Int
        /\ Candidates(r, state[r]) # <<>> /\ written[r] = Chosen(Candidates(r, state[r]), Step)
        /\ OwnWriteOnly(r)
    BY <1>2, <2>1 DEF SweepInv, SweepTypeOK, Held, PassInv
  <2>. DEFINE sent == AsTag(r, written[r].value)
  <2>5. ~Refuses(r, sent) /\ dev[r] = Taken(r, sent)
    BY <2>2, <2>3, <2>4 DEF OwnWriteOnly
  <2>6. Step \in Nat \ {0}
    BY StepTyped
  <2>7. written[r] \in ToSet(Candidates(r, state[r])) /\ state[r] \in values[r]
    BY <2>4, <2>6, ChosenIsOne DEF HeldWithin
  <2>. DEFINE try == [value |-> written[r].value, size |-> written[r].size, held |-> state[r],
                      reported |-> Answer(Taken(r, sent))]
  <2>8. \/ Refuses(r, sent)
        \/ Taken(r, sent) = state[r]
        \/ Followed(try)
        \/ Blurred(r, try)
    BY <2>4, <2>7 DEF RoundsCleanly
  <2>9. new = try
    BY <2>2, <2>3, <2>5
  <2>. HIDE DEF new, try, sent
  <2>. QED
    BY <1>5, <2>2, <2>3, <2>5, <2>8, <2>9
<1>. QED
  BY <1>4, <1>5, <1>8

LEMMA ClampStep ==
  ASSUME NEW values, HoldsOnly(values), RoundsCleanly(values),
         SweepInv, IInv, PassInv, ClampInv(values), [Next]_vars
  PROVE  ClampInv(values)'
<1>. USE DEF ClampInv
<1>0. ASSUME NEW code, NEW drift, Ends(code, drift) PROVE ClampInv(values)'
  BY <1>0 DEF Ends, HeldWithin, AnswersFollow
<1>1. CASE Open
  BY <1>0, <1>1 DEF Open, toolVars, HeldWithin, AnswersFollow
<1>2. CASE Write
  BY <1>2, WriteWithin, WriteTakes DEF toolVars, AnswersFollow
<1>9. ASSUME NEW seen \in Dumps PROVE \A r \in DOMAIN seen : seen[r] \in values[r]
  <2>1. DOMAIN seen \subseteq Reg
    BY <1>9, DumpsTyped DEF SweepInv, SweepTypeOK
  <2>. QED
    BY <1>9, <2>1, DumpsAreTrue DEF HeldWithin
<1>3. CASE ReadBefore
  <2>1. PICK seen \in Dumps :
          \/ Ends("1", {})
          \/ /\ before' = seen /\ state' = seen /\ pc' = "pass" /\ UNCHANGED <<dev, queue>>
             /\ attempts' = [r \in pending' |-> <<>>]
    BY <1>3 DEF ReadBefore
  <2>2. CASE Ends("1", {})
    BY <1>0, <2>2
  <2>3. CASE ~Ends("1", {})
    <3>1. AnswersFollow'
      <4>1. \A r \in DOMAIN attempts' : attempts'[r] = <<>>
        BY <2>1, <2>3
      <4>2. DOMAIN <<>> = {}
        OBVIOUS
      <4>. QED
        BY <4>1, <4>2 DEF AnswersFollow
    <3>. QED
      BY <1>9, <2>1, <2>3, <3>1 DEF HeldWithin
  <2>. QED
    BY <2>2, <2>3
<1>4. CASE BeginPass
  <2>1. UNCHANGED <<dev, before, state, attempts>> /\ pc' \in {"done", "pass", "look"}
    BY <1>4, PassBegins
  <2>. QED
    BY <2>1 DEF HeldWithin, AnswersFollow
<1>5. CASE Look
  <2>1. UNCHANGED <<dev, before, state>> /\ pc' = "reread"
    BY <1>5 DEF Look
  <2>. QED
    BY <1>5, <2>1, LookFollows DEF HeldWithin
<1>6. CASE Reread
  BY <1>6, <1>9 DEF Reread, HeldWithin, AnswersFollow
<1>7. CASE ReadAgain
  BY <1>7, <1>9 DEF ReadAgain, HeldWithin, AnswersFollow
<1>8. CASE Repair
  <2>1. CASE Ends("0", {}) \/ Ends("1", Wrong)
    BY <1>0, <2>1
  <2>2. CASE Rewrite
    <3>1. Wrong \intersect DOMAIN before \in SUBSET Reg
      BY DEF SweepInv, SweepTypeOK
    <3>2. \A r \in Wrong \intersect DOMAIN before : before[r] \in Int
      BY DEF SweepInv, Held
    <3>3. \A i \in DOMAIN queue' :
            queue'[i].reg \in DOMAIN before /\ queue'[i].value = AsTag(queue'[i].reg, before[queue'[i].reg])
      BY <2>2, <3>1, <3>2, WritesTyped DEF Rewrite
    <3>. QED
      BY <2>2, <3>3 DEF Rewrite, HeldWithin, AnswersFollow
  <2>. QED
    BY <1>8, <2>1, <2>2 DEF Repair
<1>10. CASE Interrupt
  BY <1>0, <1>10 DEF Interrupt
<1>11. CASE UNCHANGED vars
  BY <1>11 DEF vars, toolVars, HeldWithin, AnswersFollow
<1>. QED
  BY <1>1, <1>2, <1>3, <1>4, <1>5, <1>6, <1>7, <1>8, <1>10, <1>11 DEF Next, SweepStep

\* The answer a verdict goes by is one of the answers.
LEMMA EarliestIsOne ==
  ASSUME NEW tries \in Seq(Try), Answered(tries) # {}
  PROVE  \E i \in Answered(tries) : Earliest(tries) = tries[i]
<1>1. Answered(tries) \in SUBSET Nat
  BY DEF Answered
<1>2. \E i \in Answered(tries) : \A j \in Answered(tries) : i <= j
  BY <1>1, Smallest
<1>. QED
  BY <1>2 DEF Earliest

LEMMA PassInit == Init => PassInv
BY DEF Init, PassInv

\* Of a register whose answers were followed, "clamped" is not said.
LEMMA FollowedIsNotClamped ==
  ASSUME NEW values, SweepInv, ClampInv(values)
  PROVE  ClampedMeansClamped
<1>. SUFFICES ASSUME NEW r \in DOMAIN attempts, Judged(r) = "clamped",
                     Device[r].takes # "up to top"
              PROVE  Blurred(r, Earliest(attempts[r]))
  BY DEF ClampedMeansClamped
<1>1. attempts[r] \in Seq(Try)
  BY DEF SweepInv, TurnsTaken
<1>2. Answered(attempts[r]) # {} /\ ~Followed(Earliest(attempts[r]))
  BY DEF Judged, Verdict
<1>3. PICK i \in Answered(attempts[r]) : Earliest(attempts[r]) = attempts[r][i]
  BY <1>1, <1>2, EarliestIsOne
<1>. QED
  BY <1>2, <1>3 DEF Answered, ClampInv, AnswersFollow

\* A register is called clamped only when its device stops short, or what it
\* was sent is itself half a step from what was asked, whatever is lost: pairs
\* are never in one pass, and each answer is that of the register's own write
\* (main, _pass, as_tag, verdict).
THEOREM ClampedStopsShort ==
  ASSUME NEW CONSTANT values, HoldsOnly(values), RoundsCleanly(values), PairsAcrossPasses
  PROVE  Spec => []ClampedMeansClamped
<1>1. Init => SweepInv /\ IInv /\ PassInv /\ ClampInv(values)
  <2>1. Init => IInv
    BY DEF Init, IInv, EveryDriftIsNamed, Finished, Quiet
  <2>2. Init => ClampInv(values)
    BY DEF Init, ClampInv, HeldWithin, AnswersFollow, HoldsOnly
  <2>. QED
    BY <2>1, <2>2, SweepInitTyped, PassInit
<1>2. SweepInv /\ IInv /\ PassInv /\ ClampInv(values) /\ [Next]_vars
        => (SweepInv /\ IInv /\ PassInv /\ ClampInv(values))'
  BY SweepStepTyped, Inductive, PassStep, ClampStep
<1>3. SweepInv /\ ClampInv(values) => ClampedMeansClamped
  BY FollowedIsNotClamped
<1>. QED
  BY <1>1, <1>2, <1>3, PTL DEF Spec

----------------------------------------------------------------------------
(* "Ignored" is said only after three attempts, and of each of them that     *)
(* would have shown a datagram was lost.                                     *)

\* A register always has something to write, or never.
Offered(r) == \A v \in Int : Candidates(r, v) # <<>>
Barren(r)  == \A v \in Int : Candidates(r, v) = <<>>

Sent(r) == \A i \in DOMAIN queue : queue[i].reg # r

\* In the pass of its parity.
HasTurn(r) == Odd(r) = (passes % 2 = 0)

NotBegun ==
  pc \in {"open", "before"} => passes = 0 /\ pending = {} /\ DOMAIN attempts = {}

\* Until it answers, a register is tried whenever it has its turn.
TurnsUsed ==
  /\ pending \subseteq DOMAIN attempts
  /\ \A r \in pending :
       /\ Barren(r) => attempts[r] = <<>>
       /\ Offered(r) =>
            /\ pc \in {"pass", "look"} => Len(attempts[r]) = Turns(r, passes)
            /\ pc = "look" /\ HasTurn(r) => r \in DOMAIN written
            /\ pc = "reread" => Len(attempts[r]) = Turns(r, passes + 1)
            /\ pc \in {"repair", "recheck"} \/ Finished => Len(attempts[r]) = 3
  /\ \A r \in DOMAIN attempts : r \notin pending => Answered(attempts[r]) # {}

Cost(r) == Cardinality(ShowingTries(r, attempts[r]))

\* The write of this pass, as the attempt it is going to be.
Trying(r) == [value |-> written[r].value, held |-> state[r]]

\* Each attempt that would have shown has cost a datagram; the one under way
\* has cost one too, or is still to be sent, or is there to be seen.
LossesPay ==
  /\ \A r \in pending : Cost(r) <= losses
  /\ pc = "look" => \A r \in DOMAIN written :
       /\ r \in pending
       /\ Shows(r, Trying(r)) => Cost(r) + 1 <= losses \/ ~Sent(r) \/ dev[r] # state[r]

IgnoreInv == NotBegun /\ TurnsUsed /\ LossesPay

LEMMA OfferedOrBarren ==
  ASSUME NEW r \in Reg
  PROVE  Offered(r) \/ Barren(r)
<1>1. CASE Kind[r].domain = "bool"
  BY <1>1 DEF Offered, Candidates
<1>2. CASE Kind[r].domain = "enum"
  <2>1. PICK i \in DOMAIN Kind[r].wire, j \in DOMAIN Kind[r].wire : Kind[r].wire[i] # Kind[r].wire[j]
    BY <1>2, SweepConstants
  <2>2. \A v : {k \in DOMAIN Kind[r].wire : Kind[r].wire[k] # v} # {}
    BY <2>1
  <2>3. ASSUME NEW v \in Int PROVE EnumCandidates(r, v) # <<>>
    BY <2>2 DEF EnumCandidates
  <2>. QED
    BY <1>2, <2>3 DEF Offered, Candidates
<1>3. CASE Kind[r].domain = "number"
  <2>1. \A v \in Int : Candidates(r, v) = NumberCandidates(r, v)
    BY <1>3 DEF Candidates
  <2>2. CASE Bounded(r) /\ Kind[r].hi <= Kind[r].lo
    BY <2>1, <2>2 DEF Barren, NumberCandidates
  <2>3. CASE ~(Bounded(r) /\ Kind[r].hi <= Kind[r].lo)
    <3>1. ASSUME NEW f, f = <<>>, DOMAIN f = 1 .. 3 PROVE FALSE
      <4>1. DOMAIN <<>> = {} /\ 1 \in 1 .. 3
        OBVIOUS
      <4>. QED
        BY <3>1, <4>1
    <3>2. \A v \in Int : DOMAIN NumberCandidates(r, v) = 1 .. 3
      BY <2>3 DEF NumberCandidates
    <3>. QED
      BY <2>1, <3>1, <3>2 DEF Offered
  <2>. QED
    BY <2>2, <2>3
<1>. QED
  BY <1>1, <1>2, <1>3, SweepConstants DEF Domains

\* A register has three turns, and none in a pass of the other parity.
LEMMA TurnsCounted ==
  ASSUME NEW r, NEW p \in 0 .. 6
  PROVE  /\ Turns(r, 6) = 3
         /\ p = 0 => Turns(r, p) = 0
         /\ Odd(r) # (p % 2 = 0) => Turns(r, p + 1) = Turns(r, p)
         /\ Odd(r) = (p % 2 = 0) => Turns(r, p) = p \div 2
<1>1. /\ p % 2 = 0 => (p + 1) \div 2 = p \div 2
      /\ p % 2 # 0 => (p + 1 + 1) \div 2 = (p + 1) \div 2
      /\ (6 + 1) \div 2 = 3 /\ 6 \div 2 = 3 /\ (0 + 1) \div 2 = 0 /\ 0 \div 2 = 0
  OBVIOUS
<1>2. Odd(r) \in BOOLEAN /\ (p % 2 = 0) \in BOOLEAN
  BY DEF Odd
<1>3. Turns(r, 6) = 3 /\ Turns(r, 0) = 0
  BY <1>1, <1>2 DEF Turns
<1>4. Odd(r) /\ p % 2 # 0 => Turns(r, p + 1) = Turns(r, p)
  BY <1>1 DEF Turns
<1>5. ~Odd(r) /\ p % 2 = 0 => Turns(r, p + 1) = Turns(r, p)
  BY <1>1 DEF Turns
<1>6. Odd(r) /\ p % 2 = 0 => Turns(r, p) = p \div 2
  BY <1>1 DEF Turns
<1>7. ~Odd(r) /\ p % 2 # 0 => Turns(r, p) = p \div 2
  BY <1>1 DEF Turns
<1>. QED
  BY <1>2, <1>3, <1>4, <1>5, <1>6, <1>7

\* What an attempt adds to the count.
LEMMA CostCounted ==
  ASSUME NEW r, NEW tries \in Seq(Try), NEW e
  PROVE  /\ Len(Append(tries, e)) = Len(tries) + 1
         /\ Cardinality(ShowingTries(r, tries)) \in Nat
         /\ Cardinality(ShowingTries(r, Append(tries, e))) \in Nat
         /\ Cardinality(ShowingTries(r, Append(tries, e))) <=
              Cardinality(ShowingTries(r, tries)) + (IF Shows(r, e) THEN 1 ELSE 0)
<1>. DEFINE n    == Len(tries)
            old  == ShowingTries(r, tries)
            longer == ShowingTries(r, Append(tries, e))
<1>1. n \in Nat /\ DOMAIN tries = 1 .. n /\ DOMAIN Append(tries, e) = 1 .. n + 1
      /\ Append(tries, e)[n + 1] = e /\ Len(Append(tries, e)) = n + 1
      /\ \A i \in 1 .. n : Append(tries, e)[i] = tries[i]
  OBVIOUS
<1>2. old \subseteq 1 .. n /\ n + 1 \notin old
  BY <1>1 DEF ShowingTries
<1>3. longer = IF Shows(r, e) THEN old \union {n + 1} ELSE old
  <2>1. \A i : i \in longer <=> i \in old \/ (i = n + 1 /\ Shows(r, e))
    BY <1>1 DEF ShowingTries
  <2>. HIDE DEF old, longer
  <2>. QED
    BY <2>1
<1>4. IsFiniteSet(old)
  <2>. HIDE DEF old, n
  <2>1. IsFiniteSet(1 .. n)
    BY <1>1, FS_Interval
  <2>. QED
    BY <1>2, <2>1, FS_Subset
<1>. HIDE DEF old, longer, n
<1>5. Cardinality(old) \in Nat
  BY <1>4, FS_CardinalityType
<1>6. Cardinality(old \union {n + 1}) = Cardinality(old) + 1
  BY <1>2, <1>4, FS_AddElement
<1>7. /\ Cardinality(longer) \in Nat
      /\ Cardinality(longer) <= Cardinality(old) + (IF Shows(r, e) THEN 1 ELSE 0)
  BY <1>3, <1>5, <1>6
<1>. QED
  BY <1>1, <1>5, <1>7 DEF old, longer, n

\* A register under way is tried; a write of another does not reach it.
LEMMA PayWrite ==
  ASSUME PairsAcrossPasses, SweepInv, PassInv, TurnsUsed, LossesPay, Write
  PROVE  LossesPay'
<1>. DEFINE w == queue[1].reg
            x == queue[1].value
<1>1. /\ 1 \in DOMAIN queue /\ w \in Reg /\ x \in Int
      /\ \/ dev' = Put(w, x) /\ losses' = losses
         \/ dev' = dev /\ losses' = losses + 1
      /\ UNCHANGED <<pc, toolVars, first>>
      /\ \A i \in DOMAIN queue : i # 1 => i - 1 \in DOMAIN queue' /\ queue'[i - 1] = queue[i]
  BY WriteTakes
<1>2. UNCHANGED <<pc, pending, written, state, attempts>>
  BY <1>1 DEF toolVars
<1>3. losses \in Nat /\ losses' \in Nat /\ losses <= losses' /\ dev \in [Reg -> Int]
  <2>1. losses \in Nat /\ dev \in [Reg -> Int]
    BY SweepConstants DEF SweepInv, SweepTypeOK
  <2>2. losses' = losses \/ losses' = losses + 1
    BY <1>1
  <2>. QED
    BY <2>1, <2>2
<1>4. \A r \in pending : Cost(r) \in Nat
  BY CostCounted DEF Cost, SweepInv, TurnsTaken, TurnsUsed
<1>5. ASSUME NEW r \in pending PROVE Cost(r) <= losses'
  BY <1>3, <1>4 DEF LossesPay
<1>6. ASSUME pc = "look", NEW r \in DOMAIN written
      PROVE  /\ r \in pending
             /\ Shows(r, Trying(r)) => Cost(r) + 1 <= losses' \/ ~Sent(r)' \/ dev'[r] # state[r]
  <2>1. /\ r \in pending /\ r \in Reg
        /\ Shows(r, Trying(r)) => Cost(r) + 1 <= losses \/ ~Sent(r) \/ dev[r] # state[r]
    BY <1>6 DEF LossesPay, SweepInv, SweepTypeOK, Held
  <2>2. w \in DOMAIN written /\ x = AsTag(w, written[w].value)
    BY <1>1, <1>6 DEF PassInv
  <2>3. Odd(w) = (passes % 2 = 0) /\ Odd(r) = (passes % 2 = 0)
    BY <1>6, <2>2 DEF SweepInv, Held
  <2>4. CASE dev' = dev /\ losses' = losses + 1
    BY <1>3, <1>4, <2>1, <2>4 DEF LossesPay
  <2>5. CASE dev' = Put(w, x) /\ losses' = losses
    <3>1. dev'[r] = IF r \in Moves(w) /\ ~Refuses(w, x) THEN Taken(w, x) ELSE dev[r]
      BY <1>1, <1>3, <2>1, <2>5, PutGives
    <3>2. CASE w = r
      <4>1. Shows(r, Trying(r)) => ~Refuses(r, x) /\ Taken(r, x) # state[r]
        BY <2>2, <3>2 DEF Shows, Trying
      <4>. QED
        BY <2>1, <3>1, <3>2, <4>1 DEF Moves
    <3>3. CASE w # r
      <4>1. r \notin Moves(w)
        BY <1>1, <2>3, <3>3 DEF Moves, PairsAcrossPasses
      <4>2. ~Sent(r) => ~Sent(r)'
        BY <1>1, <3>3 DEF Sent
      <4>. QED
        BY <2>1, <2>5, <3>1, <4>1, <4>2
    <3>. QED
      BY <3>2, <3>3
  <2>. QED
    BY <1>1, <2>4, <2>5
<1>. QED
  BY <1>2, <1>5, <1>6 DEF LossesPay, Cost, Trying

LEMMA NotBegunStep ==
  ASSUME NotBegun, [Next]_vars
  PROVE  NotBegun'
<1>1. CASE Open
  BY <1>1 DEF Open, Ends, toolVars, NotBegun
<1>2. CASE Write
  BY <1>2 DEF Write, toolVars, NotBegun
<1>3. CASE ReadBefore
  BY <1>3 DEF ReadBefore, Ends, NotBegun
<1>4. CASE BeginPass
  BY <1>4 DEF BeginPass, Ends, NotBegun
<1>5. CASE Look
  BY <1>5 DEF Look, NotBegun
<1>6. CASE Reread
  BY <1>6 DEF Reread, NotBegun
<1>7. CASE ReadAgain
  BY <1>7 DEF ReadAgain, NotBegun
<1>8. CASE Repair
  BY <1>8 DEF Repair, Ends, Rewrite, NotBegun
<1>9. CASE Interrupt
  BY <1>9 DEF Interrupt, Ends, NotBegun
<1>10. CASE UNCHANGED vars
  BY <1>10 DEF vars, toolVars, NotBegun
<1>. QED
  BY <1>1, <1>2, <1>3, <1>4, <1>5, <1>6, <1>7, <1>8, <1>9, <1>10 DEF Next, SweepStep

\* What a pass begins with: a register that can be tried, and has its turn, is.
LEMMA BeginsTried ==
  ASSUME SweepInv, PassInv, TurnsUsed, LossesPay, BeginPass
  PROVE  TurnsUsed' /\ LossesPay'
<1>1. UNCHANGED <<dev, state, pending, attempts, losses>> /\ pc = "pass"
  BY PassBegins DEF BeginPass
<1>2. losses \in Nat /\ passes \in 0 .. 6
  BY SweepConstants DEF SweepInv, SweepTypeOK
<1>3. CASE pc' = "done"
  <2>1. exit' = "crash"
    BY <1>3 DEF BeginPass, Ends
  <2>. QED
    BY <1>1, <1>3, <2>1 DEF TurnsUsed, LossesPay, Finished, Cost
<1>4. CASE pc' # "done"
  <2>1. /\ Group(pending) \subseteq DOMAIN state /\ written' = Probes(Group(pending))
        /\ \A r \in DOMAIN written' : \E i \in DOMAIN queue' : queue'[i].reg = r
        /\ \/ DOMAIN written' = {} /\ pc' = "pass" /\ passes' = passes + 1
           \/ DOMAIN written' # {} /\ pc' = "look" /\ passes' = passes
    BY <1>4, PassBegins
  <2>2. \A r \in DOMAIN written' : r \in pending
    BY <2>1 DEF Probes, Group
  <2>3. ASSUME NEW r \in pending, Offered(r), HasTurn(r) PROVE r \in DOMAIN written'
    <3>1. r \in Group(pending) /\ r \in DOMAIN state
      BY <2>1, <2>3 DEF Group, HasTurn
    <3>2. Candidates(r, state[r]) # <<>>
      BY <2>3, <3>1 DEF Offered, SweepInv, Held
    <3>. QED
      BY <2>1, <3>1, <3>2 DEF Probes
  <2>4. ASSUME NEW r \in pending, Offered(r)
        PROVE  /\ Len(attempts[r]) = Turns(r, passes')
               /\ pc' = "look" /\ HasTurn(r)' => r \in DOMAIN written'
    <3>1. Len(attempts[r]) = Turns(r, passes)
      BY <1>1, <2>4 DEF TurnsUsed
    <3>2. CASE DOMAIN written' = {} /\ pc' = "pass" /\ passes' = passes + 1
      <4>1. ~HasTurn(r)
        BY <2>3, <2>4, <3>2
      <4>2. Turns(r, passes + 1) = Turns(r, passes)
        BY <1>2, <4>1, TurnsCounted DEF HasTurn
      <4>. QED
        BY <3>1, <3>2, <4>2
    <3>3. CASE passes' = passes
      BY <2>3, <2>4, <3>1, <3>3 DEF HasTurn
    <3>. QED
      BY <2>1, <3>2, <3>3
  <2>5. \A r \in DOMAIN written' : ~Sent(r)'
    BY <2>1 DEF Sent
  <2>6. TurnsUsed'
    <3>1. pc' \in {"pass", "look"} /\ ~Finished'
      BY <2>1 DEF Finished
    <3>. QED
      BY <1>1, <2>4, <3>1 DEF TurnsUsed
  <2>7. LossesPay'
    BY <1>1, <2>2, <2>5 DEF LossesPay, Cost
  <2>. QED
    BY <2>6, <2>7
<1>. QED
  BY <1>3, <1>4

\* A turn that ends without an answer is an attempt more, and has cost a
\* datagram if it would have shown.
LEMMA LookPays ==
  ASSUME SweepInv, PassInv, TurnsUsed, LossesPay, Look
  PROVE  TurnsUsed' /\ LossesPay'
<1>. DEFINE Came(seen, q) == [value    |-> written[q].value,
                              size     |-> written[q].size,
                              held     |-> state[q],
                              reported |-> Reported(seen, q)]
<1>1. PICK seen \in Dumps :
        /\ Reads(seen)
        /\ attempts' = [r \in DOMAIN attempts |->
                          IF r \in DOMAIN written THEN Append(attempts[r], Came(seen, r))
                          ELSE attempts[r]]
        /\ pending' = {r \in pending : ~(r \in DOMAIN written /\ Reported(seen, r).answered)}
  BY DEF Look
<1>2. /\ pc = "look" /\ pc' = "reread"
      /\ UNCHANGED <<dev, before, state, passes, written, first>>
  BY DEF Look
<1>3. losses \in Nat /\ Lost(seen) \in Nat /\ (Lost(seen) = 0 => DOMAIN seen = Reg)
      /\ losses' = losses + Lost(seen) /\ queue = <<>>
  BY <1>1, DumpsTyped, SweepConstants DEF SweepInv, SweepTypeOK, Reads
<1>4. passes \in 0 .. 6 /\ passes + 1 \in 0 .. 6
  BY <1>2 DEF SweepInv, SweepTypeOK, Held
<1>5. \A r \in DOMAIN attempts : attempts[r] \in Seq(Try)
  BY DEF SweepInv, TurnsTaken
<1>6. ASSUME NEW r \in DOMAIN written
      PROVE  r \in pending /\ r \in Reg /\ state[r] \in Int /\ Candidates(r, state[r]) # <<>> /\ HasTurn(r)
  BY <1>2 DEF LossesPay, PassInv, SweepInv, SweepTypeOK, Held, HasTurn
<1>. DEFINE new(r) == Came(seen, r)
<1>7. \A r \in DOMAIN attempts :
        attempts'[r] = IF r \in DOMAIN written THEN Append(attempts[r], new(r)) ELSE attempts[r]
  BY <1>1
<1>8. \A r \in DOMAIN written :
        /\ new(r).reported = Reported(seen, r)
        /\ Shows(r, new(r)) = Shows(r, Trying(r))
  BY DEF Shows, Trying
<1>. HIDE DEF new
<1>9. ASSUME NEW r \in pending'
      PROVE  /\ Barren(r) => attempts'[r] = <<>>
             /\ Offered(r) => Len(attempts'[r]) = Turns(r, passes + 1)
  <2>1. r \in pending /\ r \in DOMAIN attempts
    BY <1>1, <1>9 DEF TurnsUsed
  <2>2. /\ Barren(r) => attempts[r] = <<>>
        /\ Offered(r) => Len(attempts[r]) = Turns(r, passes) /\ (HasTurn(r) => r \in DOMAIN written)
    BY <1>2, <2>1 DEF TurnsUsed
  <2>3. CASE r \in DOMAIN written
    <3>1. ~Barren(r)
      BY <1>6, <2>3 DEF Barren
    <3>2. Turns(r, passes + 1) = Turns(r, passes) + 1
      BY <1>4, <1>6, <2>3, TurnsBounded DEF HasTurn
    <3>3. Len(attempts'[r]) = Len(attempts[r]) + 1
      BY <1>5, <1>7, <2>1, <2>3, CostCounted
    <3>. QED
      BY <2>2, <3>1, <3>2, <3>3
  <2>4. CASE r \notin DOMAIN written
    <3>1. Offered(r) => Turns(r, passes + 1) = Turns(r, passes)
      BY <1>4, <2>2, <2>4, TurnsCounted DEF HasTurn
    <3>. QED
      BY <1>7, <2>1, <2>2, <2>4, <3>1
  <2>. QED
    BY <2>3, <2>4
<1>10. ASSUME NEW r \in DOMAIN attempts, r \notin pending' PROVE Answered(attempts'[r]) # {}
  <2>1. CASE r \in DOMAIN written
    <3>1. r \in pending /\ new(r).reported.answered
      BY <1>1, <1>6, <1>8, <1>10, <2>1
    <3>2. /\ Len(attempts[r]) + 1 \in DOMAIN Append(attempts[r], new(r))
          /\ Append(attempts[r], new(r))[Len(attempts[r]) + 1] = new(r)
      BY <1>5
    <3>. QED
      BY <1>7, <2>1, <3>1, <3>2 DEF Answered
  <2>2. CASE r \notin DOMAIN written
    BY <1>1, <1>7, <1>10, <2>2 DEF TurnsUsed
  <2>. QED
    BY <2>1, <2>2
<1>11. ASSUME NEW r \in pending' PROVE Cost(r)' <= losses'
  <2>1. r \in pending /\ r \in DOMAIN attempts /\ Cost(r) <= losses
    BY <1>1, <1>11 DEF TurnsUsed, LossesPay
  <2>2. Cost(r) \in Nat /\ Cost(r)' = Cardinality(ShowingTries(r, attempts'[r]))
    BY <1>5, <2>1, CostCounted DEF Cost
  <2>3. CASE r \in DOMAIN written
    <3>1. Cost(r)' <= Cost(r) + (IF Shows(r, Trying(r)) THEN 1 ELSE 0)
      BY <1>5, <1>7, <1>8, <2>1, <2>2, <2>3, CostCounted DEF Cost
    <3>2. Cost(r)' \in Nat
      BY <1>5, <1>7, <2>1, <2>2, <2>3, CostCounted
    <3>3. Shows(r, Trying(r)) => Cost(r) + 1 <= losses \/ dev[r] # state[r]
      BY <1>2, <1>3, <2>3 DEF LossesPay, Sent
    <3>4. dev[r] # state[r] => losses' >= losses + 1
      <4>1. ~Reported(seen, r).answered
        BY <1>1, <1>11, <2>3
      <4>2. r \notin DOMAIN seen \/ seen[r] = state[r]
        BY <4>1 DEF Reported, Answer
      <4>3. r \in DOMAIN seen => seen[r] = dev[r]
        BY <1>1, DumpsAreTrue
      <4>. QED
        BY <1>3, <1>6, <2>3, <4>2, <4>3
    <3>. QED
      BY <1>3, <2>1, <2>2, <3>1, <3>2, <3>3, <3>4
  <2>4. CASE r \notin DOMAIN written
    BY <1>3, <1>7, <2>1, <2>2, <2>4 DEF Cost
  <2>. QED
    BY <2>3, <2>4
<1>12. DOMAIN attempts' = DOMAIN attempts /\ pending' \subseteq pending
  BY <1>1
<1>13. TurnsUsed'
  <2>1. ~Finished'
    BY <1>2 DEF Finished
  <2>. QED
    BY <1>2, <1>9, <1>10, <1>12, <2>1 DEF TurnsUsed
<1>14. LossesPay'
  BY <1>2, <1>11 DEF LossesPay
<1>. QED
  BY <1>13, <1>14

LEMMA IgnoreStep ==
  ASSUME PairsAcrossPasses, SweepInv, PassInv, IgnoreInv, [Next]_vars
  PROVE  IgnoreInv'
<1>0. /\ losses \in Nat /\ NotBegun' /\ TurnsUsed /\ LossesPay /\ NotBegun
      /\ \A r \in pending : Cost(r) \in Nat
  <2>1. \A r \in pending : Cost(r) \in Nat
    BY CostCounted DEF Cost, SweepInv, TurnsTaken, TurnsUsed, IgnoreInv
  <2>. QED
    BY <2>1, NotBegunStep, SweepConstants DEF SweepInv, SweepTypeOK, IgnoreInv
<1>. SUFFICES TurnsUsed' /\ LossesPay'
  BY <1>0 DEF IgnoreInv
<1>1. ASSUME NEW seen \in Dumps, Reads(seen) PROVE losses' \in Nat /\ losses <= losses'
  <2>1. Lost(seen) \in Nat
    BY <1>1, DumpsTyped DEF SweepInv, SweepTypeOK
  <2>2. losses' = losses + Lost(seen)
    BY <1>1 DEF Reads
  <2>. QED
    BY <1>0, <2>1, <2>2
<1>2. ASSUME UNCHANGED <<attempts, pending>>, losses' \in Nat, losses <= losses', pc' # "look"
      PROVE  LossesPay'
  BY <1>0, <1>2 DEF LossesPay, Cost
<1>3. ASSUME UNCHANGED <<attempts, pending>>,
             pc' \in {"pass", "repair", "recheck", "done", "before"},
             \A r \in pending : Offered(r) =>
               /\ pc' = "pass" => Len(attempts[r]) = Turns(r, passes')
               /\ pc' \in {"repair", "recheck"} \/ Finished' => Len(attempts[r]) = 3
      PROVE  TurnsUsed'
  BY <1>0, <1>3 DEF TurnsUsed
<1>4. CASE Open
  <2>1. pending = {} /\ UNCHANGED <<attempts, pending, losses>> /\ pc' \in {"done", "before"}
    BY <1>0, <1>4 DEF Open, Ends, toolVars, NotBegun
  <2>. QED
    BY <1>0, <1>2, <1>3, <2>1
<1>5. CASE Write
  <2>1. LossesPay'
    BY <1>0, <1>5, PayWrite
  <2>2. UNCHANGED <<pc, attempts, pending, passes, written, exit>>
    BY <1>5 DEF Write, toolVars
  <2>. QED
    BY <1>0, <2>1, <2>2 DEF TurnsUsed, Finished, HasTurn
<1>6. CASE ReadBefore
  <2>1. pending = {} /\ DOMAIN attempts = {} /\ passes = 0
    BY <1>0, <1>6 DEF ReadBefore, NotBegun
  <2>2. PICK seen \in Dumps :
          /\ Reads(seen)
          /\ \/ Ends("1", {})
             \/ attempts' = [r \in pending' |-> <<>>] /\ pc' = "pass" /\ passes' = passes
    BY <1>6 DEF ReadBefore
  <2>3. losses' \in Nat /\ losses <= losses'
    BY <1>1, <2>2
  <2>4. CASE Ends("1", {})
    BY <1>2, <1>3, <2>1, <2>3, <2>4 DEF Ends
  <2>5. CASE attempts' = [r \in pending' |-> <<>>] /\ pc' = "pass" /\ passes' = passes
    <3>1. \A r \in pending' : attempts'[r] = <<>> /\ Cost(r)' = 0
      <4>1. \A r : ShowingTries(r, <<>>) = {}
        BY DEF ShowingTries
      <4>. QED
        BY <2>5, <4>1, FS_EmptySet DEF Cost
    <3>2. \A r : Turns(r, 0) = 0
      BY TurnsCounted
    <3>3. ~Finished' /\ Len(<<>>) = 0
      BY <2>5 DEF Finished
    <3>4. TurnsUsed'
      BY <2>1, <2>5, <3>1, <3>2, <3>3 DEF TurnsUsed
    <3>5. LossesPay'
      BY <2>3, <2>5, <3>1 DEF LossesPay
    <3>. QED
      BY <3>4, <3>5
  <2>. QED
    BY <2>2, <2>4, <2>5
<1>7. CASE BeginPass
  BY <1>0, <1>7, BeginsTried
<1>8. CASE Look
  BY <1>0, <1>8, LookPays
<1>9. CASE Reread
  <2>1. /\ pc = "reread" /\ pc' = "pass" /\ passes' = passes + 1
        /\ UNCHANGED <<attempts, pending>>
        /\ \E seen \in Dumps : Reads(seen)
    BY <1>9 DEF Reread
  <2>2. ~Finished'
    BY <2>1 DEF Finished
  <2>3. \A r \in pending : Offered(r) => Len(attempts[r]) = Turns(r, passes')
    BY <1>0, <2>1 DEF TurnsUsed
  <2>4. losses' \in Nat /\ losses <= losses'
    BY <1>1, <2>1
  <2>. QED
    BY <1>2, <1>3, <2>1, <2>2, <2>3, <2>4
<1>10. CASE ReadAgain
  <2>1. /\ pc' = "repair" /\ UNCHANGED <<attempts, pending>>
        /\ (pc = "pass" /\ passes = 6) \/ pc = "recheck"
        /\ \E seen \in Dumps : Reads(seen)
    BY <1>10 DEF ReadAgain
  <2>2. \A r : Turns(r, 6) = 3
    BY TurnsCounted
  <2>3. \A r \in pending : Offered(r) => Len(attempts[r]) = 3
    BY <1>0, <2>1, <2>2 DEF TurnsUsed
  <2>4. losses' \in Nat /\ losses <= losses'
    BY <1>1, <2>1
  <2>. QED
    BY <1>2, <1>3, <2>1, <2>3, <2>4
<1>11. CASE Repair
  <2>1. /\ pc = "repair" /\ pc' \in {"recheck", "done"} /\ UNCHANGED <<attempts, pending, losses>>
    BY <1>11 DEF Repair, Ends, Rewrite
  <2>2. \A r \in pending : Offered(r) => Len(attempts[r]) = 3
    BY <1>0, <2>1 DEF TurnsUsed
  <2>. QED
    BY <1>0, <1>2, <1>3, <2>1, <2>2
<1>12. CASE Interrupt
  <2>1. /\ pc' = "done" /\ exit' = "interrupted" /\ UNCHANGED <<attempts, pending, losses>>
    BY <1>12 DEF Interrupt, Ends
  <2>2. ~Finished'
    BY <2>1 DEF Finished
  <2>. QED
    BY <1>0, <1>2, <1>3, <2>1, <2>2
<1>13. CASE UNCHANGED vars
  BY <1>0, <1>13 DEF vars, toolVars, TurnsUsed, LossesPay, Cost, Trying, Sent, HasTurn, Finished
<1>. QED
  BY <1>4, <1>5, <1>6, <1>7, <1>8, <1>9, <1>10, <1>11, <1>12, <1>13 DEF Next, SweepStep

\* What is called ignored has been tried, three times, and has not answered.
LEMMA IgnoredIsSpoilt ==
  ASSUME SweepInv, IgnoreInv
  PROVE  IgnoredMeansSpoilt
<1>. SUFFICES ASSUME Finished, NEW r \in DOMAIN attempts, Judged(r) = "ignored"
              PROVE  /\ Len(attempts[r]) = 3
                     /\ Cardinality(ShowingTries(r, attempts[r])) <= losses
  BY DEF IgnoredMeansSpoilt
<1>1. r \in Reg
  BY DEF SweepInv, TurnsTaken
<1>2. attempts[r] # <<>> /\ Answered(attempts[r]) = {}
  BY DEF Judged, Verdict
<1>3. r \in pending
  BY <1>2 DEF IgnoreInv, TurnsUsed
<1>4. Offered(r)
  BY <1>1, <1>2, <1>3, OfferedOrBarren DEF IgnoreInv, TurnsUsed
<1>. QED
  BY <1>3, <1>4 DEF IgnoreInv, TurnsUsed, LossesPay, Cost

\* A register is called ignored only after all three attempts, of which as many
\* would have shown as datagrams were lost, and no more: with nothing lost, not
\* one (main, _pass, as_tag, verdict).
THEOREM IgnoredWasSpoilt ==
  ASSUME PairsAcrossPasses
  PROVE  Spec => []IgnoredMeansSpoilt
<1>1. Init => SweepInv /\ IInv /\ PassInv /\ IgnoreInv
  <2>1. Init => IInv
    BY DEF Init, IInv, EveryDriftIsNamed, Finished, Quiet
  <2>2. Init => IgnoreInv
    BY DEF Init, IgnoreInv, NotBegun, TurnsUsed, LossesPay
  <2>. QED
    BY <2>1, <2>2, SweepInitTyped, PassInit
<1>2. SweepInv /\ IInv /\ PassInv /\ IgnoreInv /\ [Next]_vars
        => (SweepInv /\ IInv /\ PassInv /\ IgnoreInv)'
  BY SweepStepTyped, Inductive, PassStep, IgnoreStep
<1>3. SweepInv /\ IgnoreInv => IgnoredMeansSpoilt
  BY IgnoredIsSpoilt
<1>. QED
  BY <1>1, <1>2, <1>3, PTL DEF Spec

=============================================================================
