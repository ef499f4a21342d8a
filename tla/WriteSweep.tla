------------------------------ MODULE WriteSweep ------------------------------
(***************************************************************************)
(* scripts/sweep-writes.py: write every settable register a different      *)
(* value, read back whether the device took it, put the old value back,    *)
(* and repair at the end what the restoring missed.  Nobody else touches   *)
(* the device: the sweep holds the receive port.  Writes, reports and the  *)
(* request for a dump may be lost, and the tool may be interrupted.        *)
(*                                                                         *)
(* Values are whole numbers on a scale: Unit of them make one of the       *)
(* register's own, so that a candidate of 1.5 is 3 * Unit \div 2, and      *)
(* rounding it for an integer register is a step of the model.             *)
(***************************************************************************)
EXTENDS Integers, Sequences, SequencesExt, FiniteSets

CONSTANTS
  Reg,       \* the registers a dump reports
  Unit,      \* how many of the model's numbers make one
  Kind,      \* what each is: its Register, by the fields below
  Device,    \* how the device takes a write: takes, grain, top, and the partner
  Targets,   \* settable(): the registers to probe, in order
  Sorted,    \* all registers, in the order of their paths
  Initial,   \* the states the device may be in
  MaxLosses  \* how many datagrams may be lost

Domains == {"bool", "enum", "number"}
Tags    == {"i", "f"}  \* the first letter of the register's tags
Takes   == {"all", "none", "up to top", "below top only"}

ASSUME SweepConstants ==
  /\ Unit \in Nat \ {0}
  /\ Kind \in [Reg -> [domain : Domains, tag : Tags, bounded : BOOLEAN, lo : Int, hi : Int,
                       wire : Seq(Int), channel : Nat, dangerous : BOOLEAN]]
  /\ \A r \in Reg : Kind[r].bounded => (Kind[r].hi - Kind[r].lo) % 100 = 0
  /\ \A r \in Reg : Kind[r].domain = "enum" =>
       \E i, j \in DOMAIN Kind[r].wire : Kind[r].wire[i] # Kind[r].wire[j]
  /\ Device \in [Reg -> [takes : Takes, grain : Nat \ {0}, top : Int, partner : Reg]]
  /\ Targets \in Seq(Reg) /\ Sorted \in Seq(Reg)
  /\ Initial \subseteq [Reg -> Int]
  /\ MaxLosses \in Nat
  /\ IsFiniteSet(Reg) /\ Reg # {}

\* The registers of a set, in the order of one of the two lists.
InOrder(list, regs) ==
  FlattenSeq([i \in DOMAIN list |-> IF list[i] \in regs THEN << list[i] >> ELSE <<>>])

VARIABLES
  dev,       \* the device
  pc,        \* where the sweep is
  queue,     \* the writes still to be sent, paced
  before,    \* the first dump, the reference of the repair
  state,     \* the latest dump
  pending,   \* the registers without an answer yet
  passes,    \* passes begun: three steps, odd channels and even ones
  written,   \* the writes of this pass: register -> candidate
  attempts,  \* per probed register: what was written, how far, what came back
  rounds,    \* rounds of the repair
  unrestored, exit,
  losses, first \* datagrams lost, and the device before the sweep

toolVars == <<before, state, pending, passes, written, attempts, rounds, unrestored, exit>>
vars == <<dev, pc, queue, toolVars, losses, first>>

Steps     == <<1, 10, 50>>  \* percent of the range, or units where there is none
MaxRounds == 3
Silence   == [answered |-> FALSE, value |-> 0]
Answer(v) == [answered |-> TRUE, value |-> v]

Smaller(a, b)   == IF a < b THEN a ELSE b
Larger(a, b)    == IF a > b THEN a ELSE b
Distance(a, b)  == IF a < b THEN b - a ELSE a - b

-----------------------------------------------------------------------------
(* What to write.                                                          *)

Candidate(v, size) == [value |-> v, size |-> size]

Bounded(r) == Kind[r].domain # "number" \/ Kind[r].bounded

\* Away from the nearer bound, so that only the far one can clip.
NumberCandidates(r, current) ==
  LET lo == Kind[r].lo  hi == Kind[r].hi
      up == current - lo <= hi - current
      Step(i) == IF Bounded(r) THEN ((hi - lo) \div 100) * Steps[i] ELSE Unit * Steps[i]
      Clipped(v) == Smaller(hi, Larger(lo, v))
  IN  IF ~Bounded(r) THEN [i \in 1..3 |-> Candidate(current + Step(i), Step(i))]
      ELSE IF hi <= lo THEN <<>>
      ELSE [i \in 1..3 |->
              Candidate(Clipped(IF up THEN current + Step(i) ELSE current - Step(i)), Step(i))]

\* The first other value, then the last.
EnumCandidates(r, current) ==
  LET wire   == Kind[r].wire
      others == {i \in DOMAIN wire : wire[i] # current}
      lowest  == CHOOSE i \in others : \A j \in others : i <= j
      highest == CHOOSE i \in others : \A j \in others : j <= i
  IN  IF others = {} THEN <<>>
      ELSE IF lowest = highest THEN <<Candidate(wire[lowest], Unit)>>
      ELSE <<Candidate(wire[lowest], Unit), Candidate(wire[highest], Unit)>>

Candidates(r, current) ==
  IF Kind[r].domain = "bool" THEN <<Candidate(IF current # 0 THEN 0 ELSE Unit, Unit)>>
  ELSE IF Kind[r].domain = "enum" THEN EnumCandidates(r, current)
  ELSE NumberCandidates(r, current)

Odd(r) == (IF Kind[r].channel = 0 THEN 1 ELSE Kind[r].channel) % 2 = 1

\* bug: odd and even channels in one pass.
EveryChannel(regs) == regs

\* The registers of a pass: the odd channels first, then the even ones.
Group(regs) == {r \in regs : Odd(r) = (passes % 2 = 0)}

\* The last candidate is repeated: every register gets three tries.
Chosen(options, step) == options[Smaller(step, Len(options))]

Step == passes \div 2 + 1

\* bug: a register that has run out of candidates is not tried again.
ProbesOnce(group) ==
  [r \in {r \in group : Step <= Len(Candidates(r, state[r]))} |->
     Chosen(Candidates(r, state[r]), Step)]

\* The writes of a pass; a register with no legal alternative is left alone.
Probes(group) ==
  [r \in {r \in group : Candidates(r, state[r]) # <<>>} |->
     Chosen(Candidates(r, state[r]), Step)]

\* as_tag: an integer register is sent a whole number, and of two equally near
\* the even one.
AsTag(r, v) ==
  LET whole == v \div Unit
      twice == 2 * (v % Unit)
      up    == twice > Unit \/ (twice = Unit /\ whole % 2 = 1)
  IN  IF Kind[r].tag = "i" THEN Unit * (IF up THEN whole + 1 ELSE whole) ELSE v

-----------------------------------------------------------------------------
(* What came back.                                                         *)

LostSets == [n \in 0..MaxLosses |-> {l \in SUBSET Reg : Cardinality(l) <= n}]

\* read_all: a path that was lost is not in the map.
Dumps ==
  {[r \in Reg \ l |-> dev[r]] : l \in LostSets[MaxLosses - losses]}
    \union (IF losses < MaxLosses THEN {<<>>} ELSE {})

\* A lost request costs one datagram, a lost report one each.
Lost(seen) == IF seen = <<>> THEN 1 ELSE Cardinality(Reg \ DOMAIN seen)

\* bug: a change of a single position is taken for none.
ReportedFarOff(seen, r) ==
  IF r \in DOMAIN seen /\ Distance(seen[r], state[r]) > Unit THEN Answer(seen[r]) ELSE Silence

\* What a register reads back as, if that is something new.
Reported(seen, r) ==
  IF r \in DOMAIN seen /\ seen[r] # state[r] THEN Answer(seen[r]) ELSE Silence

\* Nearer to what was asked for, before as_tag, than half the way.
Followed(try) == 2 * Distance(try.reported.value, try.value) < Larger(try.size, Unit)

Answered(tries) == {i \in DOMAIN tries : tries[i].reported.answered}
Earliest(tries) == tries[CHOOSE i \in Answered(tries) : \A j \in Answered(tries) : i <= j]

Verdict(tries, bounded) ==
  IF tries = <<>> THEN "undetermined"
  ELSE IF Answered(tries) # {}
       THEN IF Followed(Earliest(tries)) THEN "confirmed" ELSE "clamped"
  ELSE IF ~bounded THEN "undetermined" ELSE "ignored"

\* bug: a register that was not reported counts as restored.
DriftedAmongReported(a, b) == {r \in DOMAIN a \intersect DOMAIN b : a[r] # b[r]}

\* Over everything reported, not only what was touched.
Drifted(a, b) ==
  {r \in DOMAIN a \union DOMAIN b :
     IF r \in DOMAIN a \intersect DOMAIN b THEN a[r] # b[r] ELSE TRUE}

-----------------------------------------------------------------------------
(* The device (external).                                                  *)

Rounded(r, v) == LET g == Device[r].grain IN ((2 * v + g) \div (2 * g)) * g

Refuses(r, v) ==
  \/ Device[r].takes = "none"
  \/ Device[r].takes = "below top only" /\ v > Device[r].top

\* Of itself the device stops at its own bound.
Taken(r, v) ==
  IF Device[r].takes = "up to top" THEN Smaller(Rounded(r, v), Device[r].top) ELSE Rounded(r, v)

\* A linked pair moves together.
Put(r, v) ==
  IF Refuses(r, v) THEN dev
  ELSE [dev EXCEPT ![r] = Taken(r, v), ![Device[r].partner] = Taken(r, v)]

-----------------------------------------------------------------------------

Init ==
  /\ dev \in Initial /\ first = dev
  /\ pc = "open" /\ queue = <<>>
  /\ before = <<>> /\ state = <<>> /\ pending = {} /\ passes = 0 /\ written = <<>>
  /\ attempts = <<>> /\ rounds = 0 /\ unrestored = {} /\ exit = "none"
  /\ losses = 0

Ends(code, drift) ==
  /\ pc' = "done" /\ exit' = code /\ unrestored' = drift /\ queue' = <<>>
  /\ UNCHANGED <<dev, before, state, pending, passes, written, attempts, rounds>>

\* The mixer GUI holds the receive port, or not.
Open ==
  /\ pc = "open"
  /\ \/ Ends("1", {})
     \/ pc' = "before" /\ UNCHANGED <<dev, queue, toolVars>>
  /\ UNCHANGED <<losses, first>>

\* write_batch, one datagram: to the device, or lost.
Write ==
  /\ queue # <<>>
  /\ queue' = Tail(queue)
  /\ \/ dev' = Put(Head(queue).reg, Head(queue).value) /\ UNCHANGED losses
     \/ losses < MaxLosses /\ losses' = losses + 1 /\ UNCHANGED dev
  /\ UNCHANGED <<pc, toolVars, first>>

Reads(seen) ==
  /\ queue = <<>>
  /\ losses' = losses + Lost(seen)

\* The first dump.  What it misses, and what is dangerous, is skipped.
ReadBefore ==
  /\ pc = "before"
  /\ \E seen \in Dumps :
       /\ Reads(seen)
       /\ IF seen = <<>> THEN Ends("1", {})
          ELSE /\ before' = seen /\ state' = seen
               /\ pending' = {r \in ToSet(Targets) \intersect DOMAIN seen : ~Kind[r].dangerous}
               /\ attempts' = [r \in pending' |-> <<>>]
               /\ pc' = "pass"
               /\ UNCHANGED <<dev, queue, passes, written, rounds, unrestored, exit>>
  /\ UNCHANGED first

\* write_batch: a value for each of some registers, as its tag has it.
Writes(order, values) ==
  [i \in DOMAIN order |-> [reg |-> order[i], value |-> AsTag(order[i], values[order[i]])]]

\* The head of _pass: state[path] is a KeyError for what the last dump missed.
BeginPass ==
  /\ pc = "pass" /\ passes < 6
  /\ LET group == Group(pending) IN
     IF ~(group \subseteq DOMAIN state) THEN Ends("crash", {})
     ELSE /\ written' = Probes(group)
          /\ queue' = Writes(InOrder(Targets, DOMAIN written'),
                             [r \in DOMAIN written' |-> written'[r].value])
          /\ IF DOMAIN written' = {} THEN pc' = "pass" /\ passes' = passes + 1
             ELSE pc' = "look" /\ UNCHANGED passes
          /\ UNCHANGED <<dev, before, state, pending, attempts, rounds, unrestored, exit>>
  /\ UNCHANGED <<losses, first>>

\* bug: off by one.
RestoreAllButOne == Tail(Writes(InOrder(Targets, DOMAIN written), state))

RestoreWrites == Writes(InOrder(Targets, DOMAIN written), state)

\* Its middle: what came back of the writes, which are then put back.  (What
\* the register was thought to hold is history: no verdict reads it.)
Look ==
  /\ pc = "look"
  /\ \E seen \in Dumps :
       LET Try(r) == [value    |-> written[r].value,
                      size     |-> written[r].size,
                      held     |-> state[r],
                      reported |-> Reported(seen, r)]
       IN  /\ Reads(seen)
           /\ attempts' = [r \in DOMAIN attempts |->
                             IF r \in DOMAIN written THEN Append(attempts[r], Try(r))
                             ELSE attempts[r]]
           /\ pending' = {r \in pending :
                            ~(r \in DOMAIN written /\ Reported(seen, r).answered)}
  /\ queue' = RestoreWrites
  /\ pc' = "reread"
  /\ UNCHANGED <<dev, before, state, passes, written, rounds, unrestored, exit, first>>

\* Its end: the dump the next pass goes by.
Reread ==
  /\ pc = "reread"
  /\ \E seen \in Dumps : Reads(seen) /\ state' = seen
  /\ passes' = passes + 1 /\ pc' = "pass"
  /\ UNCHANGED <<dev, queue, before, pending, written, attempts, rounds, unrestored, exit, first>>

\* The sweep is over, or a round of the repair: read once more.
ReadAgain ==
  /\ \/ pc = "pass" /\ passes = 6 /\ UNCHANGED rounds
     \/ pc = "recheck" /\ rounds' = rounds + 1
  /\ \E seen \in Dumps : Reads(seen) /\ state' = seen
  /\ pc' = "repair"
  /\ UNCHANGED <<dev, queue, before, pending, passes, written, attempts, unrestored, exit, first>>

Wrong == Drifted(before, state)

\* What the first dump did not report cannot be written back.
Rewrite ==
  /\ queue' = Writes(InOrder(Sorted, Wrong \intersect DOMAIN before), before)
  /\ pc' = "recheck"
  /\ UNCHANGED <<dev, before, state, pending, passes, written, attempts, unrestored, exit>>

\* bug: a round too many.
RepairFourTimes ==
  /\ pc = "repair"
  /\ IF Wrong = {} THEN Ends("0", {})
     ELSE IF rounds > MaxRounds THEN Ends("1", Wrong) ELSE Rewrite /\ UNCHANGED rounds
  /\ UNCHANGED <<losses, first>>

\* bug: as long as anything differs.
RepairForever ==
  /\ pc = "repair"
  /\ IF Wrong = {} THEN Ends("0", {}) ELSE Rewrite /\ rounds' = 0
  /\ UNCHANGED <<losses, first>>

\* repair: what still differs is written again, three rounds long.
Repair ==
  /\ pc = "repair"
  /\ IF Wrong = {} THEN Ends("0", {})
     ELSE IF rounds = MaxRounds THEN Ends("1", Wrong) ELSE Rewrite /\ UNCHANGED rounds
  /\ UNCHANGED <<losses, first>>

\* Ctrl-C: only the listener is closed.
Interrupt ==
  /\ pc \notin {"open", "done"}
  /\ Ends("interrupted", {})
  /\ UNCHANGED <<losses, first>>

SweepStep == Open \/ Write \/ ReadBefore \/ BeginPass \/ Look \/ Reread \/ ReadAgain \/ Repair

Next == SweepStep \/ Interrupt

Spec == Init /\ [][Next]_vars /\ WF_vars(SweepStep)

-----------------------------------------------------------------------------

(* What the sweep keeps stays within what its devices and dumps can hold.  *)
SweepTypeOK ==
  /\ dev \in [Reg -> Int]
  /\ pc \in {"open", "before", "pass", "look", "reread", "repair", "recheck", "done"}
  /\ DOMAIN before \subseteq Reg /\ DOMAIN state \subseteq Reg
  /\ passes \in 0..6 /\ rounds \in 0..MaxRounds /\ losses \in 0..MaxLosses
  /\ \A r \in DOMAIN attempts : Len(attempts[r]) <= 3

Judged(r) == Verdict(attempts[r], Bounded(r))
Finished  == pc = "done" /\ exit \in {"0", "1"}

(* The artifact is honest about the device it leaves behind: whatever is   *)
(* not as the sweep found it is in not_restored, which is empty for exit   *)
(* code 0, unless neither the first dump nor the last one reported it      *)
(* (repair, drifted).                                                      *)
EveryDriftIsNamed ==
  Finished => \A r \in DOMAIN before \union DOMAIN state : dev[r] # first[r] => r \in unrestored

\* The device would have shown this write as a change.
Shows(r, try) ==
  LET sent == AsTag(r, try.value)
  IN  ~Refuses(r, sent) /\ Taken(r, sent) # try.held

ShowingTries(r, tries) == {i \in DOMAIN tries : Shows(r, tries[i])}

(* "Ignored" is not said lightly: all three attempts of METHOD were made,  *)
(* and each of them that would have shown was spoilt by a datagram of its  *)
(* own.  On a wire that loses nothing, no write of the three would show;   *)
(* of one with a single loss, at most one (_pass, verdict).                *)
IgnoredMeansSpoilt ==
  Finished =>
    \A r \in DOMAIN attempts : Judged(r) = "ignored" =>
      /\ Len(attempts[r]) = 3
      /\ Cardinality(ShowingTries(r, attempts[r])) <= losses

\* What the tool's own rounding made of the candidate is not the candidate.
Blurred(r, try) == ~Followed([try EXCEPT !.reported = Answer(AsTag(r, try.value))])

(* "Clamped", the accusation of the model's bounds, is said only of a      *)
(* register that stops short, or of one that was sent something else than  *)
(* was asked of it: never of one that a linked partner moved (the passes   *)
(* by parity, as_tag, _followed).                                          *)
ClampedMeansClamped ==
  Finished => \A r \in DOMAIN attempts :
                Judged(r) = "clamped" =>
                  Device[r].takes = "up to top" \/ Blurred(r, Earliest(attempts[r]))

\* Neither is true without its exception: a register 0..5 at 1 is asked for
\* 1.5, sent 2 and called clamped; a register 0..3 shows only the last of its
\* three attempts, and one loss has it called ignored.
ClampedOnlyIfClamped ==
  Finished => \A r \in DOMAIN attempts :
                Judged(r) = "clamped" => Device[r].takes = "up to top"
IgnoredOnlyIfDeaf ==
  Finished /\ losses <= 1 =>
    \A r \in DOMAIN attempts : Judged(r) = "ignored" => Device[r].takes = "none"

(* Between two passes the device is as it was unless a datagram was lost   *)
(* or a linked pair was not level to begin with: each pass restores what   *)
(* it wrote.                                                               *)
Level == \A r \in Reg : first[r] = first[Device[r].partner]
DriftNeedsALoss == pc = "pass" /\ losses = 0 /\ Level => dev = first

\* What that supposes of the device: it takes back what it has reported.
TakesItBack ==
  \A d \in Initial, r \in Reg :
    Device[r].takes # "none" =>
      /\ AsTag(r, d[r]) = d[r] /\ Rounded(r, d[r]) = d[r]
      /\ Device[r].takes \in {"up to top", "below top only"} => d[r] <= Device[r].top

(* What the verdicts suppose: of the table, that a pair is one odd and one *)
(* even channel, and of the device, how far off a write may come out.      *)

\* Linked registers never share a pass.
PairsAcrossPasses ==
  \A r \in Reg : Device[r].partner # r => Odd(Device[r].partner) # Odd(r)

\* What may be sent to a register that reads v, probing it or putting it back.
Sendable(r, v) == {AsTag(r, v)} \union {AsTag(r, c.value) : c \in ToSet(Candidates(r, v))}

\* A register holds one of these values, whatever of it and its partner is
\* written, put back, or neither.
HoldsOnly(values) ==
  /\ \A d \in Initial, r \in Reg : d[r] \in values[r]
  /\ \A r \in Reg : \A v \in values[r] : \A w \in Sendable(r, v) :
       ~Refuses(r, w) => Taken(r, w) \in values[r] \intersect values[Device[r].partner]

\* What a register that can take its range makes of a candidate: nothing, no
\* change, a value within half the step, or as much as was sent of it.
RoundsCleanly(values) ==
  \A r \in Reg : Device[r].takes # "up to top" =>
    \A v \in values[r] : \A c \in ToSet(Candidates(r, v)) :
      LET sent == AsTag(r, c.value)
          try(x) == [value |-> c.value, size |-> c.size, held |-> v, reported |-> Answer(x)]
      IN  \/ Refuses(r, sent)
          \/ Taken(r, sent) = v
          \/ Followed(try(Taken(r, sent)))
          \/ Blurred(r, try(Taken(r, sent)))

(* The sweep comes to an end, on a device that never gives back either.    *)
SweepEnds == <>(pc = "done")
=============================================================================
