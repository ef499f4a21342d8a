-------------------------- MODULE DeviceReadsProofs --------------------------
(* What --diff and --dump-config may be believed for, on every device and   *)
(* for every config, although the reads are lossy, cut off and never        *)
(* consistent: the exit code of --diff speaks of the device, and a dump of  *)
(* a desk that routes have made is the config of that desk.                 *)
EXTENDS DeviceReads, PlanProofs

----------------------------------------------------------------------------
(* The exit code of --diff.                                                *)

\* What has been heard is what the device holds, but for a hand.
HeardIsHeld ==
  phase = "reading" =>
    \A r \in DOMAIN seen \intersect Reported : seen[r] = dev[r] \/ r \in moved

\* Of a dump of which nothing is lost, what was not heard is still to come.
RestIsComing ==
  phase = "reading" /\ whole =>
    \A r \in Reported : r \in DOMAIN seen \/ \E i \in DOMAIN coming : r \in coming[i]

IInv ==
  /\ coming \in Seq(SUBSET Reported)
  /\ whole \in BOOLEAN
  /\ HeardIsHeld
  /\ RestIsComing
  /\ DiffTellsDrift

----------------------------------------------------------------------------

LEMMA InitHolds == Init => IInv
<1> SUFFICES ASSUME Init PROVE IInv
  OBVIOUS
<1>1. coming \in Seq(SUBSET Reported)
  BY DEF Init
<1>3. whole \in BOOLEAN
  BY Zenon DEF Init
<1>2. HeardIsHeld /\ RestIsComing /\ DiffTellsDrift
  BY DEF Init, HeardIsHeld, RestIsComing, DiffTellsDrift
<1> QED
  BY <1>1, <1>2, <1>3 DEF IInv

\* A command that starts has heard nothing, and asked for everything.
LEMMA InvokeHolds ==
  ASSUME IInv, NEW what, Invoke(what)
  PROVE  IInv'
<1> USE DEF IInv, Invoke, Exits, OK, FAILURE, CONFIG, DIFFERS
<1>6. coming' = coming \/ coming' = Bursts \/ coming' = <<>>
  BY Zenon
<1>7. Bursts \in Seq(SUBSET Reported)
  BY ReadsConstants, Zenon
<1>8. <<>> \in Seq(SUBSET Reported)
  OBVIOUS
<1>1. coming' \in Seq(SUBSET Reported)
  BY <1>6, <1>7, <1>8, Zenon
<1>5. whole' \in BOOLEAN
  BY Zenon
<1>2. HeardIsHeld'
  BY DEF HeardIsHeld, NothingHeard
<1>3. RestIsComing'
  <2> SUFFICES ASSUME phase' = "reading", whole', NEW r \in Reported
               PROVE  \E i \in DOMAIN coming' : r \in coming'[i]
    BY DEF RestIsComing
  <2>1. coming' = Bursts
    OBVIOUS
  <2>2. r \in UNION {Bursts[i] : i \in DOMAIN Bursts}
    BY ReadsConstants
  <2> QED
    BY <2>1, <2>2
<1>4. DiffTellsDrift'
  BY DEF DiffTellsDrift
<1> QED
  BY <1>1, <1>2, <1>3, <1>4, <1>5

\* A burst arrives: what is not lost of it is what the device holds.
LEMMA HearHolds == IInv /\ Hear => IInv'
<1> SUFFICES ASSUME IInv, Hear PROVE IInv'
  OBVIOUS
<1> USE DEF IInv
<1>1. PICK gone : /\ seen' = AlsoHeard(Head(coming) \ gone, dev)
                  /\ whole' = (whole /\ gone = {})
  BY DEF Hear
<1>2. phase = "reading" /\ coming # <<>> /\ coming' = Tail(coming)
      /\ phase' = phase /\ dev' = dev /\ moved' = moved
  BY DEF Hear
<1>3. /\ DOMAIN seen' = DOMAIN seen \union (Head(coming) \ gone)
      /\ \A r \in DOMAIN seen : seen'[r] = seen[r]
      /\ \A r \in DOMAIN seen' \ DOMAIN seen : seen'[r] = dev[r]
  BY <1>1 DEF AlsoHeard
<1>4. coming' \in Seq(SUBSET Reported) /\ whole' \in BOOLEAN
  BY <1>1, <1>2
<1>5. HeardIsHeld'
  BY <1>2, <1>3 DEF HeardIsHeld
<1>6. RestIsComing'
  <2> SUFFICES ASSUME whole', NEW r \in Reported, r \notin DOMAIN seen'
               PROVE  \E i \in DOMAIN coming' : r \in coming'[i]
    BY DEF RestIsComing
  <2>1. whole /\ gone = {}
    BY <1>1
  <2>2. PICK i \in DOMAIN coming : r \in coming[i]
    BY <1>2, <1>3, <2>1 DEF RestIsComing
  <2>3. i # 1
    BY <1>2, <1>3, <2>1, <2>2
  <2>4. i - 1 \in DOMAIN coming' /\ coming'[i - 1] = coming[i]
    BY <1>2, <2>3
  <2> QED
    BY <2>2, <2>4
<1>7. DiffTellsDrift'
  BY <1>2 DEF DiffTellsDrift
<1> QED
  BY <1>4, <1>5, <1>6, <1>7

\* The answer is given: it is about what was heard.
LEMMA QuietHolds == IInv /\ Quiet => IInv'
<1> SUFFICES ASSUME IInv, Quiet PROVE IInv'
  OBVIOUS
<1> USE DEF IInv
<1>1. /\ phase = "reading" /\ phase' = "ready" /\ coming' = <<>>
      /\ whole' = (whole /\ coming = <<>>)
      /\ dev' = dev /\ config' = config /\ command' = command /\ moved' = moved
  BY DEF Quiet, Exits
<1>2. HeardIsHeld' /\ RestIsComing' /\ coming' \in Seq(SUBSET Reported) /\ whole' \in BOOLEAN
  BY <1>1 DEF HeardIsHeld, RestIsComing
<1>3. ASSUME command = "diff", code' \in {OK, DIFFERS}
      PROVE  /\ listed' = Differing(config, seen)
             /\ code' = OK <=> listed' = {}
  BY <1>1, <1>3 DEF Quiet, Exits, OK, DIFFERS, FAILURE
<1>4. ASSUME command = "diff", code' = OK,
             NEW m \in ToSet(Desired(config)), Drifted(m)
      PROVE  m.reg \in moved
  <2>1. ~Differs(m, seen)
    BY <1>3, <1>4 DEF Differing
  <2>2. m.reg \in DOMAIN seen /\ Matches(m.args, seen[m.reg])
    BY <2>1, <1>4 DEF Differs, Drifted, Reported
  <2> QED
    BY <2>2, <1>1, <1>4 DEF Drifted, HeardIsHeld
<1>5. ASSUME command = "diff", code' = DIFFERS, whole'
      PROVE  \E m \in listed' : Drifted(m) \/ m.reg \in moved \/ m.reg \notin Reg
  <2>1. PICK m \in listed' : Differs(m, seen)
    BY <1>3, <1>5 DEF Differing, OK, DIFFERS
  <2>2. CASE m.reg \notin Reg
    BY <2>2
  <2>3. CASE m.reg \in Reg
    <3>1. m.reg \in Reported
      BY <2>1, <2>3 DEF Differs, Reported
    <3>4. whole /\ coming = <<>>
      BY <1>1, <1>5, Zenon
    <3>2. m.reg \in DOMAIN seen
      BY <3>1, <3>4, <1>1 DEF RestIsComing
    <3>3. ~Matches(m.args, seen[m.reg])
      BY <2>1, <3>2 DEF Differs
    <3> QED
      BY <3>1, <3>2, <3>3, <1>1 DEF Drifted, HeardIsHeld
  <2> QED
    BY <2>2, <2>3
<1>6. DiffTellsDrift'
  BY <1>1, <1>4, <1>5, <1>3 DEF DiffTellsDrift, Drifted, OK, DIFFERS
<1> QED
  BY <1>2, <1>6

\* A hand moves one register, which is moved from then on.
LEMMA TurnHolds == IInv /\ Turn => IInv'
<1> SUFFICES ASSUME IInv, Turn PROVE IInv'
  OBVIOUS
<1> USE DEF IInv
<1>1. PICK m \in Turned :
        /\ dev' = [r \in Reg |-> IF r = m.reg THEN m.args ELSE dev[r]]
        /\ moved' = moved \union {m.reg}
        /\ seen' = IF phase = "reading" /\ m.reg[3] = "stereo"
                   THEN AlsoHeard({m.reg}, dev') ELSE seen
  BY DEF Turn
<1>2. UNCHANGED <<config, command, phase, coming, code, listed, whole>>
  BY DEF Turn
<1>3. \A r \in Reported : dev'[r] = dev[r] \/ r \in moved'
  BY <1>1 DEF Reported
<1>4. /\ DOMAIN seen \subseteq DOMAIN seen'
      /\ \A r \in DOMAIN seen : seen'[r] = seen[r]
      /\ \A r \in DOMAIN seen' \ DOMAIN seen : r = m.reg
  BY <1>1 DEF AlsoHeard
<1>5. HeardIsHeld'
  BY <1>1, <1>2, <1>3, <1>4 DEF HeardIsHeld
<1>6. RestIsComing'
  BY <1>2, <1>4 DEF RestIsComing
<1>7. DiffTellsDrift'
  <2>1. \A k : Drifted(k)' => Drifted(k) \/ k.reg \in moved'
    BY <1>3 DEF Drifted
  <2>2. \A k : Drifted(k) => Drifted(k)' \/ k.reg \in moved'
    BY <1>3 DEF Drifted
  <2> QED
    BY <1>1, <1>2, <2>1, <2>2 DEF DiffTellsDrift
<1> QED
  BY <1>2, <1>5, <1>6, <1>7

LEMMA StepHolds == IInv /\ [Next]_vars => IInv'
<1> SUFFICES ASSUME IInv, [Next]_vars PROVE IInv'
  OBVIOUS
<1>1. CASE Invoke("dump")
  BY <1>1, InvokeHolds
<1>2. CASE Invoke("diff")
  BY <1>2, InvokeHolds
<1>3. CASE Hear
  BY <1>3, HearHolds
<1>4. CASE Quiet
  BY <1>4, QuietHolds
<1>5. CASE Adopt
  BY <1>5 DEF Adopt, IInv, HeardIsHeld, RestIsComing, DiffTellsDrift
<1>6. CASE Apply
  BY <1>6 DEF Apply, IInv, HeardIsHeld, RestIsComing, DiffTellsDrift
<1>7. CASE Turn
  BY <1>7, TurnHolds
<1>8. CASE UNCHANGED vars
  BY <1>8 DEF vars, IInv, HeardIsHeld, RestIsComing, DiffTellsDrift, Drifted
<1> QED
  BY <1>1, <1>2, <1>3, <1>4, <1>5, <1>6, <1>7, <1>8 DEF Next

(* The exit code of --diff answers for the device, whatever the dump loses *)
(* and a hand turns: 0 hides no drift but what moved since the request, 3  *)
(* of a whole read is backed by a register that is off (cli._diff).        *)
THEOREM DiffIsTrue == Spec => []DiffTellsDrift
<1>1. Init => IInv
  BY InitHolds
<1>2. IInv /\ [Next]_vars => IInv'
  BY StepHolds
<1>3. IInv => DiffTellsDrift
  BY DEF IInv
<1> QED
  BY <1>1, <1>2, <1>3, PTL DEF Spec

----------------------------------------------------------------------------
(* The folds of this module, step by step.                                 *)

\* What every write of an apply leaves as it is, the apply leaves as it is.
LEMMA StoredCloses ==
  ASSUME NEW msgs, NEW n \in Nat, DOMAIN msgs = 1 .. n, NEW X, NEW base \in X,
         \A d \in X : \A i \in 1 .. n : Stored(d, msgs[i]) \in X
  PROVE  FoldLeft(Stored, base, msgs) \in X
<1>. DEFINE F == [d \in X |-> [i \in 1 .. n |-> Stored(d, msgs[i])]]
            it == CHOOSE it : it = [s \in SUBSET (1 .. n) |->
                    IF s = {} THEN base ELSE Stored(it[s \ {Max(s)}], msgs[Max(s)])]
<1>1. FoldLeft(Stored, base, msgs) = it[1 .. n]
  BY DEF FoldLeft, MapThenFoldSet
<1>2. F \in [X -> [1 .. n -> X]]
  OBVIOUS
<1>3. PICK g : Folded(g, n, X, base, F)
  <2>. HIDE DEF F
  <2>. QED
    BY <1>2, FoldExists
<1>4. \A s \in SUBSET (1 .. n) : s # {} => s \ {Max(s)} \in SUBSET (1 .. n) /\ Max(s) \in 1 .. n
  BY LargestIn
<1>5. g = [s \in SUBSET (1 .. n) |-> IF s = {} THEN base ELSE Stored(g[s \ {Max(s)}], msgs[Max(s)])]
  <2>1. \A s \in SUBSET (1 .. n) : s # {} => g[s \ {Max(s)}] \in X
    BY <1>3, <1>4 DEF Folded
  <2>2. \A s \in SUBSET (1 .. n) : s # {} =>
          F[g[s \ {Max(s)}]][Max(s)] = Stored(g[s \ {Max(s)}], msgs[Max(s)])
    BY <2>1, <1>4
  <2>. HIDE DEF F
  <2>. QED
    BY <1>3, <2>2, Zenon DEF Folded
<1>6. it = [s \in SUBSET (1 .. n) |-> IF s = {} THEN base ELSE Stored(it[s \ {Max(s)}], msgs[Max(s)])]
  BY <1>5
<1>7. /\ it[{}] = base
      /\ \A s \in SUBSET (1 .. n) : s # {} => it[s] = Stored(it[s \ {Max(s)}], msgs[Max(s)])
  <2>. HIDE DEF it
  <2>. QED
    BY <1>6
<1>8. \A s \in SUBSET (1 .. n) :
        s # {} /\ it[s \ {Max(s)}] \in X => it[s] = F[it[s \ {Max(s)}]][Max(s)]
  <2>. HIDE DEF it
  <2>. QED
    BY <1>4, <1>7
<1>9. PICK h : FoldSteps(h, it, n, X, base, F)
  <2>. HIDE DEF it, F
  <2>1. Folds(it, n, X, base, F)
    BY <1>7, <1>8, Zenon DEF Folds
  <2>. QED
    BY <1>2, <2>1, Chain
<1>10. h[n] \in X
  BY <1>9 DEF FoldSteps
<1>. QED
  BY <1>1, <1>9, <1>10, Zenon DEF FoldSteps

WalkSteps(h, heard, n, X) ==
  /\ h \in [0 .. n -> X] /\ h[0] = [routes |-> <<>>, claimed |-> {}]
  /\ RoutesFromObserved(heard) = h[n].routes
  /\ \A k \in 0 .. n : k < n => h[k + 1] = Walk(heard, h[k], Matrix[k + 1])

\* The routes of a dump, cell by cell.
LEMMA WalkInSteps ==
  ASSUME NEW heard, NEW n \in Nat, DOMAIN Matrix = 1 .. n, NEW X,
         [routes |-> <<>>, claimed |-> {}] \in X,
         \A d \in X : \A i \in 1 .. n : Walk(heard, d, Matrix[i]) \in X
  PROVE  \E h : WalkSteps(h, heard, n, X)
<1>. DEFINE base == [routes |-> <<>>, claimed |-> {}]
<1>. DEFINE F == [d \in X |-> [i \in 1 .. n |-> Walk(heard, d, Matrix[i])]]
            it == CHOOSE it : it = [s \in SUBSET (1 .. n) |->
                    IF s = {} THEN base ELSE Walk(heard, it[s \ {Max(s)}], Matrix[Max(s)])]
<1>1. RoutesFromObserved(heard) = it[1 .. n].routes
  BY DEF FoldLeft, MapThenFoldSet, RoutesFromObserved
<1>2. F \in [X -> [1 .. n -> X]]
  OBVIOUS
<1>3. PICK g : Folded(g, n, X, base, F)
  <2>. HIDE DEF F
  <2>. QED
    BY <1>2, FoldExists
<1>4. \A s \in SUBSET (1 .. n) : s # {} => s \ {Max(s)} \in SUBSET (1 .. n) /\ Max(s) \in 1 .. n
  BY LargestIn
<1>5. g = [s \in SUBSET (1 .. n) |-> IF s = {} THEN base ELSE Walk(heard, g[s \ {Max(s)}], Matrix[Max(s)])]
  <2>1. \A s \in SUBSET (1 .. n) : s # {} => g[s \ {Max(s)}] \in X
    BY <1>3, <1>4 DEF Folded
  <2>2. \A s \in SUBSET (1 .. n) : s # {} =>
          F[g[s \ {Max(s)}]][Max(s)] = Walk(heard, g[s \ {Max(s)}], Matrix[Max(s)])
    BY <2>1, <1>4
  <2>. HIDE DEF F
  <2>. QED
    BY <1>3, <2>2, Zenon DEF Folded
<1>6. it = [s \in SUBSET (1 .. n) |-> IF s = {} THEN base ELSE Walk(heard, it[s \ {Max(s)}], Matrix[Max(s)])]
  BY <1>5
<1>7. /\ it[{}] = base
      /\ \A s \in SUBSET (1 .. n) : s # {} => it[s] = Walk(heard, it[s \ {Max(s)}], Matrix[Max(s)])
  <2>. HIDE DEF it
  <2>. QED
    BY <1>6
<1>8. \A s \in SUBSET (1 .. n) :
        s # {} /\ it[s \ {Max(s)}] \in X => it[s] = F[it[s \ {Max(s)}]][Max(s)]
  <2>. HIDE DEF it
  <2>. QED
    BY <1>4, <1>7
<1>9. PICK h : FoldSteps(h, it, n, X, base, F)
  <2>. HIDE DEF it, F
  <2>1. Folds(it, n, X, base, F)
    BY <1>7, <1>8, Zenon DEF Folds
  <2>. QED
    BY <1>2, <2>1, Chain
<1>10. \A k \in 0 .. n : k < n => h[k + 1] = Walk(heard, h[k], Matrix[k + 1])
  <2>1. \A k \in 0 .. n : k < n => k + 1 \in 1 .. n /\ h[k] \in X
    BY <1>9 DEF FoldSteps
  <2>. HIDE DEF it
  <2>. QED
    BY <1>9, <2>1 DEF FoldSteps
<1>. HIDE DEF it
<1>. QED
  BY <1>1, <1>9, <1>10 DEF FoldSteps, WalkSteps

----------------------------------------------------------------------------
(* What is written, and what is held.                                      *)

Desk == {d \in [Reg -> Seq(Int)] : IsReading(d)}

Registers ==
  {Stereo(k, c) : k \in {"input", "playback", "output"}, c \in Nat}
    \union {Volume(o) : o \in Nat}
    \union {Cell(o, k, c) : o \in Nat, k \in {"input", "playback"}, c \in Nat}
    \union Settable

Writes == {m \in [reg : Registers, args : Seq(Int)] : Holds(m.reg, m.args)}

\* The kinds of register do not overlap.
LEMMA KindsOfRegister ==
  /\ \A k, c : Stereo(k, c)[1] = k /\ Stereo(k, c)[3] = "stereo"
  /\ \A o : Volume(o)[1] = "output" /\ Volume(o)[3] = "volume"
  /\ \A o, k, c : /\ Cell(o, k, c)[1] = "mix" /\ Cell(o, k, c)[2] = o
                  /\ Cell(o, k, c)[3] = k /\ Cell(o, k, c)[4] = c
BY DEF Stereo, Volume, Cell

LEMMA LinkWrite ==
  ASSUME NEW k \in {"input", "playback", "output"}, NEW c \in Nat, NEW v \in {0, 1}
  PROVE  Message(Stereo(k, c), <<v>>) \in Writes
<1>1. Stereo(k, c) \in Registers /\ <<v>> \in Seq(Int) /\ <<v>> \in {<<0>>, <<1>>}
  BY DEF Registers
<1>2. Holds(Stereo(k, c), <<v>>)
  BY <1>1, KindsOfRegister DEF Holds
<1>. QED
  BY <1>1, <1>2 DEF Writes, Message

LEMMA VolumeWrite ==
  ASSUME NEW o \in Nat, NEW v \in Int
  PROVE  Message(Volume(o), <<v>>) \in Writes
<1>1. Volume(o) \in Registers /\ <<v>> \in Seq(Int)
  BY DEF Registers
<1>2. Holds(Volume(o), <<v>>)
  BY <1>1, KindsOfRegister DEF Holds
<1>. QED
  BY <1>1, <1>2 DEF Writes, Message

LEMMA CellWrite ==
  ASSUME NEW o \in Nat, NEW k \in {"input", "playback"}, NEW c \in Nat,
         NEW l \in Int, l <= LevelMax, NEW p \in Int
  PROVE  Message(Cell(o, k, c), <<l, p>>) \in Writes
<1>1. Cell(o, k, c) \in Registers /\ <<l, p>> \in Seq(Int) /\ Len(<<l, p>>) = 2 /\ <<l, p>>[1] = l
  BY DEF Registers
<1>2. Holds(Cell(o, k, c), <<l, p>>)
  BY <1>1, KindsOfRegister DEF Holds
<1>. QED
  BY <1>1, <1>2 DEF Writes, Message

LEMMA RouteWrites ==
  ASSUME NEW r \in Routes, Len(r.output) \in {1, 2}, Len(r.source) = Len(r.output),
         r.level <= LevelMax
  PROVE  LinkMessages(r) \in Seq(Writes) /\ MixMessages(r) \in Seq(Writes)
<1>1. /\ r.kind \in {"input", "playback"} /\ r.source[1] \in Nat /\ r.output[1] \in Nat
      /\ Len(r.output) = 2 => r.output[2] \in Nat
      /\ r.level \in Int /\ (r.volume # NoVolume => r.volume \in Int) /\ r.stereo \in BOOLEAN
  BY DEF Routes
<1>2. LinkMessages(r) \in Seq(Writes)
  <2>1. CASE Len(r.output) # 2
    BY <2>1 DEF LinkMessages
  <2>2. CASE Len(r.output) = 2
    <3>1. Message(Stereo(r.kind, r.source[1]), <<1>>) \in Writes
      BY <1>1, LinkWrite
    <3>2. Message(Stereo("output", r.output[1]), <<IF r.stereo THEN 1 ELSE 0>>) \in Writes
      BY <1>1, LinkWrite
    <3>. QED
      BY <2>2, <3>1, <3>2 DEF LinkMessages
  <2>. QED
    BY <2>1, <2>2
<1>3. VolumeMessages(r) \in Seq(Writes)
  <2>1. CASE r.volume = NoVolume
    BY <2>1 DEF VolumeMessages
  <2>2. CASE r.volume # NoVolume
    <3>1. \A i \in DOMAIN r.output : Message(Volume(r.output[i]), <<r.volume>>) \in Writes
      BY <1>1, <2>2, VolumeWrite DEF Routes
    <3>2. DOMAIN r.output = 1 .. Len(r.output) /\ Len(r.output) \in Nat
      BY DEF Routes
    <3>. DEFINE v == [i \in DOMAIN r.output |-> Message(Volume(r.output[i]), <<r.volume>>)]
    <3>3. v \in Seq(Writes)
      BY <3>1, <3>2
    <3>. QED
      BY <2>2, <3>3 DEF VolumeMessages
  <2>. QED
    BY <2>1, <2>2
<1>4. MixMessages(r) \in Seq(Writes)
  <2>. DEFINE At(i, level, pan) == Message(Cell(r.output[i], r.kind, r.source[1]), <<level, pan>>)
              raised == Min0(r.level) + UnlinkedGainOffset
  <2>1. raised \in Int /\ raised <= LevelMax
    BY <1>1 DEF Min0, UnlinkedGainOffset, LevelMax
  <2>2. At(1, r.level, 0) \in Writes
    BY <1>1, CellWrite
  <2>3. Len(r.output) = 2 => At(1, raised, -100) \in Writes /\ At(2, raised, 100) \in Writes
    <3>. HIDE DEF raised
    <3>. QED
      BY <1>1, <2>1, CellWrite
  <2>4. MixMessages(r) = (IF Len(r.output) = 2 /\ ~r.stereo THEN <<At(1, raised, -100), At(2, raised, 100)>>
                          ELSE <<At(1, r.level, 0)>>) \o VolumeMessages(r)
    BY DEF MixMessages
  <2>. HIDE DEF At, raised
  <2>5. (IF Len(r.output) = 2 /\ ~r.stereo THEN <<At(1, raised, -100), At(2, raised, 100)>>
         ELSE <<At(1, r.level, 0)>>) \in Seq(Writes)
    BY <2>2, <2>3
  <2>. QED
    BY <1>3, <2>4, <2>5
<1>. QED
  BY <1>2, <1>4

LEMMA SettingWrite ==
  ASSUME NEW m \in [reg : Settable, args : Seq(Int)]
  PROVE  m \in Writes
<1>1. Holds(m.reg, m.args)
  BY ReadsConstants DEF Holds
<1>2. m \in [reg : Registers, args : Seq(Int)]
  BY DEF Registers
<1>. QED
  BY <1>1, <1>2 DEF Writes

LEMMA FileWrites ==
  ASSUME NEW file, IsFile(file)
  PROVE  Desired(file) \in Seq(Writes)
<1>1. \A i \in DOMAIN file.routes :
        LinkMessages(file.routes[i]) \in Seq(Writes) /\ MixMessages(file.routes[i]) \in Seq(Writes)
  BY RouteWrites DEF IsFile
<1>2. file.routes \in Seq(Routes) /\ file.channels \in Seq([reg : Settable, args : Seq(Int)])
  BY DEF IsFile
<1>3. file.channels \in Seq(Writes)
  <2>. DEFINE S == [reg : Settable, args : Seq(Int)]
  <2>1. S \subseteq Writes
    BY SettingWrite
  <2>. HIDE DEF S
  <2>2. file.channels \in Seq(S)
    BY <1>2 DEF S
  <2>. QED
    BY <2>1, <2>2
<1>. QED
  BY <1>1, <1>2, <1>3, DesiredTyped

LEMMA StoredTyped ==
  ASSUME NEW d \in Desk, NEW m \in Writes
  PROVE  Stored(d, m) \in Desk
<1>1. /\ d \in [Reg -> Seq(Int)] /\ m.args \in Seq(Int) /\ Holds(m.reg, m.args)
      /\ \A r \in Reg : Holds(r, d[r])
  BY DEF Desk, Writes, IsReading
<1>2. ASSUME NEW r, NEW a, Holds(r, a)
      PROVE  [d EXCEPT ![r] = a] \in Desk
  <2>1. a \in Seq(Int)
    BY <1>2 DEF Holds
  <2>2. [d EXCEPT ![r] = a] \in [Reg -> Seq(Int)]
    BY <1>1, <2>1
  <2>3. \A q \in Reg : Holds(q, [d EXCEPT ![r] = a][q])
    BY <1>1, <1>2
  <2>. QED
    BY <2>2, <2>3 DEF Desk, IsReading
<1>3. CASE m.reg[1] # "mix"
  BY <1>1, <1>2, <1>3 DEF Stored
<1>4. CASE m.reg[1] = "mix"
  <2>1. \A o, k, c : Holds(Cell(o, k, c), <<Silence, 0>>) /\ Holds(Cell(o, k, c), m.args)
    BY <1>1, <1>4, KindsOfRegister DEF Holds, Silence, LevelMax
  <2>2. PICK o, k, c : Stored(d, m) =
          [d EXCEPT ![Cell(o, k, c)] = IF m.args[1] <= LevelMin THEN <<Silence, 0>> ELSE m.args]
    BY <1>4 DEF Stored
  <2>3. \/ Stored(d, m) = [d EXCEPT ![Cell(o, k, c)] = <<Silence, 0>>]
        \/ Stored(d, m) = [d EXCEPT ![Cell(o, k, c)] = m.args]
    BY <2>2
  <2>. QED
    BY <1>2, <2>1, <2>3
<1>. QED
  BY <1>3, <1>4

LEMMA AppliedTyped ==
  ASSUME NEW d \in Desk, NEW file, IsFile(file)
  PROVE  AppliedTo(d, file) \in Desk
<1>1. Desired(file) \in Seq(Writes)
  BY FileWrites
<1>2. DOMAIN Desired(file) = 1 .. Len(Desired(file)) /\ Len(Desired(file)) \in Nat
      /\ \A i \in 1 .. Len(Desired(file)) : Desired(file)[i] \in Writes
  BY <1>1
<1>3. \A e \in Desk : \A i \in 1 .. Len(Desired(file)) : Stored(e, Desired(file)[i]) \in Desk
  BY <1>2, StoredTyped
<1>. QED
  BY <1>2, <1>3, StoredCloses DEF AppliedTo

----------------------------------------------------------------------------
(* The routes of a dump.                                                   *)

LEMMA CellOf ==
  ASSUME NEW heard, IsReading(heard), DOMAIN heard \subseteq Reg, NEW r \in MixEntries(heard)
  PROVE  /\ r[2] \in Nat /\ r[4] \in Nat /\ r[2] # 0 /\ r[4] # 0
         /\ r = Cell(r[2], "input", r[4]) /\ \E i \in DOMAIN Matrix : Matrix[i] = r
         /\ Stereo("output", Odd(r[2])) \in Reg
         /\ Kinds["output"] # {} => {Odd(r[2]), Odd(r[2]) + 1} \subseteq Kinds["output"]
         /\ Kinds["input"] # {} => r[4] \in Kinds["input"]
         /\ heard[r] = <<heard[r][1], heard[r][2]>>
         /\ heard[r][1] \in Int /\ heard[r][2] \in Int
         /\ heard[r][1] > LevelMin /\ heard[r][1] <= LevelMax
<1>1. r \in Reg /\ r \in DOMAIN heard /\ r[1] = "mix" /\ r[3] = "input" /\ heard[r][1] > LevelMin
  BY DEF MixEntries
<1>2. PICK i \in DOMAIN Matrix : Matrix[i] = r
  <2>1. r \in {Matrix[i] : i \in DOMAIN Matrix}
    BY <1>1, ReadsMatrix
  <2>. QED
    BY <2>1
<1>3. /\ {r[2], r[4]} \subseteq Nat \ {0} /\ r = Cell(r[2], "input", r[4])
      /\ Stereo("output", Odd(r[2])) \in Reg
      /\ Kinds["output"] # {} => {Odd(r[2]), Odd(r[2]) + 1} \subseteq Kinds["output"]
      /\ Kinds["input"] # {} => r[4] \in Kinds["input"]
  BY <1>2, ReadsMatrix, Zenon
<1>4. heard[r] \in Seq(Int) /\ Len(heard[r]) = 2 /\ heard[r][1] <= LevelMax
  BY <1>1 DEF IsReading, Holds
<1>5. heard[r] = <<heard[r][1], heard[r][2]>> /\ heard[r][1] \in Int /\ heard[r][2] \in Int
  BY <1>4
<1>6. r[2] \in Nat /\ r[4] \in Nat /\ r[2] # 0 /\ r[4] # 0
  BY <1>3
<1>7. \E i_1 \in DOMAIN Matrix : Matrix[i_1] = r
  BY <1>2
<1>. QED
  BY <1>1, <1>3, <1>4, <1>5, <1>6, <1>7, Zenon

\* What stands for a cell in the file is nothing or one route, of three shapes.
LEMMA RouteShapes ==
  ASSUME NEW heard, IsReading(heard), DOMAIN heard \subseteq Reg, NEW r \in MixEntries(heard)
  PROVE  \/ RouteAt(heard, r) = <<>>
         \/ /\ Linked(heard, "output", r[2]) /\ r[2] % 2 = 1
            /\ RouteAt(heard, r) = <<Route(<<r[4], r[4] + 1>>, <<r[2], r[2] + 1>>, heard[r][1], TRUE)>>
         \/ /\ ~Linked(heard, "output", r[2]) /\ heard[r][2] \in {-100, 100}
            /\ Cell(r[2] + 1, "input", r[4]) \in MixEntries(heard)
            /\ RouteAt(heard, r) = <<Route(<<r[4], r[4] + 1>>, <<r[2], r[2] + 1>>,
                                           heard[r][1] - UnlinkedGainOffset, FALSE)>>
         \/ /\ ~Linked(heard, "output", r[2]) /\ heard[r][2] = 0
            /\ RouteAt(heard, r) = <<Route(<<r[4]>>, <<r[2]>>, heard[r][1], TRUE)>>
<1>1. heard[r][1] \in Int /\ heard[r][1] - 0 = heard[r][1]
  BY CellOf
<1>. DEFINE Pair(l, stereo) == <<Route(<<r[4], r[4] + 1>>, <<r[2], r[2] + 1>>, l, stereo)>>
            split == heard[r][2] \in {-100, 100} /\ Cell(r[2] + 1, "input", r[4]) \in MixEntries(heard)
<1>2. RouteAt(heard, r) =
        IF Linked(heard, "output", r[2]) THEN IF r[2] % 2 = 1 THEN Pair(heard[r][1] - 0, TRUE) ELSE <<>>
        ELSE IF split THEN Pair(heard[r][1] - UnlinkedGainOffset, FALSE)
        ELSE IF heard[r][2] = 0 THEN <<Route(<<r[4]>>, <<r[2]>>, heard[r][1], TRUE)>> ELSE <<>>
  BY DEF RouteAt
<1>. QED
  BY <1>1, <1>2

Dumpable(heard) == {q \in Routes : \E r \in MixEntries(heard) : RouteAt(heard, r) = <<q>>}

LEMMA RouteTyped ==
  ASSUME NEW source \in Seq(Nat), NEW output \in Seq(Nat), NEW level \in Int, NEW stereo \in BOOLEAN
  PROVE  Route(source, output, level, stereo) \in Routes
BY DEF Route, Routes

LEMMA RouteAtTyped ==
  ASSUME NEW heard, IsReading(heard), DOMAIN heard \subseteq Reg, NEW r \in MixEntries(heard)
  PROVE  RouteAt(heard, r) = <<>> \/ \E q \in Dumpable(heard) : RouteAt(heard, r) = <<q>>
<1>1. r[2] \in Nat /\ r[4] \in Nat /\ heard[r][1] \in Int
  BY CellOf
<1>2. /\ <<r[4], r[4] + 1>> \in Seq(Nat) /\ <<r[2], r[2] + 1>> \in Seq(Nat)
      /\ <<r[4]>> \in Seq(Nat) /\ <<r[2]>> \in Seq(Nat) /\ heard[r][1] - UnlinkedGainOffset \in Int
  BY <1>1 DEF UnlinkedGainOffset
<1>3. /\ Route(<<r[4], r[4] + 1>>, <<r[2], r[2] + 1>>, heard[r][1], TRUE) \in Routes
      /\ Route(<<r[4], r[4] + 1>>, <<r[2], r[2] + 1>>, heard[r][1] - UnlinkedGainOffset, FALSE) \in Routes
      /\ Route(<<r[4]>>, <<r[2]>>, heard[r][1], TRUE) \in Routes
  BY <1>1, <1>2, RouteTyped
<1>. DEFINE q1 == Route(<<r[4], r[4] + 1>>, <<r[2], r[2] + 1>>, heard[r][1], TRUE)
            q2 == Route(<<r[4], r[4] + 1>>, <<r[2], r[2] + 1>>, heard[r][1] - UnlinkedGainOffset, FALSE)
            q3 == Route(<<r[4]>>, <<r[2]>>, heard[r][1], TRUE)
<1>4. RouteAt(heard, r) = <<>> \/ RouteAt(heard, r) \in {<<q1>>, <<q2>>, <<q3>>}
  BY RouteShapes
<1>. HIDE DEF q1, q2, q3
<1>5. q1 \in Routes /\ q2 \in Routes /\ q3 \in Routes
  BY <1>3 DEF q1, q2, q3
<1>. QED
  BY <1>4, <1>5 DEF Dumpable

Claims == {Cell(o, "input", s) : o \in Nat, s \in Nat}

LEMMA WalkTyped ==
  ASSUME NEW heard, IsReading(heard), DOMAIN heard \subseteq Reg,
         NEW d \in [routes : Seq(Dumpable(heard)), claimed : SUBSET Claims], NEW r
  PROVE  Walk(heard, d, r) \in [routes : Seq(Dumpable(heard)), claimed : SUBSET Claims]
<1>. DEFINE found == RouteAt(heard, r)
            more == IF found # <<>> /\ ~found[1].stereo
                    THEN d.claimed \union {Cell(r[2] + 1, "input", r[4])} ELSE d.claimed
<1>1. CASE r \notin MixEntries(heard) \/ r \in d.claimed
  BY <1>1 DEF Walk
<1>2. CASE ~(r \notin MixEntries(heard) \/ r \in d.claimed)
  <2>1. Walk(heard, d, r) = [routes |-> d.routes \o found, claimed |-> more]
    BY <1>2 DEF Walk
  <2>2. found = <<>> \/ \E q \in Dumpable(heard) : found = <<q>>
    BY <1>2, RouteAtTyped
  <2>3. r[2] + 1 \in Nat /\ r[4] \in Nat
    BY <1>2, CellOf
  <2>4. Cell(r[2] + 1, "input", r[4]) \in Claims
    BY <2>3 DEF Claims
  <2>5. more \in SUBSET Claims
    <3>. HIDE DEF found
    <3>. QED
      BY <2>4
  <2>6. d.routes \o found \in Seq(Dumpable(heard))
    <3>. HIDE DEF found
    <3>. DEFINE D == Dumpable(heard)
    <3>1. found = <<>> \/ \E q \in D : found = <<q>>
      BY <2>2
    <3>2. d.routes \in Seq(D)
      OBVIOUS
    <3>. HIDE DEF D
    <3>3. found \in Seq(D)
      <4>1. \A q \in D : <<q>> \in Seq(D)
        OBVIOUS
      <4>2. <<>> \in Seq(D)
        OBVIOUS
      <4>. QED
        BY <3>1, <4>1, <4>2, Zenon
    <3>4. d.routes \o found \in Seq(D)
      BY <3>2, <3>3
    <3>. QED
      BY <3>4 DEF D
  <2>. HIDE DEF found, more
  <2>. QED
    BY <2>1, <2>5, <2>6
<1>. QED
  BY <1>1, <1>2

LEMMA RoutesComeFromCells ==
  ASSUME NEW heard, IsReading(heard), DOMAIN heard \subseteq Reg
  PROVE  RoutesFromObserved(heard) \in Seq(Dumpable(heard))
<1>. DEFINE X == [routes : Seq(Dumpable(heard)), claimed : SUBSET Claims]
<1>1. [routes |-> <<>>, claimed |-> {}] \in X
  OBVIOUS
<1>2. DOMAIN Matrix = 1 .. Len(Matrix) /\ Len(Matrix) \in Nat
  BY ReadsMatrix
<1>3. \A d \in X : \A i \in 1 .. Len(Matrix) : Walk(heard, d, Matrix[i]) \in X
  BY WalkTyped
<1>. HIDE DEF X
<1>4. PICK h : WalkSteps(h, heard, Len(Matrix), X)
  BY <1>1, <1>2, <1>3, WalkInSteps
<1>5. h[Len(Matrix)] \in X /\ RoutesFromObserved(heard) = h[Len(Matrix)].routes
  BY <1>2, <1>4 DEF WalkSteps
<1>. QED
  BY <1>5 DEF X

LEMMA DumpableShapes ==
  ASSUME NEW heard, IsReading(heard), DOMAIN heard \subseteq Reg, NEW q \in Dumpable(heard)
  PROVE  \E r \in MixEntries(heard) :
           \/ /\ Linked(heard, "output", r[2]) /\ r[2] % 2 = 1
              /\ q = Route(<<r[4], r[4] + 1>>, <<r[2], r[2] + 1>>, heard[r][1], TRUE)
           \/ /\ ~Linked(heard, "output", r[2]) /\ heard[r][2] \in {-100, 100}
              /\ Cell(r[2] + 1, "input", r[4]) \in MixEntries(heard)
              /\ q = Route(<<r[4], r[4] + 1>>, <<r[2], r[2] + 1>>,
                           heard[r][1] - UnlinkedGainOffset, FALSE)
           \/ /\ ~Linked(heard, "output", r[2]) /\ heard[r][2] = 0
              /\ q = Route(<<r[4]>>, <<r[2]>>, heard[r][1], TRUE)
<1>1. PICK r \in MixEntries(heard) : RouteAt(heard, r) = <<q>>
  BY DEF Dumpable
<1>2. \A p : <<p>> = <<q>> => q = p
  OBVIOUS
<1>3. <<q>> # <<>>
  OBVIOUS
<1>. QED
  BY <1>1, <1>2, <1>3, RouteShapes, Zenon

LEMMA DumpableLevels ==
  ASSUME NEW heard, IsReading(heard), DOMAIN heard \subseteq Reg, NEW q \in Dumpable(heard)
  PROVE  /\ Len(q.output) \in {1, 2} /\ Len(q.source) = Len(q.output)
         /\ q.level <= LevelMax /\ q.level > LevelMin - UnlinkedGainOffset
<1>1. PICK r \in MixEntries(heard) :
        \/ q = Route(<<r[4], r[4] + 1>>, <<r[2], r[2] + 1>>, heard[r][1], TRUE)
        \/ q = Route(<<r[4], r[4] + 1>>, <<r[2], r[2] + 1>>, heard[r][1] - UnlinkedGainOffset, FALSE)
        \/ q = Route(<<r[4]>>, <<r[2]>>, heard[r][1], TRUE)
  BY DumpableShapes
<1>2. heard[r][1] \in Int /\ heard[r][1] > LevelMin /\ heard[r][1] <= LevelMax
  BY CellOf
<1>. QED
  BY <1>1, <1>2 DEF Route, UnlinkedGainOffset, LevelMin, LevelMax

LEMMA SettingsAreFinite ==
  ASSUME NEW heard
  PROVE  IsFiniteSet({Message(r, heard[r]) : r \in Live(heard)})
<1>. DEFINE L == Live(heard)
            M == {Message(r, heard[r]) : r \in L}
            f == [r \in L |-> Message(r, heard[r])]
<1>1. IsFiniteSet(L)
  <2>1. L \subseteq Settable
    BY DEF Live
  <2>. HIDE DEF L
  <2>. QED
    BY <2>1, ReadsConstants, FS_Subset
<1>2. f \in Surjection(L, M)
  BY DEF Surjection
<1>. HIDE DEF L, M, f
<1>4. IsFiniteSet(M)
  BY <1>1, <1>2, FS_Surjection
<1>. QED
  BY <1>4 DEF L, M

LEMMA SettingsOfDump ==
  ASSUME NEW heard
  PROVE  DumpOf(heard).channels \in Seq({Message(r, heard[r]) : r \in Live(heard)})
<1>. DEFINE M == {Message(r, heard[r]) : r \in Live(heard)}
<1>1. IsFiniteSet(M)
  BY SettingsAreFinite
<1>2. DumpOf(heard).channels = SetToSeq(M)
  BY DEF DumpOf
<1>. HIDE DEF M
<1>3. DumpOf(heard).channels \in Seq(M)
  BY <1>1, <1>2, SetToSeqTyped
<1>. QED
  BY <1>3 DEF M

\* What is dumped is a file.
LEMMA DumpIsFile ==
  ASSUME NEW heard, IsReading(heard), DOMAIN heard \subseteq Reg
  PROVE  /\ IsFile(DumpOf(heard)) /\ DumpOf(heard).routes \in Seq(Dumpable(heard))
         /\ \A r \in ToSet(DumpOf(heard).routes) : r.level > LevelMin - UnlinkedGainOffset
<1>. DEFINE file == DumpOf(heard)
<1>1. file.routes = RoutesFromObserved(heard)
  BY DEF DumpOf
<1>2. file.routes \in Seq(Dumpable(heard))
  BY <1>1, RoutesComeFromCells
<1>3. \A i \in DOMAIN file.routes : file.routes[i] \in Dumpable(heard)
  BY <1>2
<1>4. file.routes \in Seq(Routes)
  <2>. DEFINE D == Dumpable(heard)
  <2>1. D \subseteq Routes
    BY DEF Dumpable
  <2>. HIDE DEF D, file
  <2>2. file.routes \in Seq(D)
    BY <1>2 DEF D
  <2>. QED
    BY <2>1, <2>2
<1>5. file.channels \in Seq([reg : Settable, args : Seq(Int)])
  <2>. DEFINE M == {Message(r, heard[r]) : r \in Live(heard)}
              S == [reg : Settable, args : Seq(Int)]
  <2>1. \A r \in Live(heard) : Message(r, heard[r]) \in S
    BY DEF Live, IsReading, Holds, Message
  <2>2. M \subseteq S
    BY <2>1
  <2>3. file.channels \in Seq(M)
    BY SettingsOfDump
  <2>. HIDE DEF M, S, file
  <2>4. file.channels \in Seq(S)
    BY <2>2, <2>3
  <2>. QED
    BY <2>4 DEF S
<1>. HIDE DEF file
<1>6. IsFile(file)
  BY <1>3, <1>4, <1>5, DumpableLevels DEF IsFile
<1>7. \A r \in ToSet(file.routes) : r.level > LevelMin - UnlinkedGainOffset
  BY <1>3, DumpableLevels DEF ToSet
<1>. QED
  BY <1>2, <1>6, <1>7 DEF file

----------------------------------------------------------------------------
(* Types.                                                                  *)

TypeInv ==
  /\ dev \in Desk
  /\ DOMAIN seen \subseteq Reported /\ IsReading(seen) /\ seen = [r \in DOMAIN seen |-> seen[r]]
  /\ coming \in Seq(SUBSET Reported)
  /\ ReadsTypeOK

LEMMA InitTyped == Init => TypeInv
<1> SUFFICES ASSUME Init PROVE TypeInv
  OBVIOUS
<1>1. Blank \in Desk
  BY ReadsValues DEF Desk
<1>2. IsFile(config) /\ dev \in Desk
  BY <1>1, ReadsValues, AppliedTyped DEF Init
<1>3. IsFile(dumped) /\ ToSet(dumped.routes) = {}
  <2>1. dumped = [routes |-> <<>>, channels |-> <<>>]
    BY DEF Init, EmptyFile
  <2>2. dumped.routes = <<>> /\ dumped.channels = <<>>
    BY <2>1
  <2>. QED
    BY <2>2 DEF IsFile, ToSet
<1>4. /\ DOMAIN seen = {} /\ coming = <<>> /\ seen = [r \in DOMAIN seen |-> seen[r]]
  BY DEF Init, NothingHeard
<1>5. /\ phase = "ready" /\ command = "apply" /\ code = OK /\ losses = 0 /\ turns = 0 /\ listed = {}
  BY DEF Init
<1>6. DOMAIN dev = Reg /\ IsReading(dev)
  BY <1>2 DEF Desk
<1>7. losses \in 0 .. MaxLosses /\ turns \in 0 .. MaxTurns
  BY <1>5, ReadsConstants
<1>. QED
  BY <1>2, <1>3, <1>4, <1>5, <1>6, <1>7 DEF TypeInv, ReadsTypeOK, IsReading

\* What is heard of a desk is a reading.
LEMMA AlsoHeardTyped ==
  ASSUME NEW S, DOMAIN seen \subseteq Reported, IsReading(seen), S \subseteq Reported,
         NEW d, d \in Desk
  PROVE  /\ DOMAIN AlsoHeard(S, d) \subseteq Reported /\ IsReading(AlsoHeard(S, d))
         /\ AlsoHeard(S, d) = [r \in DOMAIN AlsoHeard(S, d) |-> AlsoHeard(S, d)[r]]
<1>. DEFINE a == AlsoHeard(S, d)
<1>1. DOMAIN a = DOMAIN seen \union S /\ a = [r \in DOMAIN a |-> a[r]]
  BY DEF AlsoHeard
<1>2. \A r \in DOMAIN a : Holds(r, a[r])
  BY DEF AlsoHeard, IsReading, Desk, Reported
<1>. QED
  BY <1>1, <1>2 DEF IsReading

LEMMA StepTyped == TypeInv /\ [Next]_vars => TypeInv'
<1> SUFFICES ASSUME TypeInv, [Next]_vars PROVE TypeInv'
  OBVIOUS
<1> USE DEF TypeInv, ReadsTypeOK
<1>1. ASSUME NEW what \in {"dump", "diff"}, Invoke(what) PROVE TypeInv'
  <2>1. /\ phase' \in {"ready", "reading"} /\ code' \in {OK, FAILURE, CONFIG, DIFFERS}
        /\ command' = what
        /\ UNCHANGED <<dev, config, dumped, listed, losses, turns>>
    BY <1>1 DEF Invoke, Exits
  <2>2. seen' = seen \/ seen' = NothingHeard
    BY <1>1 DEF Invoke
  <2>3. /\ DOMAIN seen' \subseteq Reported /\ IsReading(seen')
        /\ seen' = [r \in DOMAIN seen' |-> seen'[r]]
    BY <2>2 DEF NothingHeard, IsReading
  <2>4. coming' = coming \/ coming' = Bursts \/ coming' = <<>>
    BY <1>1 DEF Invoke
  <2>7. Bursts \in Seq(SUBSET Reported) /\ <<>> \in Seq(SUBSET Reported)
    BY ReadsConstants
  <2>5. coming' \in Seq(SUBSET Reported)
    BY <2>4, <2>7, Zenon
  <2>6. IsReading(seen)' = IsReading(seen') /\ IsReading(dev)' = IsReading(dev') /\ IsFile(config)' = IsFile(config') /\ IsFile(dumped)' = IsFile(dumped')
    BY DEF IsReading, IsFile
  <2>. QED
    BY <2>1, <2>3, <2>5, <2>6
<1>2. CASE Hear
  <2>1. PICK gone : /\ losses + Cardinality(gone) <= MaxLosses
                    /\ gone = {} \/ \E r : gone = {r}
                    /\ losses' = losses + Cardinality(gone)
                    /\ seen' = AlsoHeard(Head(coming) \ gone, dev)
    BY <1>2 DEF Hear
  <2>7. Cardinality({}) = 0
    BY FS_EmptySet
  <2>8. \A r : Cardinality({r}) = 1
    BY FS_Singleton
  <2>2. Cardinality(gone) \in Nat
    <3>1. CASE gone = {}
      BY <2>7, <3>1
    <3>2. ASSUME NEW r, gone = {r} PROVE Cardinality(gone) \in Nat
      <4>1. Cardinality(gone) = 1
        BY <2>8, <3>2, Zenon
      <4>. QED
        BY <4>1
    <3>. QED
      BY <2>1, <3>1, <3>2
  <2>3. losses' \in 0 .. MaxLosses
    BY <2>1, <2>2, ReadsConstants
  <2>4. coming # <<>> /\ coming' = Tail(coming) /\ UNCHANGED <<dev, config, command, phase, code, dumped, listed, turns>>
    BY <1>2 DEF Hear
  <2>5. coming' \in Seq(SUBSET Reported) /\ Head(coming) \subseteq Reported
    BY <2>4
  <2>6. /\ DOMAIN seen' \subseteq Reported /\ IsReading(seen')
        /\ seen' = [r \in DOMAIN seen' |-> seen'[r]]
    <3>1. /\ Head(coming) \ gone \subseteq Reported /\ dev \in Desk
          /\ DOMAIN seen \subseteq Reported /\ IsReading(seen)
      BY <2>5
    <3>. DEFINE a == AlsoHeard(Head(coming) \ gone, dev)
    <3>2. DOMAIN a \subseteq Reported /\ IsReading(a) /\ a = [r \in DOMAIN a |-> a[r]]
      <4>. HIDE DEF TypeInv, ReadsTypeOK
      <4>. QED
        BY <3>1, AlsoHeardTyped
    <3>3. seen' = a
      BY <2>1
    <3>. HIDE DEF a
    <3>. QED
      BY <3>2, <3>3
  <2>. QED
    BY <2>3, <2>4, <2>5, <2>6
<1>3. CASE Quiet
  <2>1. /\ phase' = "ready" /\ code' \in {OK, FAILURE, DIFFERS} /\ coming' = <<>>
        /\ losses' = IF coming = <<>> THEN losses ELSE losses + 1
        /\ coming # <<>> => losses < MaxLosses
        /\ UNCHANGED <<dev, config, command, seen, turns>>
    BY <1>3 DEF Quiet, Exits
  <2>2. losses' \in 0 .. MaxLosses
    BY <2>1, ReadsConstants
  <2>3. dumped' = dumped \/ dumped' = DumpOf(seen)
    BY <1>3 DEF Quiet
  <2>4. IsFile(dumped') /\ \A r \in ToSet(dumped'.routes) : r.level > LevelMin - UnlinkedGainOffset
    BY <2>3, DumpIsFile DEF Reported
  <2>5. listed' = listed \/ listed' = Differing(config, seen)
    BY <1>3 DEF Quiet
  <2>6. \A m \in listed' : m.reg \notin Reestablished
    BY <2>5 DEF Differing, Differs
  <2>7. coming' \in Seq(SUBSET Reported)
    BY <2>1
  <2>. QED
    BY <2>1, <2>2, <2>4, <2>6, <2>7
<1>4. CASE Adopt
  BY <1>4 DEF Adopt
<1>5. CASE Apply
  <2>1. dev' \in Desk /\ code' = OK /\ command' = "apply"
        /\ UNCHANGED <<config, phase, seen, coming, dumped, listed, losses, turns>>
    BY <1>5, AppliedTyped DEF Apply
  <2>2. DOMAIN dev' = Reg /\ IsReading(dev')
    BY <2>1 DEF Desk
  <2>. QED
    BY <2>1, <2>2
<1>6. CASE Turn
  <2>1. PICK m \in Turned :
          /\ dev' = [r \in Reg |-> IF r = m.reg THEN m.args ELSE dev[r]]
          /\ seen' = IF phase = "reading" /\ m.reg[3] = "stereo"
                     THEN AlsoHeard({m.reg}, dev') ELSE seen
    BY <1>6 DEF Turn
  <2>2. turns' \in 0 .. MaxTurns /\ UNCHANGED <<config, command, phase, coming, code, dumped, listed, losses>>
    BY <1>6, ReadsConstants DEF Turn
  <2>3. Holds(m.reg, m.args) /\ m.reg \in Reported
    BY <2>1, ReadsValues, ReadsConstants
  <2>4. dev' \in Desk /\ DOMAIN dev' = Reg /\ IsReading(dev')
    <3>1. \A r \in Reg : dev'[r] \in Seq(Int) /\ Holds(r, dev'[r])
      BY <2>1, <2>3 DEF Desk, IsReading, Holds
    <3>2. DOMAIN dev' = Reg /\ dev' \in [Reg -> Seq(Int)]
      BY <2>1, <3>1
    <3>. QED
      BY <3>1, <3>2 DEF Desk, IsReading
  <2>5. /\ DOMAIN seen' \subseteq Reported /\ IsReading(seen')
        /\ seen' = [r \in DOMAIN seen' |-> seen'[r]]
    <3>1. {m.reg} \subseteq Reported /\ DOMAIN seen \subseteq Reported /\ IsReading(seen)
      BY <2>3
    <3>2. seen' = seen \/ seen' = AlsoHeard({m.reg}, dev')
      BY <2>1
    <3>. DEFINE a == AlsoHeard({m.reg}, dev')
    <3>3. DOMAIN a \subseteq Reported /\ IsReading(a) /\ a = [r \in DOMAIN a |-> a[r]]
      <4>. HIDE DEF TypeInv, ReadsTypeOK
      <4>. QED
        BY <2>4, <3>1, AlsoHeardTyped
    <3>4. seen' = seen \/ seen' = a
      BY <3>2
    <3>. HIDE DEF a
    <3>. QED
      BY <3>3, <3>4
  <2>. QED
    BY <2>2, <2>4, <2>5
<1>7. CASE UNCHANGED vars
  BY <1>7 DEF vars
<1> QED
  BY <1>1, <1>2, <1>3, <1>4, <1>5, <1>6, <1>7 DEF Next

(* On every desk, and whatever the reads lose: the device and a dump of it  *)
(* stay within what registers can hold, and the file a dump prints is one, *)
(* with two channels to two or one to one (reconcile.routes_from_observed).*)
THEOREM ReadsAreTyped == Spec => []ReadsTypeOK
<1>1. TypeInv => ReadsTypeOK
  BY DEF TypeInv
<1> QED
  BY <1>1, InitTyped, StepTyped, PTL DEF Spec

----------------------------------------------------------------------------
(* A dump loads.                                                           *)

LEMMA DumpableLoads ==
  ASSUME NEW heard, IsReading(heard), DOMAIN heard \subseteq Reg,
         \A r \in MixEntries(heard) : ~Lonely(heard, r) /\ ~Faint(heard, r),
         NEW q \in Dumpable(heard)
  PROVE  /\ q.level \in LevelMin .. LevelMax /\ q.kind = "input"
         /\ Kinds["input"] # {} => ToSet(q.source) \subseteq Kinds["input"]
         /\ Kinds["output"] # {} => ToSet(q.output) \subseteq Kinds["output"]
         /\ Len(q.output) = 2 => q.stereo = Linked(heard, "output", q.output[1])
<1>1. PICK r \in MixEntries(heard) :
           \/ /\ Linked(heard, "output", r[2]) /\ r[2] % 2 = 1
              /\ q = Route(<<r[4], r[4] + 1>>, <<r[2], r[2] + 1>>, heard[r][1], TRUE)
           \/ /\ ~Linked(heard, "output", r[2]) /\ heard[r][2] \in {-100, 100}
              /\ Cell(r[2] + 1, "input", r[4]) \in MixEntries(heard)
              /\ q = Route(<<r[4], r[4] + 1>>, <<r[2], r[2] + 1>>,
                           heard[r][1] - UnlinkedGainOffset, FALSE)
           \/ /\ ~Linked(heard, "output", r[2]) /\ heard[r][2] = 0
              /\ q = Route(<<r[4]>>, <<r[2]>>, heard[r][1], TRUE)
  BY DumpableShapes
<1>2. /\ r[2] \in Nat /\ r[4] \in Nat /\ heard[r][1] \in Int
      /\ heard[r][1] > LevelMin /\ heard[r][1] <= LevelMax
  BY CellOf
<1>3. /\ Kinds["output"] # {} => {Odd(r[2]), Odd(r[2]) + 1} \subseteq Kinds["output"]
      /\ Kinds["input"] # {} => r[4] \in Kinds["input"]
  BY CellOf
<1>4. ~Lonely(heard, r) /\ ~Faint(heard, r)
  OBVIOUS
<1>5. \A a : ToSet(<<a>>) = {a}
  BY DEF ToSet
<1>6. \A a, b : ToSet(<<a, b>>) = {a, b}
  BY DEF ToSet
<1>7. Kinds["output"] # {} => r[2] \in Kinds["output"]
  BY <1>2, <1>3 DEF Odd
<1>8. CASE /\ Linked(heard, "output", r[2]) /\ r[2] % 2 = 1
           /\ q = Route(<<r[4], r[4] + 1>>, <<r[2], r[2] + 1>>, heard[r][1], TRUE)
  <2>1. /\ q.level = heard[r][1] /\ q.kind = "input" /\ q.stereo = TRUE
        /\ q.source = <<r[4], r[4] + 1>> /\ q.output = <<r[2], r[2] + 1>>
    BY <1>8 DEF Route
  <2>2. Kinds["input"] # {} => r[4] + 1 \in Kinds["input"]
    BY <1>4, <1>8 DEF Lonely
  <2>3. Kinds["output"] # {} => r[2] + 1 \in Kinds["output"]
    BY <1>3, <1>8 DEF Odd
  <2>4. ToSet(q.source) = {r[4], r[4] + 1} /\ ToSet(q.output) = {r[2], r[2] + 1}
    BY <2>1, <1>6
  <2>5. q.level \in LevelMin .. LevelMax
    BY <1>2, <2>1 DEF LevelMin, LevelMax
  <2>6. q.stereo = Linked(heard, "output", q.output[1])
    <3>1. q.output[1] = r[2]
      BY <2>1
    <3>. QED
      BY <1>8, <2>1, <3>1 DEF Linked
  <2>. QED
    BY <1>3, <1>7, <2>1, <2>2, <2>3, <2>4, <2>5, <2>6
<1>9. CASE /\ ~Linked(heard, "output", r[2]) /\ heard[r][2] \in {-100, 100}
           /\ Cell(r[2] + 1, "input", r[4]) \in MixEntries(heard)
           /\ q = Route(<<r[4], r[4] + 1>>, <<r[2], r[2] + 1>>,
                        heard[r][1] - UnlinkedGainOffset, FALSE)
  <2>1. /\ q.level = heard[r][1] - UnlinkedGainOffset /\ q.kind = "input" /\ q.stereo = FALSE
        /\ q.source = <<r[4], r[4] + 1>> /\ q.output = <<r[2], r[2] + 1>>
    BY <1>9 DEF Route
  <2>2. Kinds["input"] # {} => r[4] + 1 \in Kinds["input"]
    BY <1>4, <1>9 DEF Lonely, Panned
  <2>3. heard[r][1] >= LevelMin + UnlinkedGainOffset
    BY <1>2, <1>4, <1>9 DEF Faint, Panned, LevelMin, UnlinkedGainOffset
  <2>4. Kinds["output"] # {} => r[2] + 1 \in Kinds["output"]
    <3>. DEFINE t == Cell(r[2] + 1, "input", r[4])
    <3>1. t[2] = r[2] + 1
      BY KindsOfRegister
    <3>2. t[2] \in Nat /\ (Kinds["output"] # {} => {Odd(t[2]), Odd(t[2]) + 1} \subseteq Kinds["output"])
      BY <1>9, CellOf
    <3>. QED
      BY <3>1, <3>2 DEF Odd
  <2>5. ToSet(q.source) = {r[4], r[4] + 1} /\ ToSet(q.output) = {r[2], r[2] + 1}
    BY <2>1, <1>6
  <2>6. q.level \in LevelMin .. LevelMax
    BY <1>2, <2>1, <2>3 DEF LevelMin, LevelMax, UnlinkedGainOffset
  <2>7. Len(q.output) = 2 => q.stereo = Linked(heard, "output", q.output[1])
    <3>1. q.output[1] = r[2]
      BY <2>1
    <3>. QED
      BY <1>9, <2>1, <3>1 DEF Linked
  <2>. QED
    BY <1>3, <1>7, <2>1, <2>2, <2>4, <2>5, <2>6, <2>7
<1>10. CASE /\ ~Linked(heard, "output", r[2]) /\ heard[r][2] = 0
            /\ q = Route(<<r[4]>>, <<r[2]>>, heard[r][1], TRUE)
  <2>1. /\ q.level = heard[r][1] /\ q.kind = "input" /\ q.source = <<r[4]>> /\ q.output = <<r[2]>>
    BY <1>10 DEF Route
  <2>2. ToSet(q.source) = {r[4]} /\ ToSet(q.output) = {r[2]} /\ Len(q.output) = 1
    BY <2>1, <1>5
  <2>. QED
    BY <1>2, <1>3, <1>7, <2>1, <2>2 DEF LevelMin, LevelMax
<1>. QED
  BY <1>1, <1>8, <1>9, <1>10

\* Whatever was heard of a device, the file that says it loads.
LEMMA DumpLoads ==
  ASSUME NEW heard, IsReading(heard), DOMAIN heard \subseteq Reg,
         \A r \in MixEntries(heard) : ~Lonely(heard, r) /\ ~Faint(heard, r)
  PROVE  Loads(DumpOf(heard))
<1>. DEFINE file == DumpOf(heard)
<1>1. \A q \in ToSet(file.routes) : q \in Dumpable(heard)
  BY DumpIsFile DEF ToSet
<1>2. \A q \in ToSet(file.routes) : q.level \in LevelMin .. LevelMax
  BY <1>1, DumpableLoads
<1>3. ChannelsExist(file.routes, [channels |-> Kinds])
  <2>1. ASSUME NEW q \in ToSet(file.routes), NEW use \in {<<q.kind, q.source>>, <<"output", q.output>>},
               Kinds[use[1]] # {}
        PROVE  ToSet(use[2]) \subseteq Kinds[use[1]]
    <3>1. /\ q.kind = "input"
          /\ Kinds["input"] # {} => ToSet(q.source) \subseteq Kinds["input"]
          /\ Kinds["output"] # {} => ToSet(q.output) \subseteq Kinds["output"]
      BY <1>1, DumpableLoads
    <3>2. CASE use = <<q.kind, q.source>>
      BY <2>1, <3>1, <3>2
    <3>3. CASE use = <<"output", q.output>>
      BY <2>1, <3>1, <3>3
    <3>. QED
      BY <3>2, <3>3
  <2>. HIDE DEF file
  <2>. QED
    BY <2>1 DEF ChannelsExist
<1>4. LinksAgree(file.routes)
  <2>1. ASSUME NEW q \in ToSet(file.routes), NEW p \in ToSet(file.routes),
               Len(q.output) = 2, q.output = p.output
        PROVE  q.stereo = p.stereo
    <3>1. q.stereo = Linked(heard, "output", q.output[1])
      BY <1>1, <2>1, DumpableLoads
    <3>2. p.stereo = Linked(heard, "output", p.output[1])
      BY <1>1, <2>1, DumpableLoads
    <3>. QED
      BY <2>1, <3>1, <3>2
  <2>. HIDE DEF file
  <2>. QED
    BY <2>1 DEF LinksAgree
<1>5. \A m \in ToSet(file.channels) : Nameable(m.reg, m.args)
  <2>. DEFINE M == {Message(r, heard[r]) : r \in Live(heard)}
  <2>1. file.channels \in Seq(M)
    BY SettingsOfDump
  <2>2. \A m \in ToSet(file.channels) : m \in M
    <3>. HIDE DEF M, file
    <3>. QED
      BY <2>1 DEF ToSet
  <2>3. \A m \in M : Nameable(m.reg, m.args)
    BY DEF Live, Message
  <2>. HIDE DEF M, file
  <2>. QED
    BY <2>2, <2>3
<1>. HIDE DEF file
<1>6. Loads(file)
  BY <1>2, <1>3, <1>4, <1>5 DEF Loads
<1>. QED
  BY <1>6 DEF file

\* A config that does not load is the dump of what was heard last, and no
\* command has been let through to the device since.
LoadInv ==
  /\ phase = "ready" /\ command = "dump" /\ code = OK => dumped = DumpOf(seen)
  /\ Loads(config) \/ (phase = "ready" /\ config = DumpOf(seen))
  /\ code = CONFIG => ~Loads(config)

LEMMA LoadInit == Init => LoadInv
BY ReadsValues DEF Init, LoadInv, OK, CONFIG

LEMMA LoadStep == LoadInv /\ [Next]_vars => LoadInv'
<1> SUFFICES ASSUME LoadInv, [Next]_vars PROVE LoadInv'
  OBVIOUS
<1> USE DEF LoadInv, Exits, OK, FAILURE, CONFIG, DIFFERS
<1>1. ASSUME NEW what, Invoke(what) PROVE LoadInv'
  BY <1>1 DEF Invoke
<1>2. CASE Hear
  BY <1>2 DEF Hear
<1>3. CASE Quiet
  BY <1>3 DEF Quiet
<1>4. CASE Adopt
  BY <1>4 DEF Adopt
<1>5. CASE Apply
  BY <1>5 DEF Apply
<1>6. CASE Turn
  BY <1>6 DEF Turn
<1>7. CASE UNCHANGED vars
  BY <1>7 DEF vars
<1> QED
  BY <1>1, <1>2, <1>3, <1>4, <1>5, <1>6, <1>7 DEF Next

(* A dump of a device is a file that loads, whatever it lost and whatever a *)
(* hand did meanwhile: the one refused says of the last input that it is   *)
(* half of a pair, or of a pair that it is all but silent                  *)
(* (reconcile.routes_from_observed, config._parse_db).                     *)
THEOREM WorkingDevicesLoad == Spec => []WorkingDeviceLoads
<1>1. TypeInv /\ LoadInv => WorkingDeviceLoads
  <2> SUFFICES ASSUME TypeInv, LoadInv, code = CONFIG,
                      \A r \in MixEntries(seen) : ~Lonely(seen, r) /\ ~Faint(seen, r)
               PROVE  FALSE
    BY DEF WorkingDeviceLoads
  <2>1. IsReading(seen) /\ DOMAIN seen \subseteq Reg
    BY DEF TypeInv, Reported
  <2>2. Loads(DumpOf(seen))
    BY <2>1, DumpLoads
  <2> QED
    BY <2>2 DEF LoadInv
<1> QED
  BY <1>1, InitTyped, StepTyped, LoadInit, LoadStep, PTL DEF Spec

----------------------------------------------------------------------------
(* A dump of a desk that routes have made is the config of that desk.      *)

\* The device as a dump reports it.
Read(d) == [r \in Reported |-> d[r]]

\* The writes that leave a desk as it is.
Fixed(d) == {m \in [reg : Reported, args : Seq(Int)] : d[m.reg] = m.args /\ Stored(d, m) = d}

FixedRoutes(d) ==
  {q \in Routes : LinkMessages(q) \in Seq(Fixed(d)) /\ MixMessages(q) \in Seq(Fixed(d))}

LEMMA DeskIsRead ==
  ASSUME NEW d \in Desk
  PROVE  /\ IsReading(d) /\ DOMAIN d = Reg
         /\ IsReading(Read(d)) /\ DOMAIN Read(d) = Reported /\ DOMAIN Read(d) \subseteq Reg
         /\ MixEntries(Read(d)) = MixEntries(d)
         /\ \A r \in Reported : Read(d)[r] = d[r]
         /\ \A c : Linked(Read(d), "output", c) = Linked(d, "output", c)
<1>1. IsReading(d) /\ DOMAIN d = Reg
  BY DEF Desk
<1>2. DOMAIN Read(d) = Reported /\ Reported \subseteq Reg /\ \A r \in Reported : Read(d)[r] = d[r]
  BY DEF Read, Reported
<1>3. IsReading(Read(d))
  BY <1>1, <1>2 DEF IsReading
<1>4. MixEntries(Read(d)) = MixEntries(d)
  <2>1. \A r \in Reg : r[3] = "input" => r \in Reported
    BY DEF Reported, Reestablished
  <2>. QED
    BY <1>1, <1>2, <2>1 DEF MixEntries
<1>5. \A c : Linked(Read(d), "output", c) = Linked(d, "output", c)
  <2>. TAKE c
  <2>1. Stereo("output", Odd(c)) \in Reg <=> Stereo("output", Odd(c)) \in Reported
    BY KindsOfRegister DEF Reported, Reestablished
  <2>. QED
    BY <1>1, <1>2, <2>1 DEF Linked
<1>. QED
  BY <1>1, <1>2, <1>3, <1>4, <1>5

LEMMA LinkFixed ==
  ASSUME NEW d \in Desk, NEW k \in {"input", "output"}, NEW c, Stereo(k, c) \in Reg,
         NEW v, d[Stereo(k, c)] = <<v>>
  PROVE  Message(Stereo(k, c), <<v>>) \in Fixed(d)
<1>. DEFINE m == Message(Stereo(k, c), <<v>>)
<1>1. m.reg = Stereo(k, c) /\ m.args = <<v>> /\ m = [reg |-> Stereo(k, c), args |-> <<v>>]
  BY DEF Message
<1>2. Stereo(k, c) \in Reported /\ Stereo(k, c)[1] # "mix"
  BY KindsOfRegister DEF Reported, Reestablished
<1>3. <<v>> \in Seq(Int)
  BY DEF Desk
<1>4. Stored(d, m) = [d EXCEPT ![Stereo(k, c)] = <<v>>]
  BY <1>1, <1>2 DEF Stored
<1>5. [d EXCEPT ![Stereo(k, c)] = <<v>>] = d
  BY DEF Desk
<1>. QED
  BY <1>1, <1>2, <1>3, <1>4, <1>5 DEF Fixed

\* A cell that is its own, and not its pair's, is kept as it is.
LEMMA CellFixed ==
  ASSUME NEW d \in Desk, NEW r \in MixEntries(d),
         Linked(d, "output", r[2]) => Odd(r[2]) = r[2],
         Linked(d, "input", r[4]) => Odd(r[4]) = r[4]
  PROVE  Message(r, <<d[r][1], d[r][2]>>) \in Fixed(d)
<1>. DEFINE m == Message(r, d[r])
<1>1. IsReading(d) /\ DOMAIN d = Reg /\ DOMAIN d \subseteq Reg
  BY DeskIsRead
<1>2. /\ r = Cell(r[2], "input", r[4]) /\ d[r] = <<d[r][1], d[r][2]>>
      /\ d[r][1] \in Int /\ d[r][1] > LevelMin
  BY <1>1, CellOf
<1>3. r \in Reported /\ r[1] = "mix" /\ r[3] = "input" /\ r \in Reg /\ d[r] \in Seq(Int)
  BY <1>1 DEF MixEntries, Reported, Reestablished, Desk
<1>4. m.reg = r /\ m.args = d[r] /\ m = [reg |-> r, args |-> d[r]]
  BY DEF Message
<1>5. ~(d[r][1] <= LevelMin)
  BY <1>2 DEF LevelMin
<1>6. Stored(d, m) = [d EXCEPT ![r] = d[r]]
  <2>1. Stored(d, m) = [d EXCEPT ![Cell(IF Linked(d, "output", r[2]) THEN Odd(r[2]) ELSE r[2], r[3],
                                       IF Linked(d, r[3], r[4]) THEN Odd(r[4]) ELSE r[4])] = d[r]]
    BY <1>3, <1>4, <1>5 DEF Stored
  <2>. QED
    BY <2>1, <1>2, <1>3
<1>7. [d EXCEPT ![r] = d[r]] = d
  BY DEF Desk
<1>8. m \in Fixed(d)
  BY <1>3, <1>4, <1>6, <1>7 DEF Fixed
<1>. QED
  BY <1>2, <1>8

\* Not the odd cell of a pair that is not linked, or not the even one.
LeftSide(d, r)  == ~Linked(d, "output", r[2]) /\ r[2] % 2 = 1 /\ d[r][2] # 0
RightSide(d, r) == ~Linked(d, "output", r[2]) /\ r[2] % 2 = 0 /\ d[r][2] # 0

LEMMA OddAndEven ==
  ASSUME NEW c \in Nat, c # 0
  PROVE  /\ c % 2 = 1 => Odd(c) = c /\ Odd(c + 1) = c /\ (c + 1) % 2 = 0
         /\ c % 2 # 1 => c % 2 = 0 /\ c - 1 \in Nat /\ c - 1 # 0 /\ (c - 1) % 2 = 1
                         /\ Odd(c) = c - 1 /\ Odd(c - 1) = c - 1
BY DEF Odd

LEMMA LinkValue ==
  ASSUME NEW d \in Desk, NEW k \in {"input", "output"}, NEW c, Stereo(k, c) \in Reg
  PROVE  d[Stereo(k, c)] \in {<<0>>, <<1>>}
BY KindsOfRegister DEF Desk, IsReading, Holds

\* The route that stands for a cell says what the desk holds.
LEMMA PlainRoute ==
  ASSUME NEW d \in Desk, Plain(d), NEW r \in MixEntries(d), ~RightSide(d, r),
         NEW q \in Routes, RouteAt(Read(d), r) = <<q>>
  PROVE  /\ q \in FixedRoutes(d)
         /\ ~q.stereo => LeftSide(d, r)
<1>1. /\ IsReading(d) /\ DOMAIN d = Reg /\ DOMAIN d \subseteq Reg
      /\ IsReading(Read(d)) /\ DOMAIN Read(d) \subseteq Reg /\ MixEntries(Read(d)) = MixEntries(d)
      /\ Linked(Read(d), "output", r[2]) = Linked(d, "output", r[2])
  BY DeskIsRead
<1>2. r \in Reported /\ Read(d)[r] = d[r]
  <2>1. r \in Reported
    BY <1>1 DEF MixEntries, Reported, Reestablished
  <2>. QED
    BY <2>1, DeskIsRead
<1>3. /\ r[2] \in Nat /\ r[4] \in Nat /\ r[2] # 0 /\ r[4] # 0 /\ r = Cell(r[2], "input", r[4])
      /\ Stereo("output", Odd(r[2])) \in Reg /\ d[r] = <<d[r][1], d[r][2]>>
      /\ d[r][1] \in Int /\ d[r][2] \in Int /\ d[r][1] > LevelMin /\ d[r][1] <= LevelMax
  BY <1>1, CellOf
<1>4. \A p : <<q>> = <<p>> => q = p
  OBVIOUS
<1>5. NotInUse(d, r) \/ MonoRoute(d, r) \/ PairRoute(d, r)
  BY DEF Plain
<1>6. \A a \in Fixed(d) : <<a>> \in Seq(Fixed(d))
  OBVIOUS
<1>7. \A a \in Fixed(d) : \A b \in Fixed(d) : <<a, b>> \in Seq(Fixed(d))
  OBVIOUS
<1>8. \A s : s \in Seq(Fixed(d)) => s \o <<>> \in Seq(Fixed(d))
  OBVIOUS
<1>9. CASE /\ Linked(d, "output", r[2]) /\ r[2] % 2 = 1
           /\ q = Route(<<r[4], r[4] + 1>>, <<r[2], r[2] + 1>>, d[r][1], TRUE)
  <2>1. PairRoute(d, r)
    BY <1>5, <1>9 DEF NotInUse, MonoRoute
  <2>2. r[4] % 2 = 1 /\ Linked(d, "input", r[4]) /\ d[r][2] = 0
    BY <2>1, <1>9 DEF PairRoute
  <2>3. Odd(r[2]) = r[2] /\ Odd(r[4]) = r[4]
    BY <1>3, <1>9, <2>2, OddAndEven
  <2>4. /\ Stereo("input", r[4]) \in Reg /\ d[Stereo("input", r[4])] = <<1>>
        /\ Stereo("output", r[2]) \in Reg /\ d[Stereo("output", r[2])] = <<1>>
    BY <1>1, <1>9, <2>2, <2>3 DEF Linked
  <2>5. /\ Message(Stereo("input", r[4]), <<1>>) \in Fixed(d)
        /\ Message(Stereo("output", r[2]), <<1>>) \in Fixed(d)
    BY <2>4, LinkFixed
  <2>6. Message(r, <<d[r][1], 0>>) \in Fixed(d)
    BY <2>2, <2>3, CellFixed
  <2>7. /\ q.kind = "input" /\ q.source = <<r[4], r[4] + 1>> /\ q.output = <<r[2], r[2] + 1>>
        /\ q.level = d[r][1] /\ q.volume = NoVolume /\ q.stereo = TRUE
    BY <1>9 DEF Route
  <2>8. LinkMessages(q) = <<Message(Stereo("input", r[4]), <<1>>), Message(Stereo("output", r[2]), <<1>>)>>
    BY <2>7 DEF LinkMessages
  <2>9. MixMessages(q) = <<Message(r, <<d[r][1], 0>>)>> \o <<>>
    BY <1>3, <2>7 DEF MixMessages, VolumeMessages
  <2>. QED
    BY <1>6, <1>7, <1>8, <2>5, <2>6, <2>7, <2>8, <2>9 DEF FixedRoutes
<1>10. CASE /\ ~Linked(d, "output", r[2]) /\ d[r][2] \in {-100, 100}
            /\ q = Route(<<r[4], r[4] + 1>>, <<r[2], r[2] + 1>>, d[r][1] - UnlinkedGainOffset, FALSE)
  <2>1. LeftSide(d, r)
    <3>1. d[r][2] # 0
      BY <1>10
    <3>2. r[2] % 2 = 1
      BY <1>3, <1>10, <3>1, OddAndEven DEF RightSide
    <3>. QED
      BY <1>10, <3>1, <3>2 DEF LeftSide
  <2>2. PairRoute(d, r)
    BY <1>5, <1>10, <2>1 DEF NotInUse, MonoRoute, LeftSide
  <2>. DEFINE t == Cell(r[2] + 1, "input", r[4])
  <2>3. /\ r[4] % 2 = 1 /\ Linked(d, "input", r[4]) /\ d[r][2] = -100
        /\ t \in DOMAIN d /\ d[t] = <<d[r][1], 100>>
    BY <2>2, <1>10, <2>1 DEF PairRoute, LeftSide
  <2>4. /\ Odd(r[2]) = r[2] /\ Odd(r[4]) = r[4] /\ Odd(r[2] + 1) = r[2]
    BY <1>3, <2>1, <2>3, OddAndEven DEF LeftSide
  <2>5. Stereo("input", r[4]) \in Reg /\ d[Stereo("input", r[4])] = <<1>>
    BY <1>1, <2>3, <2>4 DEF Linked
  <2>6. Stereo("output", r[2]) \in Reg /\ d[Stereo("output", r[2])] = <<0>>
    <3>1. Stereo("output", r[2]) \in Reg /\ d[Stereo("output", r[2])] # <<1>>
      BY <1>1, <1>3, <1>10, <2>4 DEF Linked
    <3>. QED
      BY <3>1, LinkValue
  <2>7. /\ Message(Stereo("input", r[4]), <<1>>) \in Fixed(d)
        /\ Message(Stereo("output", r[2]), <<0>>) \in Fixed(d)
    BY <2>5, <2>6, LinkFixed
  <2>8. Message(r, <<d[r][1], -100>>) \in Fixed(d)
    BY <2>3, <2>4, CellFixed
  <2>9. Message(t, <<d[r][1], 100>>) \in Fixed(d)
    <3>1. t[1] = "mix" /\ t[2] = r[2] + 1 /\ t[3] = "input" /\ t[4] = r[4]
      BY KindsOfRegister
    <3>2. d[t][1] = d[r][1] /\ d[t][2] = 100
      BY <2>3
    <3>3. t \in MixEntries(d)
      BY <1>3, <2>3, <3>1, <3>2 DEF MixEntries
    <3>4. ~Linked(d, "output", t[2])
      BY <1>10, <2>4, <3>1 DEF Linked
    <3>. HIDE DEF t
    <3>. QED
      BY <2>4, <3>1, <3>2, <3>3, <3>4, CellFixed
  <2>10. /\ q.kind = "input" /\ q.source = <<r[4], r[4] + 1>> /\ q.output = <<r[2], r[2] + 1>>
         /\ q.level = d[r][1] - UnlinkedGainOffset /\ q.volume = NoVolume /\ q.stereo = FALSE
    BY <1>10 DEF Route
  <2>11. LinkMessages(q) = <<Message(Stereo("input", r[4]), <<1>>), Message(Stereo("output", r[2]), <<0>>)>>
    BY <2>10 DEF LinkMessages
  <2>12. Min0(q.level) + UnlinkedGainOffset = d[r][1]
    BY <1>3, <2>10 DEF Min0, UnlinkedGainOffset, LevelMax
  <2>13. MixMessages(q) = <<Message(r, <<d[r][1], -100>>), Message(t, <<d[r][1], 100>>)>> \o <<>>
    BY <1>3, <2>10, <2>12 DEF MixMessages, VolumeMessages
  <2>. HIDE DEF t
  <2>. QED
    BY <1>7, <1>8, <2>1, <2>7, <2>8, <2>9, <2>11, <2>13 DEF FixedRoutes
<1>11. CASE /\ ~Linked(d, "output", r[2]) /\ d[r][2] = 0
            /\ q = Route(<<r[4]>>, <<r[2]>>, d[r][1], TRUE)
  <2>1. MonoRoute(d, r)
    BY <1>5, <1>11 DEF NotInUse, PairRoute
  <2>2. Linked(d, "input", r[4]) => Odd(r[4]) = r[4]
    BY <1>3, <2>1, OddAndEven DEF MonoRoute
  <2>3. Message(r, <<d[r][1], 0>>) \in Fixed(d)
    BY <1>11, <2>2, CellFixed
  <2>4. /\ q.kind = "input" /\ q.source = <<r[4]>> /\ q.output = <<r[2]>>
        /\ q.level = d[r][1] /\ q.volume = NoVolume /\ q.stereo = TRUE
    BY <1>11 DEF Route
  <2>5. LinkMessages(q) = <<>>
    BY <2>4 DEF LinkMessages
  <2>6. MixMessages(q) = <<Message(r, <<d[r][1], 0>>)>> \o <<>>
    BY <1>3, <2>4 DEF MixMessages, VolumeMessages
  <2>7. <<>> \in Seq(Fixed(d))
    OBVIOUS
  <2>. QED
    BY <1>6, <1>8, <2>3, <2>4, <2>5, <2>6, <2>7 DEF FixedRoutes
<1>12. <<q>> # <<>>
  OBVIOUS
<1>13. r \in MixEntries(Read(d))
  BY <1>1
<1>14. \/ RouteAt(Read(d), r) = <<>>
       \/ /\ Linked(Read(d), "output", r[2]) /\ r[2] % 2 = 1
          /\ RouteAt(Read(d), r)
               = <<Route(<<r[4], r[4] + 1>>, <<r[2], r[2] + 1>>, Read(d)[r][1], TRUE)>>
       \/ /\ ~Linked(Read(d), "output", r[2]) /\ Read(d)[r][2] \in {-100, 100}
          /\ RouteAt(Read(d), r) = <<Route(<<r[4], r[4] + 1>>, <<r[2], r[2] + 1>>,
                                           Read(d)[r][1] - UnlinkedGainOffset, FALSE)>>
       \/ /\ ~Linked(Read(d), "output", r[2]) /\ Read(d)[r][2] = 0
          /\ RouteAt(Read(d), r) = <<Route(<<r[4]>>, <<r[2]>>, Read(d)[r][1], TRUE)>>
  BY <1>1, <1>13, RouteShapes, Zenon
<1>15. \/ /\ Linked(d, "output", r[2]) /\ r[2] % 2 = 1
          /\ q = Route(<<r[4], r[4] + 1>>, <<r[2], r[2] + 1>>, d[r][1], TRUE)
       \/ /\ ~Linked(d, "output", r[2]) /\ d[r][2] \in {-100, 100}
          /\ q = Route(<<r[4], r[4] + 1>>, <<r[2], r[2] + 1>>, d[r][1] - UnlinkedGainOffset, FALSE)
       \/ /\ ~Linked(d, "output", r[2]) /\ d[r][2] = 0
          /\ q = Route(<<r[4]>>, <<r[2]>>, d[r][1], TRUE)
  BY <1>1, <1>2, <1>4, <1>12, <1>14, Zenon
<1>. QED
  BY <1>9, <1>10, <1>11, <1>15

\* The right side of a pair comes after its left side.
LEMMA LeftComesFirst ==
  ASSUME NEW d \in Desk, Plain(d), NEW i \in DOMAIN Matrix, Matrix[i] \in MixEntries(d),
         RightSide(d, Matrix[i])
  PROVE  \E j \in DOMAIN Matrix :
           /\ j < i /\ Matrix[j] \in MixEntries(d) /\ LeftSide(d, Matrix[j])
           /\ Matrix[i] = Cell(Matrix[j][2] + 1, "input", Matrix[j][4])
<1>. DEFINE r == Matrix[i]
            t == Cell(r[2] - 1, "input", r[4])
<1>1. IsReading(d) /\ DOMAIN d = Reg /\ DOMAIN d \subseteq Reg
  BY DeskIsRead
<1>2. /\ r[2] \in Nat /\ r[4] \in Nat /\ r[2] # 0 /\ r = Cell(r[2], "input", r[4])
      /\ d[r][1] \in Int /\ d[r][1] > LevelMin
  <2>. HIDE DEF r
  <2>. QED
    BY <1>1, CellOf DEF r
<1>3. PairRoute(d, r)
  BY DEF Plain, NotInUse, MonoRoute, RightSide
<1>4. t \in DOMAIN d /\ d[t] = <<d[r][1], -100>>
  BY <1>3 DEF PairRoute, RightSide
<1>5. t[1] = "mix" /\ t[2] = r[2] - 1 /\ t[3] = "input" /\ t[4] = r[4]
  BY KindsOfRegister
<1>6. r[2] - 1 \in Nat /\ (r[2] - 1) % 2 = 1 /\ Odd(r[2] - 1) = Odd(r[2])
  BY <1>2, OddAndEven DEF RightSide
<1>7. t \in MixEntries(d)
  BY <1>2, <1>4, <1>5 DEF MixEntries
<1>8. ~Linked(d, "output", r[2]) /\ d[r][2] # 0
  BY DEF RightSide
<1>9. LeftSide(d, t)
  BY <1>4, <1>5, <1>6, <1>8 DEF LeftSide, Linked
<1>10. PICK j \in DOMAIN Matrix : Matrix[j] = t
  <2>. HIDE DEF t
  <2>. QED
    BY <1>1, <1>7, CellOf
<1>11. r = Cell(t[2] + 1, "input", t[4])
  BY <1>2, <1>5
<1>12. j < i
  <2>1. i \in Nat /\ j \in Nat
    BY ReadsMatrix
  <2>2. ~(i < j)
    <3>1. SUFFICES ASSUME i < j PROVE FALSE
      OBVIOUS
    <3>2. Before(r, t)
      BY <1>10, <3>1, ReadsMatrix
    <3>. QED
      BY <1>2, <1>5, <3>2 DEF Before
  <2>3. i # j
    BY <1>2, <1>5, <1>10
  <2>. QED
    BY <2>1, <2>2, <2>3
<1>. HIDE DEF t
<1>. QED
  BY <1>7, <1>9, <1>10, <1>11, <1>12

WalkInv(d, k, done) ==
  /\ done.routes \in Seq(FixedRoutes(d))
  /\ \A r \in done.claimed : r[2] % 2 = 0
  /\ \A i \in 1 .. k : Matrix[i] \in MixEntries(d) /\ LeftSide(d, Matrix[i]) =>
       Cell(Matrix[i][2] + 1, "input", Matrix[i][4]) \in done.claimed

LEMMA WalkStep ==
  ASSUME NEW d \in Desk, Plain(d), NEW k \in Nat, k + 1 \in DOMAIN Matrix,
         NEW done, WalkInv(d, k, done)
  PROVE  WalkInv(d, k + 1, Walk(Read(d), done, Matrix[k + 1]))
<1>. DEFINE r == Matrix[k + 1]
            found == RouteAt(Read(d), r)
            more == IF found # <<>> /\ ~found[1].stereo
                    THEN done.claimed \union {Cell(r[2] + 1, "input", r[4])} ELSE done.claimed
            twin == Cell(r[2] + 1, "input", r[4])
<1>1. /\ IsReading(d) /\ DOMAIN d = Reg /\ DOMAIN d \subseteq Reg
      /\ IsReading(Read(d)) /\ DOMAIN Read(d) \subseteq Reg /\ MixEntries(Read(d)) = MixEntries(d)
  BY DeskIsRead
<1>2. \A i \in 1 .. k + 1 : i \in 1 .. k \/ i = k + 1
  OBVIOUS
<1>3. CASE r \notin MixEntries(d)
  <2>1. Walk(Read(d), done, r) = done
    BY <1>1, <1>3 DEF Walk
  <2>. QED
    BY <1>2, <1>3, <2>1 DEF WalkInv
<1>4. CASE r \in done.claimed
  <2>1. Walk(Read(d), done, r) = done
    BY <1>4 DEF Walk
  <2>2. ~LeftSide(d, r)
    BY <1>4 DEF WalkInv, LeftSide
  <2>. QED
    BY <1>2, <2>1, <2>2 DEF WalkInv
<1>5. CASE r \in MixEntries(d) /\ r \notin done.claimed
  <2>1. Walk(Read(d), done, r) = [routes |-> done.routes \o found, claimed |-> more]
    BY <1>1, <1>5 DEF Walk
  <2>2. ~RightSide(d, r)
    <3>1. SUFFICES ASSUME RightSide(d, r) PROVE FALSE
      OBVIOUS
    <3>2. PICK j \in DOMAIN Matrix :
            /\ j < k + 1 /\ Matrix[j] \in MixEntries(d) /\ LeftSide(d, Matrix[j])
            /\ r = Cell(Matrix[j][2] + 1, "input", Matrix[j][4])
      BY <1>5, <3>1, LeftComesFirst
    <3>3. j \in 1 .. k
      BY <3>2, ReadsMatrix
    <3>. QED
      BY <1>5, <3>2, <3>3 DEF WalkInv
  <2>3. found = <<>> \/ \E q \in Dumpable(Read(d)) : found = <<q>>
    <3>. HIDE DEF r
    <3>. QED
      BY <1>1, <1>5, RouteAtTyped
  <2>4. ASSUME NEW q, q \in Dumpable(Read(d)), found = <<q>>
        PROVE  q \in FixedRoutes(d) /\ (~q.stereo => LeftSide(d, r))
    <3>. HIDE DEF r
    <3>. QED
      BY <1>5, <2>2, <2>4, PlainRoute DEF Dumpable
  <2>5. r[2] \in Nat /\ r[2] # 0 /\ twin[2] = r[2] + 1 /\ (r[2] % 2 = 1 => (r[2] + 1) % 2 = 0)
    <3>1. r[2] \in Nat /\ r[2] # 0
      <4>. HIDE DEF r
      <4>. QED
        BY <1>1, <1>5, CellOf
    <3>. QED
      BY <3>1, KindsOfRegister, OddAndEven
  <2>6. done.routes \o found \in Seq(FixedRoutes(d))
    <3>. DEFINE D == FixedRoutes(d)
    <3>1. found = <<>> \/ \E q \in D : found = <<q>>
      BY <2>3, <2>4
    <3>2. done.routes \in Seq(D)
      BY DEF WalkInv
    <3>. HIDE DEF D, found
    <3>3. found \in Seq(D)
      <4>1. \A q \in D : <<q>> \in Seq(D)
        OBVIOUS
      <4>2. <<>> \in Seq(D)
        OBVIOUS
      <4>. QED
        BY <3>1, <4>1, <4>2, Zenon
    <3>4. done.routes \o found \in Seq(D)
      BY <3>2, <3>3
    <3>. QED
      BY <3>4 DEF D
  <2>7. LeftSide(d, r) => found # <<>> /\ ~found[1].stereo
    <3>1. SUFFICES ASSUME LeftSide(d, r) PROVE found # <<>> /\ ~found[1].stereo
      OBVIOUS
    <3>2. PairRoute(d, r)
      BY <1>5, <3>1 DEF Plain, NotInUse, MonoRoute, LeftSide
    <3>3. twin \in DOMAIN d /\ d[twin] = <<d[r][1], 100>> /\ d[r][2] = -100
      BY <3>1, <3>2 DEF PairRoute, LeftSide
    <3>4. twin[1] = "mix" /\ twin[3] = "input" /\ d[r][1] > LevelMin
      BY <1>5, KindsOfRegister DEF MixEntries
    <3>5. twin \in MixEntries(Read(d))
      BY <1>1, <3>3, <3>4 DEF MixEntries
    <3>6. Read(d)[r] = d[r] /\ ~Linked(Read(d), "output", r[2])
      <4>1. r \in Reported
        BY <1>1, <1>5 DEF MixEntries, Reported, Reestablished
      <4>. QED
        BY <3>1, <4>1, DeskIsRead DEF LeftSide
    <3>7. found = <<Route(<<r[4], r[4] + 1>>, <<r[2], r[2] + 1>>,
                          Read(d)[r][1] - UnlinkedGainOffset, FALSE)>>
      <4>. HIDE DEF r, twin
      <4>. QED
        BY <3>3, <3>5, <3>6 DEF RouteAt, twin
    <3>. QED
      BY <3>7 DEF Route
  <2>8. /\ \A c \in more : c[2] % 2 = 0
        /\ done.claimed \subseteq more
        /\ LeftSide(d, r) => twin \in more
    <3>1. found # <<>> /\ ~found[1].stereo => LeftSide(d, r)
      <4>. HIDE DEF found
      <4>. QED
        BY <2>3, <2>4
    <3>2. found # <<>> /\ ~found[1].stereo => twin[2] % 2 = 0
      BY <3>1, <2>5 DEF LeftSide
    <3>3. \A c \in done.claimed : c[2] % 2 = 0
      BY DEF WalkInv
    <3>4. more = IF found # <<>> /\ ~found[1].stereo THEN done.claimed \union {twin} ELSE done.claimed
      OBVIOUS
    <3>. HIDE DEF found, twin, more, r
    <3>. QED
      BY <2>7, <3>2, <3>3, <3>4
  <2>. HIDE DEF found, more
  <2>9. \A i \in 1 .. k + 1 : Matrix[i] \in MixEntries(d) /\ LeftSide(d, Matrix[i]) =>
          Cell(Matrix[i][2] + 1, "input", Matrix[i][4]) \in more
    BY <1>2, <2>8 DEF WalkInv
  <2>10. /\ Walk(Read(d), done, r).routes = done.routes \o found
         /\ Walk(Read(d), done, r).claimed = more
    BY <2>1
  <2>. HIDE DEF r
  <2>11. WalkInv(d, k + 1, Walk(Read(d), done, r))
    BY <2>6, <2>8, <2>9, <2>10 DEF WalkInv
  <2>. QED
    BY <2>11 DEF r
<1>. QED
  BY <1>3, <1>4, <1>5

LEMMA PlainRoutes ==
  ASSUME NEW d \in Desk, Plain(d)
  PROVE  RoutesFromObserved(Read(d)) \in Seq(FixedRoutes(d))
<1>. DEFINE n == Len(Matrix)
            X == [routes : Seq(Dumpable(Read(d))), claimed : SUBSET Claims]
<1>1. [routes |-> <<>>, claimed |-> {}] \in X
  OBVIOUS
<1>2. DOMAIN Matrix = 1 .. n /\ n \in Nat
  BY ReadsMatrix
<1>3. \A e \in X : \A i \in 1 .. n : Walk(Read(d), e, Matrix[i]) \in X
  BY WalkTyped, DeskIsRead
<1>. HIDE DEF X
<1>4. PICK h : WalkSteps(h, Read(d), n, X)
  BY <1>1, <1>2, <1>3, WalkInSteps
<1>. DEFINE T == {k \in 0 .. n : WalkInv(d, k, h[k])}
<1>5. 0 \in T
  <2>1. h[0].routes = <<>> /\ h[0].claimed = {}
    BY <1>4 DEF WalkSteps
  <2>2. WalkInv(d, 0, h[0])
    BY <2>1 DEF WalkInv
  <2>. QED
    BY <1>2, <2>2
<1>6. ASSUME NEW k \in 0 .. n, k \in T, k < n PROVE k + 1 \in T
  <2>1. k + 1 \in DOMAIN Matrix /\ k \in Nat /\ k + 1 \in 0 .. n
    BY <1>2, <1>6
  <2>2. h[k + 1] = Walk(Read(d), h[k], Matrix[k + 1])
    BY <1>4, <1>6 DEF WalkSteps
  <2>3. WalkInv(d, k + 1, h[k + 1])
    BY <1>6, <2>1, <2>2, WalkStep
  <2>. QED
    BY <2>1, <2>3
<1>7. n \in T
  <2>. HIDE DEF T
  <2>1. \A k \in 0 .. n : k \in T
    BY <1>2, <1>5, <1>6, UpTo
  <2>. QED
    BY <1>2, <2>1
<1>. QED
  BY <1>4, <1>7 DEF WalkSteps, WalkInv

\* Every write of the config that a plain desk is dumped as is what the desk
\* holds.
LEMMA PlainWrites ==
  ASSUME NEW d \in Desk, Plain(d)
  PROVE  Desired(DumpOf(Read(d))) \in Seq(Fixed(d))
<1>. DEFINE file == DumpOf(Read(d))
            M == {Message(r, Read(d)[r]) : r \in Live(Read(d))}
            F == Fixed(d)
<1>1. file.routes \in Seq(FixedRoutes(d))
  BY PlainRoutes DEF DumpOf
<1>2. \A i \in DOMAIN file.routes :
        LinkMessages(file.routes[i]) \in Seq(F) /\ MixMessages(file.routes[i]) \in Seq(F)
  <2>1. \A i \in DOMAIN file.routes : file.routes[i] \in FixedRoutes(d)
    BY <1>1
  <2>. QED
    BY <2>1 DEF FixedRoutes
<1>3. ASSUME NEW r \in Live(Read(d)) PROVE Message(r, Read(d)[r]) \in F
  <2>1. r \in Reported /\ r \in Reg /\ r[1] # "mix" /\ Read(d)[r] = d[r]
    BY ReadsConstants, DeskIsRead DEF Live, Reported
  <2>2. d[r] \in Seq(Int) /\ [d EXCEPT ![r] = d[r]] = d
    BY <2>1 DEF Desk
  <2>3. Message(r, d[r]).reg = r /\ Message(r, d[r]).args = d[r]
        /\ Message(r, d[r]) \in [reg : Reported, args : Seq(Int)]
    BY <2>1, <2>2 DEF Message
  <2>4. Stored(d, Message(r, d[r])) = d
    BY <2>1, <2>2, <2>3 DEF Stored
  <2>. QED
    BY <2>1, <2>3, <2>4 DEF Fixed
<1>4. file.channels \in Seq(F)
  <2>1. M \subseteq F
    BY <1>3
  <2>2. file.channels \in Seq(M)
    BY SettingsOfDump
  <2>. HIDE DEF M, F, file
  <2>. QED
    BY <2>1, <2>2
<1>. HIDE DEF file, F
<1>5. Desired(file) \in Seq(F)
  BY <1>1, <1>2, <1>4, DesiredTyped
<1>. QED
  BY <1>5 DEF file, F

\* So it is not changed when it is applied, and --diff has nothing to list.
LEMMA PlainStays ==
  ASSUME NEW d \in Desk, Plain(d)
  PROVE  /\ AppliedTo(d, DumpOf(Read(d))) = d
         /\ Differing(DumpOf(Read(d)), Read(d)) = {}
<1>. DEFINE msgs == Desired(DumpOf(Read(d)))
<1>1. msgs \in Seq(Fixed(d))
  BY PlainWrites
<1>2. DOMAIN msgs = 1 .. Len(msgs) /\ Len(msgs) \in Nat /\ \A i \in 1 .. Len(msgs) : msgs[i] \in Fixed(d)
  <2>. HIDE DEF msgs
  <2>. QED
    BY <1>1
<1>3. FoldLeft(Stored, d, msgs) \in {d}
  <2>1. \A e \in {d} : \A i \in 1 .. Len(msgs) : Stored(e, msgs[i]) \in {d}
    BY <1>2 DEF Fixed
  <2>2. d \in {d}
    OBVIOUS
  <2>. HIDE DEF msgs
  <2>. QED
    BY <1>2, <2>1, <2>2, StoredCloses
<1>4. AppliedTo(d, DumpOf(Read(d))) = d
  BY <1>3, Zenon DEF AppliedTo
<1>5. ASSUME NEW m \in ToSet(msgs) PROVE ~Differs(m, Read(d))
  <2>1. m \in Fixed(d)
    <3>. HIDE DEF msgs
    <3>. QED
      BY <1>2 DEF ToSet
  <2>2. m.reg \in DOMAIN Read(d) /\ m.args = Read(d)[m.reg]
    BY <2>1, DeskIsRead DEF Fixed
  <2>. QED
    BY <2>2 DEF Differs, Matches
<1>6. Differing(DumpOf(Read(d)), Read(d)) = {}
  BY <1>5 DEF Differing
<1>. QED
  BY <1>4, <1>6

\* What was heard, if nothing was lost and nothing moved, is the device; and
\* the file of which that is said is the dump of it.
TripInv ==
  /\ phase = "reading" /\ whole /\ moved = {} => \A r \in DOMAIN seen : seen[r] = dev[r]
  /\ faithful /\ plain => Plain(dev) /\ config = DumpOf(Read(dev))
  /\ phase = "ready" /\ command = "dump" /\ code = OK /\ whole /\ moved = {} =>
       dumped = DumpOf(Read(dev))
  /\ SameDeskReadAgain /\ plain /\ command = "diff" => code # DIFFERS
  /\ whole \in BOOLEAN /\ faithful \in BOOLEAN /\ plain \in BOOLEAN
  /\ RestIsComing

LEMMA TripInit == Init => TripInv
BY Zenon DEF Init, TripInv, SameDeskReadAgain, RestIsComing, OK, DIFFERS

\* A read that lost nothing of a desk nobody touched is the whole of it.
LEMMA WholeRead ==
  ASSUME TypeInv, TripInv, phase = "reading", whole, coming = <<>>, moved = {}
  PROVE  seen = Read(dev)
<1>1. \A r \in Reported : r \in DOMAIN seen
  BY DEF TripInv, RestIsComing
<1>2. DOMAIN seen = Reported
  BY <1>1 DEF TypeInv
<1>3. \A r \in Reported : seen[r] = dev[r]
  BY <1>2 DEF TripInv
<1>4. seen = [r \in Reported |-> seen[r]]
  BY <1>2 DEF TypeInv
<1>. QED
  BY <1>3, <1>4 DEF Read

LEMMA TripStep == TypeInv /\ IInv /\ TripInv /\ [Next]_vars => TripInv'
<1> SUFFICES ASSUME TypeInv, IInv, TripInv, [Next]_vars PROVE TripInv'
  OBVIOUS
<1>0. RestIsComing'
  BY StepHolds DEF IInv
<1>1. ASSUME NEW what \in {"dump", "diff"}, Invoke(what) PROVE TripInv'
  <2>1. /\ UNCHANGED <<dev, config, dumped, faithful, plain>> /\ phase = "ready" /\ command' = what
        /\ \/ /\ phase' = "ready" /\ code' \in {CONFIG, FAILURE} /\ UNCHANGED <<seen, moved, whole>>
           \/ /\ phase' = "reading" /\ seen' = NothingHeard /\ whole' \in BOOLEAN
    BY <1>1, Zenon DEF Invoke, Exits
  <2>. QED
    BY <1>0, <2>1 DEF TripInv, SameDeskReadAgain, NothingHeard, OK, FAILURE, CONFIG, DIFFERS
<1>2. CASE Hear
  <2>1. PICK gone : /\ seen' = AlsoHeard(Head(coming) \ gone, dev)
                    /\ whole' = (whole /\ gone = {})
    BY <1>2 DEF Hear
  <2>2. /\ phase = "reading" /\ phase' = "reading"
        /\ UNCHANGED <<dev, config, command, code, dumped, moved, faithful, plain>>
    BY <1>2 DEF Hear
  <2>3. whole' /\ moved' = {} => \A r \in DOMAIN seen' : seen'[r] = dev[r]
    BY <2>1, <2>2 DEF TripInv, AlsoHeard
  <2>4. whole' \in BOOLEAN
    BY <2>1
  <2>. QED
    BY <1>0, <2>2, <2>3, <2>4 DEF TripInv, SameDeskReadAgain
<1>3. CASE Quiet
  <2>1. /\ phase = "reading" /\ phase' = "ready" /\ whole' = (whole /\ coming = <<>>)
        /\ UNCHANGED <<dev, config, command, seen, moved, faithful, plain>>
        /\ command = "dump" /\ code' = OK => dumped' = DumpOf(seen)
        /\ command = "diff" /\ code' = DIFFERS => Differing(config, seen) # {}
    BY <1>3 DEF Quiet, Exits, OK, FAILURE, DIFFERS
  <2>2. whole' /\ moved' = {} => seen = Read(dev)
    BY <2>1, WholeRead
  <2>3. faithful /\ plain /\ whole' /\ moved' = {} /\ command = "diff" => code' # DIFFERS
    <3>1. SUFFICES ASSUME faithful, plain, whole', moved' = {}, command = "diff", code' = DIFFERS
                   PROVE  FALSE
      OBVIOUS
    <3>2. dev \in Desk /\ Plain(dev) /\ config = DumpOf(Read(dev)) /\ seen = Read(dev)
      BY <2>2, <3>1 DEF TripInv, TypeInv
    <3>3. Differing(config, seen) = {}
      BY <3>2, PlainStays
    <3>. QED
      BY <2>1, <3>1, <3>3
  <2>4. whole' \in BOOLEAN
    BY <2>1
  <2>. QED
    BY <1>0, <2>1, <2>2, <2>3, <2>4 DEF TripInv, SameDeskReadAgain
<1>4. CASE Adopt
  <2>1. /\ phase = "ready" /\ command = "dump" /\ code = OK
        /\ config' = dumped /\ faithful' = (whole /\ moved = {}) /\ plain' = Plain(dev)
        /\ UNCHANGED <<dev, command, phase, seen, code, dumped, moved, whole>>
    BY <1>4 DEF Adopt
  <2>2. faithful' \in BOOLEAN /\ plain' \in BOOLEAN
    BY <2>1 DEF Plain
  <2>3. faithful' /\ plain' => Plain(dev') /\ config' = DumpOf(Read(dev'))
    BY <2>1 DEF TripInv
  <2>. QED
    BY <1>0, <2>1, <2>2, <2>3 DEF TripInv, SameDeskReadAgain
<1>5. CASE Apply
  <2>1. /\ phase = "ready" /\ dev' = AppliedTo(dev, config) /\ command' = "apply" /\ code' = OK
        /\ UNCHANGED <<config, phase, seen, dumped, moved, whole, faithful, plain>>
    BY <1>5 DEF Apply
  <2>2. faithful /\ plain => dev' = dev
    BY <2>1, PlainStays DEF TripInv, TypeInv
  <2>. QED
    BY <1>0, <2>1, <2>2 DEF TripInv, SameDeskReadAgain
<1>6. CASE Turn
  <2>1. /\ moved' # {} /\ faithful' = FALSE
        /\ UNCHANGED <<config, command, phase, code, dumped, whole, plain>>
    BY <1>6 DEF Turn
  <2>. QED
    BY <1>0, <2>1 DEF TripInv, SameDeskReadAgain
<1>7. CASE UNCHANGED vars
  BY <1>0, <1>7 DEF vars, TripInv, SameDeskReadAgain
<1> QED
  BY <1>1, <1>2, <1>3, <1>4, <1>5, <1>6, <1>7 DEF Next

(* The round trip is a fixed point on every desk all of whose cells are     *)
(* those of routes, of whatever size and held at whatever levels: the dump  *)
(* of it differs from it in nothing, does not change it when it is applied, *)
(* and is dumped again word for word (reconcile.routes_from_observed).     *)
THEOREM RoundTrip == Spec => []DumpDescribesDesk
<1>1. TripInv => DumpDescribesDesk
  <2> SUFFICES ASSUME TripInv, SameDeskReadAgain, plain PROVE Agrees
    BY DEF DumpDescribesDesk
  <2> QED
    BY DEF TripInv, SameDeskReadAgain, Agrees
<1>2. Init => IInv
  BY InitHolds
<1>3. IInv /\ [Next]_vars => IInv'
  BY StepHolds
<1> QED
  BY <1>1, <1>2, <1>3, InitTyped, StepTyped, TripInit, TripStep, PTL DEF Spec

=============================================================================
