----------------------------- MODULE WriteSweepMC -----------------------------
(***************************************************************************)
(* A small device for WriteSweep: a linked pair of faders, a switch, a     *)
(* register that takes no write, one whose device stops short of the       *)
(* declared bound, two integer registers of a few positions (the crossfeed *)
(* and the slope of the low cut), one without a declared range, an enum,   *)
(* and a reference level nobody writes.                                    *)
(***************************************************************************)
EXTENDS WriteSweep

Number(tag, lo, hi, channel) ==
  [domain |-> "number", tag |-> tag, bounded |-> TRUE, lo |-> lo * Unit, hi |-> hi * Unit,
   wire |-> <<>>, channel |-> channel, dangerous |-> FALSE]
Names(domain, wire, channel, dangerous) ==
  [domain |-> domain, tag |-> "i", bounded |-> FALSE, lo |-> 0, hi |-> 0, wire |-> wire,
   channel |-> channel, dangerous |-> dangerous]

Order == <<"crossfeed", "dim", "fader3", "fader4", "reflevel", "roomeq", "short", "slope",
           "source", "width">>
MCReg == {Order[i] : i \in DOMAIN Order}

MCKind ==
  [r \in MCReg |->
     IF r = "fader3" THEN Number("f", 0, 100, 3)
     ELSE IF r = "fader4" THEN Number("f", 0, 100, 4)
     ELSE IF r = "roomeq" THEN Number("f", 0, 100, 4)
     ELSE IF r = "short" THEN Number("f", 0, 100, 3)
     ELSE IF r = "crossfeed" THEN Number("i", 0, 5, 7)
     ELSE IF r = "slope" THEN Number("i", 0, 3, 4)
     ELSE IF r = "width" THEN [Number("f", 0, 0, 0) EXCEPT !.bounded = FALSE]
     ELSE IF r = "source" THEN Names("enum", <<0, Unit, -Unit>>, 0, FALSE)
     ELSE Names("bool", <<>>, IF r = "dim" THEN 0 ELSE 3, r = "reflevel")]

Takes1(takes, grain, top, partner) ==
  [takes |-> takes, grain |-> grain * Unit, top |-> top * Unit, partner |-> partner]

MCDevice ==
  [r \in MCReg |->
     IF r = "fader3" THEN Takes1("all", 4, 100, "fader4")
     ELSE IF r = "fader4" THEN Takes1("all", 4, 100, "fader3")
     ELSE IF r = "roomeq" THEN Takes1("none", 1, 100, r)
     ELSE IF r = "short" THEN Takes1("up to top", 1, 30, r)
     ELSE IF r = "width" THEN Takes1("below top only", 1, 1, r)
     ELSE Takes1("all", 1, 100, r)]

State(odd, even) ==
  [r \in MCReg |-> Unit * (IF r = "fader3" THEN odd ELSE IF r = "fader4" THEN even
                           ELSE IF r = "short" THEN 20 ELSE IF r = "crossfeed" THEN 1 ELSE 0)]

MCInitial == {State(0, 0), State(80, 80), State(0, 40)}

Probed == <<"dim", "source", "width", "fader3", "short", "crossfeed", "fader4", "roomeq", "slope",
            "reflevel">>

\* What the theorem about the restoring supposes.
ASSUME TakesItBackHere == TakesItBack

Multiples(grain, lo, hi) == {v * Unit : v \in {v \in lo .. hi : v % grain = 0}}

\* What the theorem about "clamped" supposes: the values each register may come
\* to hold.
AnyValue ==
  [r \in MCReg |->
     IF r \in {"fader3", "fader4"} THEN Multiples(4, 0, 100)
     ELSE IF r = "short" THEN Multiples(1, 20, 30)
     ELSE IF r = "crossfeed" THEN Multiples(1, 0, 5)
     ELSE IF r = "slope" THEN Multiples(1, 0, 3)
     ELSE IF r = "roomeq" THEN {0}
     ELSE IF r = "source" THEN Multiples(1, -1, 1) ELSE Multiples(1, 0, 1)]

ASSUME VerdictsHere == PairsAcrossPasses /\ HoldsOnly(AnyValue) /\ RoundsCleanly(AnyValue)
=============================================================================
