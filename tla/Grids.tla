-------------------------------- MODULE Grids --------------------------------
(***************************************************************************)
(* Control signals on declared time grids (utils/control_tools.py).  Each  *)
(* operation makes new controls out of given ones; one that raises makes   *)
(* none, so its conditions are guards.                                     *)
(*                                                                         *)
(* Times and samples are integers, the samples multiples of a power of two *)
(* so that the interpolations of an instance are exact.  The sample        *)
(* arithmetic of normalize, smooth and filter is left out: these keep      *)
(* grid and layout as scale does.                                          *)
(***************************************************************************)
EXTENDS Integers, Sequences, FiniteSets, Functions, FiniteSetsExt, SequencesExt

CONSTANTS
    None,
    Inputs,         \* pairs of controls to start from
    Targets,        \* grids to resample to
    Bound,          \* clipping bound
    MaxItems

VARIABLE
    items           \* the controls made so far

Init == items \in Inputs

---------------------------------------------------------------------------
(* ControlGrid *)

ControlGrid(times, start, stop, placement) ==
    [times |-> times, start |-> start, stop |-> stop, placement |-> placement]

First(s) == s[1]
Dim(g) == Len(g.times)

ValidGrid(g) ==
    LET t == g.times IN
    /\ Len(t) >= 2 /\ g.start < g.stop
    /\ \A i \in 1..(Len(t) - 1) : t[i] < t[i + 1]
    /\ CASE g.placement = "nodes" -> First(t) = g.start /\ Last(t) = g.stop
         [] g.placement = "left_cells" -> First(t) = g.start /\ Last(t) < g.stop
         [] g.placement = "cell_centers" -> First(t) > g.start /\ Last(t) < g.stop

Spacing(g) ==
    LET step == g.times[2] - g.times[1] IN
    IF \A i \in 1..(Dim(g) - 1) : g.times[i + 1] - g.times[i] = step THEN step ELSE None

uniform_control_grid(start, stop, count, placement) ==
    LET cell == (stop - start) \div count IN
    ControlGrid([i \in 1..count |->
                    CASE placement = "nodes" -> start + ((i - 1) * (stop - start)) \div (count - 1)
                      [] placement = "left_cells" -> start + (i - 1) * cell
                      [] placement = "cell_centers" -> start + (i - 1) * cell + cell \div 2],
                start, stop, placement)

\* The weight of each sample in an integral over the interval, doubled.
Quadrature(g) ==
    LET t == g.times n == Dim(g)
        edge(i) == CASE i = 0 -> 2 * g.start [] i = n -> 2 * g.stop [] OTHER -> t[i] + t[i + 1] IN
    [i \in 1..n |->
        CASE g.placement = "nodes" ->
                (IF i > 1 THEN t[i] - t[i - 1] ELSE 0) + (IF i < n THEN t[i + 1] - t[i] ELSE 0)
          [] g.placement = "left_cells" -> 2 * ((IF i < n THEN t[i + 1] ELSE g.stop) - t[i])
          [] g.placement = "cell_centers" -> edge(i) - edge(i - 1)]

Integral(c, k) ==
    LET w == Quadrature(c.grid) IN FoldFunction(+, 0, [i \in 1..Dim(c.grid) |-> w[i] * c.u[k][i]])

---------------------------------------------------------------------------
(* Controls: keys in order, samples u of each, the spec's dt and scales,   *)
(* the grid kept in meta, and what they were made of.                      *)

Controls(keys, u, dt, scales, grid, made, of) ==
    [keys |-> keys, u |-> u, dt |-> dt, scales |-> scales, grid |-> grid, made |-> made, of |-> of]

Count(c) == Len(c.u[First(c.keys)])

\* _grid: the descriptor is valid, counts the samples, and contradicts neither
\* the stored one nor dt.
Fits(c, g) ==
    /\ ValidGrid(g) /\ Dim(g) = Count(c)
    /\ c.grid \in {None, g}
    /\ c.dt # None => Spacing(g) = c.dt
Grids(c) == {g \in Targets \cup (IF c.grid = None THEN {} ELSE {c.grid}) : Fits(c, g)}
Kept(c) == c.grid # None => Fits(c, c.grid)

\* _validate_control_spec_compatibility
Compatible(a, b) == a.keys = b.keys /\ Count(a) = Count(b) /\ a.dt = b.dt /\ a.scales = b.scales

Source(c) == [c EXCEPT !.of = <<>>]
Made(c) == items' = Append(items, c)
Room == Len(items) < MaxItems
Item == Range(items)

---------------------------------------------------------------------------
(* Transforms of one signal *)

Line(x, v, i, y) == v[i] + ((y - x[i]) * (v[i + 1] - v[i])) \div (x[i + 1] - x[i])

\* np.interp holds the end samples outside; "linear" extends the end pieces.
At(x, v, y, extrapolation) ==
    LET n == Len(x) IN
    CASE y < x[1] -> IF extrapolation = "linear" THEN Line(x, v, 1, y) ELSE v[1]
      [] y > x[n] -> IF extrapolation = "linear" THEN Line(x, v, n - 1, y) ELSE v[n]
      [] OTHER -> LET i == Min({n - 1, Max({j \in 1..n : x[j] <= y})}) IN Line(x, v, i, y)

Resampled(c, source, target, dt, extrapolation) ==
    Controls(c.keys, [k \in ToSet(c.keys) |-> [j \in 1..Dim(target) |->
                          At(source.times, c.u[k], target.times[j], extrapolation)]],
             dt, "ones", target, "resample", <<Source(c)>>)

\* The target layout may declare the spacing of its grid as dt or nothing.
ResampleControls ==
    \E c \in Item, target \in Targets, extrapolation \in {"error", "hold", "linear"} :
       \E source \in Grids(c), dt \in {None, Spacing(target)} :
        /\ ValidGrid(target)
        /\ extrapolation = "error" =>
              First(source.times) <= First(target.times) /\ Last(target.times) <= Last(source.times)
        /\ Made(Resampled(c, source, target, dt, extrapolation))

Mapped(c, rows, Op(_), made) ==
    [c EXCEPT !.u = [k \in DOMAIN @ |-> IF k \in rows THEN [i \in DOMAIN @[k] |-> Op(@[k][i])] ELSE @[k]],
              !.made = made, !.of = <<Source(c)>>]

ScaleControls ==
    \E c \in Item : \E rows \in SUBSET ToSet(c.keys) \ {{}} :
        /\ Kept(c)
        /\ Made(Mapped(c, rows, LAMBDA v : 2 * v, "scale"))

ApplyControlBounds ==
    \E c \in Item : \E rows \in SUBSET ToSet(c.keys) \ {{}} :
        /\ Kept(c)
        /\ Made(Mapped(c, rows, LAMBDA v : IF v > Bound THEN Bound ELSE IF v < -Bound THEN -Bound ELSE v, "bounds"))

\* The new layout keeps dt and has no scales of its own.
Selected(c, keys) ==
    [c EXCEPT !.keys = keys, !.u = [k \in ToSet(keys) |-> @[k]], !.scales = "ones",
              !.made = "select", !.of = <<Source(c)>>]
SelectChannels ==
    \E c \in Item : \E rows \in SUBSET ToSet(c.keys) \ {{}} : \E keys \in SetToSeqs(rows) :
        /\ Kept(c)
        /\ Made(Selected(c, keys))

---------------------------------------------------------------------------
(* Transforms of two signals *)

\* On one grid, which each of them has or is given.
Mixed(a, b, g) ==
    [a EXCEPT !.u = [k \in DOMAIN @ |-> [i \in DOMAIN @[k] |-> @[k][i] - b.u[k][i]]],
              !.grid = g, !.made = "mix", !.of = <<Source(a), Source(b)>>]
MixControls ==
    \E a, b \in Item : \E g \in Grids(a) \cap Grids(b) :
        /\ Compatible(a, b)
        /\ Made(Mixed(a, b, g))

ReplaceChannel ==
    \E a, b \in Item : \E g \in Grids(a) \cap Grids(b), k \in ToSet(a.keys), l \in ToSet(b.keys) :
        Made([a EXCEPT !.u[k] = b.u[l], !.grid = g, !.made = "replace", !.of = <<Source(a), Source(b)>>])

\* The rows of the target, taken from either signal.
AssembleChannels ==
    \E a, b \in Item : \E g \in Grids(a) \cap Grids(b), k \in ToSet(a.keys), l \in ToSet(b.keys) :
    \E dt \in {None, Spacing(g)} :
        Made(Controls(<<"1", "2">>, [n \in {"1", "2"} |-> IF n = "1" THEN a.u[k] ELSE b.u[l]],
                      dt, "ones", g, "assemble", <<Source(a), Source(b)>>))

---------------------------------------------------------------------------
(* Joining segments that follow one another *)

\* A sample both segments have at the boundary is kept from one of them.
JoinedTimes(s, t, keep) ==
    IF Last(s) # First(t) THEN s \o t ELSE IF keep = "left" THEN s \o Tail(t) ELSE Front(s) \o t
JoinedSamplesLeft(a, b, shared, keep) == IF shared THEN a \o Tail(b) ELSE a \o b
JoinedSamples(a, b, shared, keep) ==
    IF ~shared THEN a \o b ELSE IF keep = "left" THEN a \o Tail(b) ELSE Front(a) \o b

Shared(g, h) == Last(g.times) = First(h.times)

\* dt is the spacing of the joined grid, if it is uniform.
Joined(a, b, g, h, keep) ==
    LET grid == ControlGrid(JoinedTimes(g.times, h.times, keep), g.start, h.stop, g.placement) IN
    Controls(a.keys, [k \in ToSet(a.keys) |-> JoinedSamples(a.u[k], b.u[k], Shared(g, h), keep)],
             Spacing(grid), "ones", grid, keep, <<[Source(a) EXCEPT !.grid = g], [Source(b) EXCEPT !.grid = h]>>)

JoinControlsInTime ==
    \E a, b \in Item, keep \in {"error", "left", "right"} : \E g \in Grids(a), h \in Grids(b) :
        /\ a.keys = b.keys /\ g.placement = h.placement /\ g.stop = h.start
        /\ keep = "error" => ~Shared(g, h)
        /\ Made(Joined(a, b, g, h, keep))

Next ==
    /\ Room
    /\ \/ ResampleControls \/ ScaleControls \/ ApplyControlBounds \/ SelectChannels
       \/ MixControls \/ ReplaceChannel \/ AssembleChannels \/ JoinControlsInTime

Spec == Init /\ [][Next]_items

---------------------------------------------------------------------------
\* Whatever chain of transforms made it, a signal is a valid input of the next
\* one: its stored grid counts its samples and agrees with dt (control_tools.py:
\* 106-122).
ResultsAreInputs == \A c \in Item : Kept(c)

\* A joined signal is its segments: interpolating it at a sample of a segment
\* gives that sample, but for the one the policy gave up at a shared node; and
\* its integral over the interval is the sum of theirs, with left cells always
\* and with nodes when the segments agree where they meet.
JoinsAreTheirSegments ==
    \A c \in Item : c.made \in {"error", "left", "right"} =>
        LET a == c.of[1] b == c.of[2] shared == Shared(a.grid, b.grid)
            Holds(s, i, k) == At(c.grid.times, c.u[k], s.grid.times[i], "hold") = s.u[k][i] IN
        \A k \in ToSet(c.keys) :
            /\ \A i \in 1..(Dim(a.grid) - (IF shared /\ c.made = "right" THEN 1 ELSE 0)) : Holds(a, i, k)
            /\ \A i \in (1 + (IF shared /\ c.made = "left" THEN 1 ELSE 0))..Dim(b.grid) : Holds(b, i, k)
            /\ \/ c.grid.placement = "left_cells"
               \/ c.grid.placement = "nodes" /\ Last(a.u[k]) = First(b.u[k])
               => Integral(c, k) = Integral(a, k) + Integral(b, k)
=============================================================================
