------------------------------- MODULE Guesses -------------------------------
(***************************************************************************)
(* Guess generators (guesses/base.py, simple.py, composite.py) among the   *)
(* transforms of Grids: a caller starts from generated controls, rescales, *)
(* mixes or perturbs the best ones so far, and resamples or joins the      *)
(* result.  A guess takes the layout of its target but no grid.            *)
(*                                                                         *)
(* The waveform of a random or Fourier perturbation is one of Waves;       *)
(* envelopes, which multiply it, and the l2 and energy conventions, whose  *)
(* factors are not integers, are left out, and so are offsets.  A result   *)
(* that would not be integral is not explored.                             *)
(***************************************************************************)
EXTENDS Grids

CONSTANTS
    Amplitudes,     \* amplitudes and ramp ends
    Waves           \* the generated waveforms: the sample of each index

Channels(c) == ToSet(c.keys)
Magnitude(x) == IF x < 0 THEN -x ELSE x
Peak(row) == Max({Magnitude(row[i]) : i \in DOMAIN row})

\* _scaled_channel: a row that vanishes stays zero, unless it is taken as it is.
Factor(row, amplitude, scale, x) ==
    CASE scale = "none" -> amplitude * x
      [] scale = "max_abs" -> IF Peak(row) = 0 THEN 0 ELSE (amplitude * x) \div Peak(row)
Exact(row, amplitude, scale) ==
    scale = "max_abs" => \A i \in DOMAIN row : Peak(row) > 0 => (amplitude * row[i]) % Peak(row) = 0

Ends(row) == {1, Len(row)}

\* finalize_guess: the channels not selected are zero, and the endpoint policy
\* applies to the scaled samples.
Finalized(raw, rows, amplitude, endpoint, scale) ==
    [k \in DOMAIN raw |-> [i \in DOMAIN raw[k] |->
        IF k \notin rows \/ (endpoint = "zero" /\ i \in Ends(raw[k])) THEN 0
        ELSE Factor(raw[k], amplitude, scale, raw[k][i])]]

\* Controls.from_matrix on the layout of the target, with meta of its own.
Guess(c, u, made, of) == [c EXCEPT !.u = u, !.grid = None, !.made = made, !.of = of]

Policies == {"free", "zero"}
Choice(rows, amplitude, endpoint, scale) ==
    [rows |-> rows, amplitude |-> Magnitude(amplitude), endpoint |-> endpoint, scale |-> scale]
Selections(c) == SUBSET Channels(c) \ {{}}

\* scale_guess
ScaleGuess ==
    \E c \in Item, amplitude \in Amplitudes, endpoint \in Policies, scale \in {"none", "max_abs"} :
    \E rows \in Selections(c) :
        /\ \A k \in rows : Exact(c.u[k], amplitude, scale)
        /\ Made(Guess(c, Finalized(c.u, rows, amplitude, endpoint, scale),
                      "scale guess", <<Source(c), Choice(rows, amplitude, endpoint, scale)>>))

\* constant_guess
ConstantGuess ==
    \E c \in Item, amplitude \in Amplitudes, endpoint \in Policies : \E rows \in Selections(c) :
        LET ones == [k \in Channels(c) |-> [i \in 1..Count(c) |-> 1]] IN
        Made(Guess(c, Finalized(ones, rows, amplitude, endpoint, "max_abs"), "constant guess", <<>>))

\* ramp_guess, of the linear kind
Ramp(n, start, stop) == [i \in 1..n |-> start + ((stop - start) * (i - 1)) \div (n - 1)]
RampGuess ==
    \E c \in Item, start, stop \in Amplitudes, endpoint \in Policies : \E rows \in Selections(c) :
        LET ramp == [k \in Channels(c) |-> Ramp(Count(c), start, stop)] IN
        /\ (stop - start) % (Count(c) - 1) = 0
        /\ Made(Guess(c, Finalized(ramp, rows, 1, endpoint, "none"), "ramp guess", <<>>))

\* mix_guess: equal layouts and grid declarations, which the mix does not keep.
MixGuess ==
    \E a, b \in Item, v, w \in {1, -1} :
        /\ Compatible(a, b) /\ a.grid = b.grid
        /\ Made(Guess(a, [k \in Channels(a) |-> [i \in 1..Count(a) |-> v * a.u[k][i] + w * b.u[k][i]]],
                      "mix guess", <<Source(a), Source(b)>>))

\* perturb_guess: the controls plus a generated waveform on the selected channels.
PerturbGuess ==
    \E c \in Item, amplitude \in Amplitudes, wave \in Waves : \E rows \in Selections(c) :
        LET raw == [k \in Channels(c) |-> [i \in 1..Count(c) |-> wave[i]]]
            noise == Finalized(raw, rows, amplitude, "free", "max_abs") IN
        /\ \A k \in rows : Exact(raw[k], amplitude, "max_abs")
        /\ Made(Guess(c, [k \in Channels(c) |-> [i \in 1..Count(c) |-> c.u[k][i] + noise[k][i]]],
                      "perturb guess", <<Source(c), Choice(rows, amplitude, "free", "max_abs")>>))

Guessing == ScaleGuess \/ ConstantGuess \/ RampGuess \/ MixGuess \/ PerturbGuess

NextGuess == Next \/ (Room /\ Guessing)

SpecGuess == Init /\ [][NextGuess]_items

---------------------------------------------------------------------------
\* A guess stays in the band its amplitude declares around what it was made of,
\* and touches the selected channels only: rescaling by the peak never exceeds
\* the amplitude and reaches it when the ends are free, silences the channels
\* that were not selected, and a perturbation leaves those as they were.
GuessesStayInBand ==
    \A c \in Item : c.made \in {"scale guess", "perturb guess"} =>
        LET base == c.of[1] choice == c.of[2] IN
        \A k \in Channels(c) :
            IF c.made = "perturb guess"
            THEN LET moved == {Magnitude(c.u[k][i] - base.u[k][i]) : i \in 1..Count(c)} IN
                 IF k \in choice.rows THEN Max(moved) <= choice.amplitude ELSE moved = {0}
            ELSE IF k \notin choice.rows THEN Peak(c.u[k]) = 0
            ELSE choice.scale = "max_abs" =>
                 /\ Peak(c.u[k]) <= choice.amplitude
                 /\ choice.endpoint = "free" /\ Peak(base.u[k]) > 0 => Peak(c.u[k]) = choice.amplitude
=============================================================================
