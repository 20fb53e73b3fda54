---------------------------- MODULE KnockControl ----------------------------
(***************************************************************************)
(* Knock control (knock.rs): the retard of each cylinder after an ignition *)
(* window that knocked or did not, by the integrating detector or by the   *)
(* spectral one, which also learns the noise of each operating cell, the   *)
(* fine correction of each cylinder and the damage multiplier of each      *)
(* cell.  The filter and the FFT are an energy per window.  Energies are   *)
(* thousandths, angles hundredths of a degree, the multiplier hundredths.  *)
(* And TinyMlKnockClassifier (knock_ml.rs): the bins of the spectrum each  *)
(* feature reads, the verdict on a window and the loading of a weight      *)
(* blob; the network is a probability chosen per window, the weights are   *)
(* the name of the blob they came from.                                    *)
(***************************************************************************)
EXTENDS Curves, FiniteSets

CONSTANTS Channels,         \* the cylinders an ignition window can name
          Cylinders,        \* those the detector has state for
          RETARD_STEP, RETARD_MAX, RECOVERY,     \* KnockConfig, hundredths
          FKC_MAX,          \* 1000: the fine correction goes down to -10 degrees
          FKC_RECOVERY,     \* 1
          THRESHOLD,        \* threshold over the noise floor
          LEARN_WEIGHT,     \* 100: one over the noise learning rate
          DamEnabled, LearnEnabled,
          THRESHOLD_PROB,   \* 65: percent
          KNOCKS_MOD        \* 2^32, the width of the classifier's count

KnockAssumption ==
    /\ Cylinders \subseteq Channels
    /\ {RETARD_STEP, RETARD_MAX, RECOVERY, FKC_MAX, FKC_RECOVERY, THRESHOLD} \subseteq Nat
    /\ LEARN_WEIGHT \in Nat \ {0}
    /\ {DamEnabled, LearnEnabled} \subseteq BOOLEAN

\* rpm_bin and load_bin: 16 bins over 0..8000 rpm and 0..200 kPa.
rpm_bin(rpm) == Lesser((rpm * 16) \div 8000, 15)
load_bin(load) == Lesser((load * 16) \div 200, 15)

Cell(rpm, load) == <<rpm_bin(rpm), load_bin(load)>>

\* The maps hold the cells visited; the others have the default.
NewKnock(Cells) ==
    [ retard |-> [c \in Cylinders |-> 0], fkc |-> [c \in Cylinders |-> 0],
      event |-> [c \in Cylinders |-> FALSE], level |-> 0,
      floor |-> [cell \in Cells |-> 0], dam |-> [cell \in Cells |-> 100] ]

more_retard(retard) == Lesser(retard + RETARD_STEP, RETARD_MAX)
less_retard(retard) == Larger(retard - RECOVERY, 0)

\* Slip: the fine correction accumulates without its floor.
UnboundedFkc(fkc) == fkc - RETARD_STEP

deepen_fkc(fkc) == Larger(fkc - RETARD_STEP, -FKC_MAX)
recover_fkc(fkc) == Lesser(fkc + FKC_RECOVERY, 0)

learn_noise(floor, energy, knocked) ==
    IF LearnEnabled /\ ~knocked
    THEN (floor * (LEARN_WEIGHT - 1) + energy) \div LEARN_WEIGHT ELSE floor

level_of(energy, threshold) == Lesser((energy * 50) \div (threshold + 1), 100)

knocks(s, cell, energy) == energy > s.floor[cell] + THRESHOLD

\* SoftKnockDetector::evaluate, against a noise floor its caller gives; the
\* level is that of the loudest of the cylinders' integrators.
soft_evaluate(s, c, energy, loudest, floor) ==
    LET knocked == energy > floor + THRESHOLD
    IN  [s EXCEPT !.retard[c] = IF knocked THEN more_retard(@) ELSE less_retard(@),
                  !.event[c] = knocked,
                  !.level = level_of(loudest, floor + THRESHOLD)]

\* FftKnockDetector::evaluate; a channel the detector does not have only
\* clears the level.
fft_evaluate(s, c, cell, energy) ==
    LET knocked == knocks(s, cell, energy)
    IN  IF c \notin Cylinders THEN [s EXCEPT !.level = 0]
        ELSE [s EXCEPT
                !.floor[cell] = learn_noise(@, energy, knocked),
                !.retard[c] = IF knocked THEN more_retard(@) ELSE less_retard(@),
                !.fkc[c] = IF knocked THEN deepen_fkc(@) ELSE recover_fkc(@),
                !.dam[cell] = IF knocked /\ DamEnabled THEN Larger(@ - 1, 0) ELSE @,
                !.event[c] = knocked,
                !.level = level_of(energy, s.floor[cell] + THRESHOLD)]

total_retard(s, c) == s.retard[c] + Abs(s.fkc[c])

KnockType(Cells) ==
    [ retard : [Cylinders -> 0..RETARD_MAX], fkc : [Cylinders -> -FKC_MAX..0],
      event : [Cylinders -> BOOLEAN], level : 0..100,
      floor : [Cells -> Nat], dam : [Cells -> 0..100] ]

----------------------------------------------------------------------------
(* The classifier *)

\* A threshold of zero would leave no probability below it.
ClassifierAssumption == THRESHOLD_PROB \in 1..100 /\ KNOCKS_MOD \in Nat \ {0}

BINS == 256

Dimensions == <<24, 32, 16, 2>>

\* Six u16 of header and one f32 for every weight and bias.
BlobBytes(d) == 12 + 4 * (d[1] * d[2] + d[2] + d[2] * d[3] + d[3] + d[3] * d[4] + d[4])

window_start(centre, bw) == Larger(centre - 4 * bw, 0)
window_end(centre, bw) == Lesser(centre + 4 * bw, BINS - 1)

sub_width(centre, bw) ==
    Larger((window_end(centre, bw) - window_start(centre, bw)) \div 8, 1)

\* The half-open range of bins of one of the eight bands.
band_bins(centre, bw, band) ==
    LET low == window_start(centre, bw) + band * sub_width(centre, bw)
    IN  [low |-> low, high |-> Lesser(low + sub_width(centre, bw), BINS)]

\* The bins around the second and the third harmonic.
harmonic_bins(centre, bw, order) ==
    [ low |-> Lesser(Larger(order * centre - bw, 0), BINS - 1),
      high |-> Lesser(order * centre + bw, BINS - 1) ]

\* A slice the indexing accepts.
Sliceable(range) == range.low <= range.high /\ range.high <= BINS

----------------------------------------------------------------------------
NewClassifier == [weights |-> "default", last |-> 0, knocks |-> 0]

\* The count is a u32 stepped by +=: it wraps in the release build the ECU
\* runs; a debug build would panic there instead.
classify(s, probability) ==
    [s EXCEPT !.last = probability,
              !.knocks = IF probability >= THRESHOLD_PROB THEN (@ + 1) % KNOCKS_MOD ELSE @]

\* A blob is [name, bytes, dims]; nothing is written unless all of it is there.
load_weights_blob(s, blob) ==
    IF blob.bytes < 12 \/ blob.dims # Dimensions \/ blob.bytes < BlobBytes(Dimensions)
    THEN s ELSE [s EXCEPT !.weights = blob.name]

\* The weights built in, those of a blob of the right shape, and of any other.
WeightNames == {"default", "whole", "broken"}

ClassifierType == [weights : WeightNames, last : 0..100, knocks : 0..(KNOCKS_MOD - 1)]
=============================================================================
