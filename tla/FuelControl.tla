---------------------------- MODULE FuelControl ----------------------------
(***************************************************************************)
(* FuelCalculator (fuel.rs): overrun fuel cut, speed-density pulse width,  *)
(* the short- and long-term trims, the wall film and the injector duty.    *)
(* Multipliers are thousandths, widths microseconds, temperatures degrees, *)
(* the battery tenths of a volt, throttle whole percent.                   *)
(***************************************************************************)
EXTENDS Curves

CONSTANTS Fuel,         \* FuelConfig: cylinders, dead_time, target, closed_loop, stft_limit,
                        \* wall_wetting, tau, wall_x, dfco, dfco_tps, dfco_clt, dfco_rpm
          LEARN,        \* 1: thousandths of the trim learnt per calculation
          PW_SCALE,     \* 867: width of a percent of filling at a kPa and a kelvin
          LtftCells     \* the cells of the trim map the inputs reach

FuelAssumption ==
    /\ Fuel \in [ cylinders : 0..255, dead_time : Nat, target : Nat, closed_loop : BOOLEAN,
                  stft_limit : 0..1000, wall_wetting : BOOLEAN, tau : Nat, wall_x : 0..1000,
                  dfco : BOOLEAN, dfco_tps : Int, dfco_clt : Int, dfco_rpm : Nat ]
    /\ LEARN \in 0..1000 /\ PW_SCALE \in Nat
    /\ LtftCells \subseteq (1..LTFT_SIZE) \X (1..LTFT_SIZE)

\* FuelState::default and LtftMap::default: the short trim starts at zero,
\* not at one.
NewFuel == [ stft |-> 0, ltft |-> [cell \in LtftCells |-> 1000], film |-> 0,
             dfco |-> FALSE, width |-> 0, duty |-> 0 ]

overrun(rpm, clt, tps) ==
    Fuel.dfco /\ tps < Fuel.dfco_tps /\ rpm > Fuel.dfco_rpm /\ clt > Fuel.dfco_clt

\* sqrt(298 K / T), between 0.7 and 1.3.
iat_correction(iat) ==
    LET square == 298150000 \div (iat + 273)
    IN  CHOOSE c \in 700..1300 :
            /\ c = 700 \/ c * c <= square
            /\ c = 1300 \/ (c + 1) * (c + 1) > square

clt_correction(clt) == IF clt >= 80 THEN 1000 ELSE 1000 + ((80 - clt) * 400) \div 120
baro_correction(baro, map) == IF map > 80 THEN (baro * 100000) \div 10132 ELSE 1000
flex_correction(flex) == 1000 + (flex * 360) \div 100

\* 50 us for each volt below 14 V.
injector_dead_time(vbatt) == Larger(Fuel.dead_time + (140 - vbatt) * 5, 0)

\* In microseconds, never below 250.
wall_wetting_tau(clt) ==
    LET factor == IF clt < 20 THEN 1000 + (20 - clt) * 50
                  ELSE Larger(1000 - ((clt - 20) * 1000) \div 80, 500)
    IN  Larger((Fuel.tau * factor) \div 1000, 250)

\* The film gains what does not reach the cylinder and loses what evaporates.
film_update(film, width, tau, dt) ==
    LET evaporated == (film * dt) \div tau
        direct == (Fuel.wall_x * width) \div 1000
    IN  [ film |-> Larger(film - evaporated + (width - direct), 0),
          width |-> IF width <= 1 THEN width
                    ELSE LET reaching == Larger(Larger(direct + evaporated, width \div 100), 1)
                         IN  Clamp((((width * 1000) \div reaching) * width) \div 1000,
                                   width \div 2, 3 * width) ]

lambda_valid(lambda) == lambda > 500 /\ lambda < 1500

trim(stft, lambda) ==
    Clamp(stft + (Fuel.target - lambda) \div 10, 1000 - Fuel.stft_limit, 1000 + Fuel.stft_limit)

ltft_update(value, stft) ==
    Clamp((value * (1000 - LEARN) + ((value * stft) \div 1000) * LEARN) \div 1000, 750, 1250)

learns(stft) == stft >= 500 /\ stft <= 1500 /\ Abs(stft - 1000) > 50

ltft_cell(rpm, map) == <<axis_index(LtftRpmAxis, rpm).low, axis_index(LtftLoadAxis, map).low>>

ltft_get(cells, rpm, map) ==
    LET at(i, j) == IF <<i, j>> \in LtftCells THEN cells[<<i, j>>] ELSE 1000
    IN  bilinear(at, axis_index(LtftRpmAxis, rpm), axis_index(LtftLoadAxis, map))

base_width(rpm, map, iat) ==
    (((ve_interpolate(rpm, map) * map) \div 100) * PW_SCALE) \div (iat + 273)

Times(width, factor) == (width * factor) \div 1000

Corrected(width, f) ==
    Times(Times(Times(Times(Times(Times(width, f.iat), f.clt), f.baro), f.flex), f.stft), f.ltft)

cycle_us(rpm) == IF rpm > 0 THEN 60000000 \div (rpm * Larger(Fuel.cylinders, 1)) ELSE 100000

cut_fuel(s, in) == [s EXCEPT !.dfco = TRUE, !.width = 0, !.duty = 0]

\* Everything after the overrun branch.
meter(s, in) ==
    LET closed == Fuel.closed_loop /\ lambda_valid(in.lambda)
        stft == IF closed THEN trim(s.stft, in.lambda) ELSE s.stft
        cell == ltft_cell(in.rpm, in.map)
        ltft == IF closed /\ learns(stft) /\ cell \in LtftCells
                THEN [s.ltft EXCEPT ![cell] = ltft_update(@, stft)] ELSE s.ltft
        base == base_width(in.rpm, in.map, in.iat)
        wall == IF Fuel.wall_wetting THEN film_update(s.film, base, wall_wetting_tau(in.clt), in.dt)
                ELSE [film |-> s.film, width |-> base]
        factors == [ iat |-> iat_correction(in.iat), clt |-> clt_correction(in.clt),
                     baro |-> baro_correction(in.baro, in.map),
                     flex |-> flex_correction(in.flex),
                     stft |-> stft, ltft |-> ltft_get(ltft, in.rpm, in.map) ]
        width == Corrected(wall.width, factors) + injector_dead_time(in.vbatt)
    IN  [ stft |-> stft, ltft |-> ltft, film |-> wall.film, dfco |-> FALSE, width |-> width,
          duty |-> Clamp((width * 100) \div cycle_us(in.rpm), 0, 100) ]

calculate(s, in) == IF overrun(in.rpm, in.clt, in.tps) THEN cut_fuel(s, in) ELSE meter(s, in)

FuelType ==
    [ stft : {0} \cup (1000 - Fuel.stft_limit)..(1000 + Fuel.stft_limit),
      ltft : [LtftCells -> 750..1250], film : Nat, dfco : BOOLEAN, width : Nat, duty : 0..100 ]
=============================================================================
