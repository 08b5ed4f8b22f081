---------------------------- MODULE CurvePoints ----------------------------
(***************************************************************************)
(* What the fan curve of the dashboard computes (class FanCurve of         *)
(* gui_dashboard/lib/fan_curve.dart and the presets of fan_channels.dart). *)
(* Degrees and percent are whole numbers here; a temperature to evaluate   *)
(* is in sixths of a degree, so that an average of up to three samples is  *)
(* exact, and a target in hundredths of a percent, rounded down.           *)
(***************************************************************************)
EXTENDS Integers, Sequences, SequencesExt, FiniteSetsExt

Sixths == 6
Larger(a, b) == IF a < b THEN b ELSE a
Smaller(a, b) == IF a < b THEN a ELSE b
Clamp(x, low, high) == Larger(low, Smaller(x, high))

(* FanCurvePoint.fromJson and the clamping of safetyNormalizedPoints.       *)
Clamped(p) == [t |-> Clamp(p.t, 20, 110), f |-> Clamp(p.f, 20, 100)]

(* A point goes behind those that are not hotter. List.sort leaves the order*)
(* of equal temperatures open, and Merge gives the same for either.         *)
Place(s, p) ==
  CHOOSE k \in 1..Len(s) + 1 :
    (\A i \in 1..k - 1 : s[i].t <= p.t) /\ (\A i \in k..Len(s) : p.t < s[i].t)
Insert(s, p) == InsertAt(s, Place(s, p), p)

(* The points by temperature, as more of them are taken.                    *)
Sorted(list) ==
  LET sorted[i \in 0..Len(list)] ==
        IF i = 0 THEN <<>> ELSE Insert(sorted[i - 1], Clamped(list[i]))
  IN sorted

(* Mutant: of two points at one temperature the later one counts.           *)
MergeLast(safe, p) ==
  IF safe # <<>> /\ Last(safe).t = p.t THEN Append(Front(safe), p)
  ELSE Append(safe, [p EXCEPT !.f = Larger(@, IF safe = <<>> THEN 20 ELSE Last(safe).f)])

(* One step of the loop: a point at the temperature of the one before it is *)
(* merged with it, any other is raised to at least the fan value before.    *)
Merge(safe, p) ==
  IF safe # <<>> /\ Last(safe).t = p.t
  THEN Append(Front(safe), [p EXCEPT !.f = Larger(@, Last(safe).f)])
  ELSE Append(safe, [p EXCEPT !.f = Larger(@, IF safe = <<>> THEN 20 ELSE Last(safe).f)])

(* The loop, as more points are merged.                                     *)
Merged(s) ==
  LET safe[i \in 0..Len(s)] == IF i = 0 THEN <<>> ELSE Merge(safe[i - 1], s[i])
  IN safe

(* safetyNormalizedPoints.                                                  *)
Normalized(list) ==
  Merged(Sorted(list)[Len(list)])[Len(list)]

(* The straight line between two neighbours.                                *)
Interpolated(left, right, temperature) ==
  100 * left.f +
    (100 * (right.f - left.f) * (temperature - Sixths * left.t)) \div (Sixths * (right.t - left.t))

(* Mutant: the first segment that begins below the temperature is taken.    *)
SegmentFirst(c, temperature) ==
  CHOOSE i \in 2..Len(c) :
    /\ Sixths * c[i - 1].t <= temperature
    /\ \A j \in 2..i - 1 : temperature < Sixths * c[j - 1].t

(* The right end of the segment the temperature falls into.                 *)
Segment(c, temperature) ==
  CHOOSE i \in 2..Len(c) :
    /\ temperature <= Sixths * c[i].t
    /\ \A j \in 2..i - 1 : temperature > Sixths * c[j].t

(* evaluate, on the normalised points c.                                    *)
Evaluate(c, temperature) ==
  CASE c = <<>>                                      -> 2000
    [] c # <<>> /\ temperature <= Sixths * Head(c).t -> 100 * Head(c).f
    [] c # <<>> /\ temperature >= Sixths * Last(c).t -> 100 * Last(c).f
    [] OTHER -> LET i == Segment(c, temperature) IN
                  Interpolated(c[i - 1], c[i], temperature)

Balanced ==
  << [t |-> 40, f |-> 25], [t |-> 55, f |-> 35], [t |-> 65, f |-> 50],
     [t |-> 75, f |-> 65], [t |-> 85, f |-> 80], [t |-> 92, f |-> 100] >>

(* fanCurvePreset.                                                          *)
FanCurvePreset ==
  [quiet |->
     << [t |-> 40, f |-> 20], [t |-> 55, f |-> 20], [t |-> 65, f |-> 30],
        [t |-> 75, f |-> 45], [t |-> 85, f |-> 70], [t |-> 92, f |-> 100] >>,
   balanced |-> Balanced,
   performance |->
     << [t |-> 30, f |-> 35], [t |-> 45, f |-> 50], [t |-> 55, f |-> 65],
        [t |-> 65, f |-> 80], [t |-> 75, f |-> 95], [t |-> 85, f |-> 100] >>]

(* FanCurve.fromJson: fewer than two different points are no curve.         *)
FromJson(list) == IF Len(Normalized(list)) < 2 THEN Balanced ELSE Normalized(list)
=============================================================================
