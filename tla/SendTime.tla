------------------------------ MODULE SendTime ------------------------------
(***************************************************************************)
(* compute_send_at (utils/humanization.py): when a reply goes out.          *)
(*                                                                         *)
(* Instants are UTC, counted in a unit of which an hour has Hour.  The zone *)
(* changes its clocks once, at the instant Change, from offset Before to    *)
(* offset AfterChange.  Local arithmetic is Python's: on the wall clock,    *)
(* and a wall time that comes twice, or never, is read with the offset from *)
(* before the change (fold = 0).                                           *)
(***************************************************************************)
EXTENDS Integers

CONSTANTS Hour, Change, Before, AfterChange,
          Start, End,       \* working_hours
          InMin, InMax,     \* within_jitter_seconds
          OutMin, OutMax    \* out_of_hours_jitter_seconds

ASSUME SendTimeAssumption ==
    /\ Hour \in Nat \ {0}
    /\ Change \in Int /\ Before \in Int /\ AfterChange \in Int
    /\ Start \in 0..23 /\ End \in 0..24
    /\ InMin \in Nat /\ InMax \in Nat /\ InMin <= InMax
    /\ OutMin \in Nat /\ OutMax \in Nat /\ OutMin <= OutMax

Day == 24 * Hour

\* astimezone(tz)
Wall(t) == IF t < Change THEN t + Before ELSE t + AfterChange

\* astimezone(UTC)
Instant(w) ==
    IF w < Change + Before \/ w < Change + AfterChange THEN w - Before ELSE w - AfterChange

HourOf(w) == (w % Day) \div Hour

Open(t) == Start <= HourOf(Wall(t)) /\ HourOf(Wall(t)) < End

StartOn(w) == w - (w % Day) + Start * Hour

\* The clocks change in the night before one start, by an hour at most when they go back
\* (America/New_York's, at two in the morning), and the jitter of the start before it is over by
\* midnight (it is an hour at most: config.py:65-71).
ASSUME NightAssumption ==
    /\ Start < End
    /\ \A w \in {Change + Before, Change + AfterChange} :
          w < StartOn(w) /\ StartOn(w) = StartOn(Change + Before)
    /\ Before - AfterChange <= Hour
    /\ Start * Hour + OutMax < Day

\* Today's start if that is still to come, tomorrow's otherwise.
NextStart(w) == IF StartOn(w) <= w THEN StartOn(w) + Day ELSE StartOn(w)

\* Mutant: the start is looked for on the UTC clock.
OutOfHoursUtc(t, jitter) == NextStart(Wall(t)) + jitter - (Wall(t) - t)

OutOfHours(t, jitter) == Instant(NextStart(Wall(t)) + jitter)

\* The instants at which a reply asked for at t may be scheduled.
SendTimes(t) ==
    IF Open(t)
    THEN {t + jitter : jitter \in InMin..InMax}
    ELSE {OutOfHours(t, jitter) : jitter \in OutMin..OutMax}

=============================================================================
