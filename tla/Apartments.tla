----------------------------- MODULE Apartments -----------------------------
(***************************************************************************)
(* The apartment of a lead (services/airtable.py, services/address.py).     *)
(*                                                                         *)
(* An address is what split_address(normalize_address(...)) makes of it:    *)
(* [house, street, unit], or NoSplit.  Similarity stands for rapidfuzz's    *)
(* token_set_ratio of two streets.                                         *)
(***************************************************************************)
EXTENDS Integers

CONSTANTS House, Street, Unit,
          NoSplit,      \* the address has no such parts
          NotCached,    \* no entry in _apt_split_cache
          Similarity    \* token_set_ratio

Split == [house : House, street : Street, unit : Unit]

ASSUME ApartmentsAssumption ==
    /\ NoSplit \notin Split
    /\ NotCached \notin Split \cup {NoSplit}
    /\ Similarity \in [Street \X Street -> 0..100]

StreetThreshold == 88

\* Mutant: the unit is not compared.
SameDoorHouseOnly(a, b) == a # NoSplit /\ a.house = b.house

\* Exact house number and unit.
SameDoor(a, b) == a # NoSplit /\ a.house = b.house /\ a.unit = b.unit

\* What the cache holds once every row has been looked at.
Cached(splits, addresses) ==
    [i \in DOMAIN addresses |-> IF splits[i] = NotCached THEN addresses[i] ELSE splits[i]]

\* Mutant: the threshold itself does not pass.
AddressMatchesAbove(cached, a) ==
    {i \in DOMAIN cached : /\ SameDoor(cached[i], a)
                           /\ Similarity[a.street, cached[i].street] > StreetThreshold}

\* The rows match_apartment_by_address may return for the parsed address a: the best of those that
\* share house and unit, if its street is similar enough.
AddressMatches(cached, a) ==
    LET candidates == {i \in DOMAIN cached : SameDoor(cached[i], a)}
        Score(i) == Similarity[a.street, cached[i].street]
    IN  {i \in candidates : /\ Score(i) >= StreetThreshold
                            /\ \A j \in candidates : Score(j) <= Score(i)}

\* Is a the address, up to the spelling of the street, that b says?
Fits(a, b) ==
    /\ a # NoSplit /\ b # NoSplit
    /\ a.house = b.house /\ a.unit = b.unit
    /\ Similarity[a.street, b.street] >= StreetThreshold

=============================================================================
