--------------------------- MODULE CalendarProofs ---------------------------
(***************************************************************************)
(* What the day counts guarantee for every calendar and holiday table.     *)
(***************************************************************************)
EXTENDS Calendar, FiniteSetTheorems, WellFoundedInduction, TLAPS

\* The ends of a range are days in order.
LEMMA RangeEnds ==
    ASSUME NEW r \in DateRange
    PROVE  /\ r[1] \in Day /\ r[2] \in Day
           /\ r[1] \in Int /\ r[2] \in Int
           /\ r[1] <= r[2]
  <1>1. r \in Day \X Day /\ r[1] <= r[2]
    BY DEF DateRange
  <1>2. r[1] \in Day /\ r[2] \in Day
    BY <1>1
  <1>3. Day \subseteq Int
    BY CalendarAssumption
  <1> QED
    BY <1>1, <1>2, <1>3

\* A range of days is finite and as long as its ends say.
LEMMA RangeLength ==
    ASSUME NEW r \in DateRange
    PROVE  /\ IsFiniteSet(r[1]..r[2])
           /\ Cardinality(r[1]..r[2]) = r[2] - r[1] + 1
  <1>1. r[1] \in Int /\ r[2] \in Int /\ r[1] <= r[2]
    BY RangeEnds
  <1> QED
    BY <1>1, FS_Interval

\* The bounds of both counts hold in every state, reachable or not, because the
\* working days of a range are among its leave days.
LEMMA CountsBounded ==
    ASSUME NEW r \in DateRange
    PROVE  /\ CountWorkingDays(r[1], r[2]) <= CountLeaveDays(r[1], r[2])
           /\ CountLeaveDays(r[1], r[2]) <= r[2] - r[1] + 1
           /\ CountWorkingDays(r[1], r[2]) = 0 <=> CountLeaveDays(r[1], r[2]) = 0
           /\ CountLeaveDays(r[1], r[2]) \in Nat
  <1> DEFINE R == r[1]..r[2]
             W == WorkingDates(r[1], r[2])
             L == LeaveDates(r[1], r[2])
  <1>1. W \subseteq L /\ L \subseteq R
    BY DEF WorkingDates, LeaveDates
  <1>2. IsFiniteSet(R) /\ Cardinality(R) = r[2] - r[1] + 1
    BY RangeLength
  <1>3. r[2] - r[1] + 1 \in Nat
    BY <1>2, FS_CardinalityType
  <1> HIDE DEF R, W, L
  <1>4. IsFiniteSet(L) /\ Cardinality(L) <= Cardinality(R)
    BY <1>1, <1>2, FS_Subset
  <1>5. IsFiniteSet(W) /\ Cardinality(W) <= Cardinality(L)
    BY <1>1, <1>4, FS_Subset
  <1>6. Cardinality(W) \in Nat /\ Cardinality(L) \in Nat
    BY <1>4, <1>5, FS_CardinalityType
  <1>7. Cardinality(W) = 0 <=> W = {}
    BY <1>5, FS_EmptySet
  <1>8. CountWorkingDays(r[1], r[2]) = Cardinality(W)
    BY DEF CountWorkingDays, W
  <1>9. CountLeaveDays(r[1], r[2]) = IF W = {} THEN 0 ELSE Cardinality(L)
    BY DEF CountLeaveDays, W, L
  <1> QED
    BY <1>2, <1>3, <1>4, <1>5, <1>6, <1>7, <1>8, <1>9

\* A leave is charged at least its working days and at most its length, and
\* nothing exactly when it has no working day.
THEOREM WorkingWithinLeaveTheorem == Spec => []WorkingWithinLeave
  <1>1. WorkingWithinLeave
    BY CountsBounded DEF WorkingWithinLeave
  <1> QED
    BY <1>1, PTL

-----------------------------------------------------------------------------

\* A set of integers that is bounded below has a least member.
LEMMA SmallestMember ==
    ASSUME NEW a \in Int, NEW W, W \subseteq Int, \A x \in W : a <= x, W # {}
    PROVE  \E m \in W : \A x \in W : m <= x
  <1> DEFINE T == {x - a : x \in W}
  <1>1. T \subseteq Nat /\ T # {}
    <2>1. \A x \in W : x - a \in Nat
      OBVIOUS
    <2>2. \A n \in T : \E x \in W : n = x - a
      OBVIOUS
    <2>3. PICK x \in W : TRUE
      OBVIOUS
    <2>4. x - a \in T
      OBVIOUS
    <2> QED BY <2>1, <2>2, <2>4
  <1>2. PICK n \in T : \A x \in T : ~ (<<x, n>> \in OpToRel(<, Nat))
    <2> HIDE DEF T
    <2> QED BY ONLY <1>1, NatLessThanWellFounded, WFMin
  <1>3. \A x \in T : ~ (x < n)
    BY <1>1, <1>2 DEF OpToRel
  <1>4. PICK m \in W : n = m - a
    OBVIOUS
  <1>5. ASSUME NEW x \in W PROVE m <= x
    <2>1. x - a \in T /\ ~ (x - a < m - a)
      BY <1>3, <1>4
    <2>2. x \in Int /\ m \in Int
      OBVIOUS
    <2> QED BY <2>1, <2>2
  <1> QED BY <1>5

\* Min and Max of the working dates of a range are what their names say.
LEMMA MinMax ==
    ASSUME NEW a \in Int, NEW b \in Int, NEW W, W \subseteq a..b, W # {}
    PROVE  /\ Min(W) \in W /\ \A x \in W : Min(W) <= x
           /\ Max(W) \in W /\ \A x \in W : Max(W) >= x
  <1> DEFINE Mirror == {-x : x \in W}
  <1>1. W \subseteq Int /\ \A x \in W : a <= x /\ x <= b
    OBVIOUS
  <1>2. \E m \in W : \A x \in W : m <= x
    BY ONLY a \in Int, W # {}, <1>1, SmallestMember
  <1>3. \E m \in W : \A x \in W : m >= x
    <2>1. /\ Mirror \subseteq Int
          /\ \A x \in Mirror : -b <= x
          /\ -b \in Int
      BY <1>1
    <2>2. Mirror # {}
      <3>1. PICK x \in W : TRUE
        OBVIOUS
      <3>2. -x \in Mirror
        OBVIOUS
      <3> QED BY <3>2
    <2>3. PICK n \in Mirror : \A x \in Mirror : n <= x
      <3> HIDE DEF Mirror
      <3> QED BY ONLY <2>1, <2>2, SmallestMember
    <2>4. PICK m \in W : n = -m
      OBVIOUS
    <2>5. ASSUME NEW x \in W PROVE m >= x
      <3>1. -x \in Mirror
        OBVIOUS
      <3>2. -m <= -x
        BY <2>3, <2>4, <3>1
      <3> QED BY <1>1, <3>2
    <2> QED BY <2>5
  <1> QED
    BY <1>2, <1>3 DEF Min, Max

\* Every holiday row carries the year of its date.
YearsAgree ==
    /\ DOMAIN holidays \subseteq Day
    /\ \A d \in DOMAIN holidays : holidays[d] = YearOf[d]

\* Edits and imports keep the year column right, if the sheet has it right.
LEMMA YearsAgreeInvariant ==
    ASSUME SheetAgrees
    PROVE  Spec => []YearsAgree
  <1>1. Init => YearsAgree
    BY DEF Init, YearsAgree
  <1>2. YearsAgree /\ [Next]_holidays => YearsAgree'
    <2> SUFFICES ASSUME YearsAgree, [Next]_holidays
                 PROVE  YearsAgree'
      OBVIOUS
    <2>1. ASSUME NEW date \in Day, WriteHoliday(date, YearOf[date])
          PROVE  YearsAgree'
      BY <2>1 DEF WriteHoliday, YearsAgree
    <2>2. CASE \E date \in Day : CreateHoliday(date)
      BY <2>1, <2>2 DEF CreateHoliday
    <2>3. CASE \E date \in DOMAIN holidays : DeleteHoliday(date)
      BY <2>3 DEF DeleteHoliday, YearsAgree
    <2>4. CASE \E line \in HolidaySheet : SeedHoliday(line)
      <3>1. PICK line \in HolidaySheet : SeedHoliday(line)
        BY <2>4
      <3>2. line.date \in Day /\ line.year = YearOf[line.date]
        BY CalendarAssumption DEF SheetAgrees
      <3> QED BY <2>1, <3>1, <3>2 DEF SeedHoliday
    <2>5. CASE UNCHANGED holidays
      BY <2>5 DEF YearsAgree
    <2> QED BY <2>2, <2>3, <2>4, <2>5 DEF Next
  <1> QED BY <1>1, <1>2, PTL DEF Spec

\* The years a count looks up hold every holiday of its range.
LEMMA HolidaysOfRange ==
    ASSUME YearsAgree, NEW r \in DateRange, NEW d \in r[1]..r[2]
    PROVE  d \in HolidaySet(Years(r[1], r[2])) <=> d \in DOMAIN holidays
  <1>1. /\ r[1] \in Day /\ r[2] \in Day
        /\ r[1] \in Int /\ r[2] \in Int /\ d \in Int
        /\ r[1] <= d /\ d <= r[2]
    BY RangeEnds
  <1>2. d \in Day
    BY <1>1, CalendarAssumption
  <1>3. YearOf[r[1]] <= YearOf[d] /\ YearOf[d] <= YearOf[r[2]]
    BY <1>1, <1>2, CalendarAssumption
  <1>4. YearOf[d] \in Int /\ YearOf[r[1]] \in Int /\ YearOf[r[2]] \in Int
    BY <1>1, <1>2, CalendarAssumption
  <1>5. YearOf[d] \in Years(r[1], r[2])
    BY <1>3, <1>4 DEF Years
  <1> QED
    BY <1>5 DEF HolidaySet, YearsAgree

\* Between the first and the last working day is between two working days.
LEMMA LeaveDatesAreRuled ==
    ASSUME YearsAgree, NEW r \in DateRange
    PROVE  IF WorkingDates(r[1], r[2]) = {}
           THEN {d \in r[1]..r[2] : ShouldCount(d, r[1], r[2])} = {}
           ELSE LeaveDates(r[1], r[2]) = {d \in r[1]..r[2] : ShouldCount(d, r[1], r[2])}
  <1> DEFINE W == WorkingDates(r[1], r[2])
             H == HolidaySet(Years(r[1], r[2]))
             working(x) == ~IsWeekend(x) /\ x \notin DOMAIN holidays
  <1>1. r[1] \in Int /\ r[2] \in Int
    BY RangeEnds
  <1>2. \A d \in r[1]..r[2] : d \in H <=> d \in DOMAIN holidays
    BY HolidaysOfRange
  <1>3. /\ W \subseteq r[1]..r[2]
        /\ \A d \in r[1]..r[2] : d \in W <=> working(d)
    BY <1>2 DEF WorkingDates
  <1>4. ASSUME NEW d \in r[1]..r[2]
        PROVE  ShouldCount(d, r[1], r[2]) <=>
                  \/ d \in W
                  \/ /\ IsWeekend(d) /\ d \notin H
                     /\ \E x \in W : x < d
                     /\ \E x \in W : d < x
    <2>1. (\E x \in r[1]..(d - 1) : working(x)) <=> \E x \in W : x < d
      <3> HIDE DEF W, working
      <3> QED BY <1>1, <1>3
    <2>2. (\E x \in (d + 1)..r[2] : working(x)) <=> \E x \in W : d < x
      <3> HIDE DEF W, working
      <3> QED BY <1>1, <1>3
    <2>3. ShouldCount(d, r[1], r[2]) <=>
             \/ working(d)
             \/ /\ IsWeekend(d) /\ d \notin DOMAIN holidays
                /\ \E x \in r[1]..(d - 1) : working(x)
                /\ \E x \in (d + 1)..r[2] : working(x)
      BY DEF ShouldCount
    <2>4. (d \in W <=> working(d)) /\ (d \in H <=> d \in DOMAIN holidays)
      BY <1>2, <1>3
    <2> HIDE DEF W, H, working
    <2> QED BY <2>1, <2>2, <2>3, <2>4
  <1>5. CASE W = {}
    <2> HIDE DEF W
    <2> QED BY <1>4, <1>5 DEF W
  <1>6. CASE W # {}
    <2>1. /\ Min(W) \in W /\ \A x \in W : Min(W) <= x
          /\ Max(W) \in W /\ \A x \in W : Max(W) >= x
      <3> HIDE DEF W
      <3> QED BY ONLY <1>1, <1>3, <1>6, MinMax
    <2>2. ASSUME NEW d \in r[1]..r[2]
          PROVE  /\ (\E x \in W : x < d) <=> Min(W) < d
                 /\ (\E x \in W : d < x) <=> d < Max(W)
      <3>1. \A x \in W : x \in Int
        BY <1>3
      <3> HIDE DEF W
      <3> QED BY <2>1, <3>1
    <2>3. ASSUME NEW d \in r[1]..r[2]
          PROVE  d \in LeaveDates(r[1], r[2]) <=> ShouldCount(d, r[1], r[2])
      <3>1. d \in LeaveDates(r[1], r[2]) <=>
               /\ d \notin H
               /\ IsWeekend(d) => Min(W) < d /\ d < Max(W)
        BY DEF LeaveDates
      <3>2. d \in W <=> ~IsWeekend(d) /\ d \notin H
        BY DEF WorkingDates
      <3> HIDE DEF W, H
      <3> QED BY <1>4, <2>2, <3>1, <3>2
    <2>4. LeaveDates(r[1], r[2]) \subseteq r[1]..r[2]
      BY DEF LeaveDates
    <2> QED BY <1>6, <2>3, <2>4 DEF W
  <1> QED BY <1>5, <1>6

\* The days a leave of the range should be charged for.
Ruled(start, end) == {d \in start..end : ShouldCount(d, start, end)}

\* They are the ones counted.
LEMMA CountIsRule == YearsAgree => LeaveDaysMatchRule
  <1> SUFFICES ASSUME YearsAgree, NEW r \in DateRange
               PROVE  CountLeaveDays(r[1], r[2])
                        = Cardinality({d \in r[1]..r[2] : ShouldCount(d, r[1], r[2])})
    BY DEF LeaveDaysMatchRule
  <1>1. Cardinality({}) = 0
    BY FS_EmptySet
  <1> QED BY <1>1, LeaveDatesAreRuled DEF CountLeaveDays

\* OD-04: for every calendar, weekend and sequence of edits and imports, leave is
\* charged for the days the rule names, no recorded holiday among them.
THEOREM LeaveDaysTheorem ==
    ASSUME SheetAgrees
    PROVE  Spec => []LeaveDaysMatchRule
  BY CountIsRule, YearsAgreeInvariant, PTL

\* A day one half of a leave is charged for, the whole leave is charged for; and
\* the other way round when the cut is between two working days.
LEMMA HalvesRuled ==
    ASSUME NEW a \in Int, NEW b \in Int, NEW cut \in a..(b - 1)
    PROVE  /\ Ruled(a, cut) \cup Ruled(cut + 1, b) \subseteq Ruled(a, b)
           /\ Ruled(a, cut) \cap Ruled(cut + 1, b) = {}
           /\ {cut, cut + 1} \cap DOMAIN holidays = {} /\ ~IsWeekend(cut) /\ ~IsWeekend(cut + 1)
                => Ruled(a, b) = Ruled(a, cut) \cup Ruled(cut + 1, b)
  <1> DEFINE working(x) == ~IsWeekend(x) /\ x \notin DOMAIN holidays
             between(d, from, until) == /\ IsWeekend(d) /\ d \notin DOMAIN holidays
                                        /\ \E x \in from..(d - 1) : working(x)
                                        /\ \E x \in (d + 1)..until : working(x)
  <1>1. \A d, from, until : ShouldCount(d, from, until) <=> working(d) \/ between(d, from, until)
    BY DEF ShouldCount
  <1>2. \A d \in a..cut : between(d, a, cut) => between(d, a, b)
    <2> HIDE DEF working
    <2> QED OBVIOUS
  <1>3. \A d \in (cut + 1)..b : between(d, cut + 1, b) => between(d, a, b)
    <2> HIDE DEF working
    <2> QED OBVIOUS
  <1>4. ASSUME working(cut), working(cut + 1)
        PROVE  /\ \A d \in a..cut : between(d, a, b) => between(d, a, cut)
               /\ \A d \in (cut + 1)..b : between(d, a, b) => between(d, cut + 1, b)
    <2>1. \A d \in a..cut : IsWeekend(d) => d # cut
      BY <1>4
    <2>2. \A d \in (cut + 1)..b : IsWeekend(d) => d # cut + 1
      BY <1>4
    <2> HIDE DEF working
    <2> QED BY <1>4, <2>1, <2>2
  <1>5. (a..b) = (a..cut) \cup ((cut + 1)..b) /\ (a..cut) \cap ((cut + 1)..b) = {}
    OBVIOUS
  <1> HIDE DEF between
  <1>6. \A from, until : Ruled(from, until)
                            = {d \in from..until : working(d) \/ between(d, from, until)}
    BY <1>1 DEF Ruled
  <1>7. Ruled(a, cut) \cup Ruled(cut + 1, b) \subseteq Ruled(a, b)
    <2> HIDE DEF working
    <2> QED BY ONLY <1>2, <1>3, <1>5, <1>6
  <1>8. Ruled(a, cut) \cap Ruled(cut + 1, b) = {}
    <2> HIDE DEF working
    <2> QED BY ONLY <1>5, <1>6
  <1>9. ASSUME working(cut), working(cut + 1)
        PROVE  Ruled(a, b) \subseteq Ruled(a, cut) \cup Ruled(cut + 1, b)
    <2>1. /\ \A d \in a..cut : between(d, a, b) => between(d, a, cut)
          /\ \A d \in (cut + 1)..b : between(d, a, b) => between(d, cut + 1, b)
      BY <1>4, <1>9
    <2> HIDE DEF working
    <2> QED BY ONLY <2>1, <1>5, <1>6
  <1> QED BY <1>7, <1>8, <1>9

\* Splitting a leave never makes it longer, and costs the same between two
\* working days, for every calendar, weekend and sequence of edits and imports.
THEOREM SplitIsFairTheorem ==
    ASSUME SheetAgrees
    PROVE  Spec => []SplitIsFair
  <1>1. YearsAgree => SplitIsFair
    <2> SUFFICES ASSUME YearsAgree, NEW r \in DateRange, NEW cut \in r[1]..(r[2] - 1)
                 PROVE  /\ CountLeaveDays(r[1], cut) + CountLeaveDays(cut + 1, r[2])
                              <= CountLeaveDays(r[1], r[2])
                        /\ {cut, cut + 1} \subseteq WorkingDates(cut, cut + 1) =>
                              CountLeaveDays(r[1], cut) + CountLeaveDays(cut + 1, r[2])
                                = CountLeaveDays(r[1], r[2])
      BY DEF SplitIsFair
    <2>1. PICK a \in Int, b \in Int : a = r[1] /\ b = r[2] /\ a <= b
      BY RangeEnds
    <2>2. /\ cut \in a..(b - 1) /\ cut \in Int /\ a <= cut /\ cut + 1 <= b
          /\ a \in Day /\ b \in Day
      BY <2>1, RangeEnds
    <2>3. cut \in Day /\ cut + 1 \in Day
      <3>1. cut \in a..b /\ cut + 1 \in a..b
        BY <2>2
      <3> QED BY <2>2, <3>1, CalendarAssumption
    <2>4. /\ <<a, cut>> \in DateRange /\ <<cut + 1, b>> \in DateRange
          /\ <<a, b>> \in DateRange /\ <<cut, cut + 1>> \in DateRange
      BY <2>2, <2>3 DEF DateRange
    <2>5. /\ CountLeaveDays(a, cut) = Cardinality(Ruled(a, cut))
          /\ CountLeaveDays(cut + 1, b) = Cardinality(Ruled(cut + 1, b))
          /\ CountLeaveDays(a, b) = Cardinality(Ruled(a, b))
      BY <2>4, CountIsRule DEF LeaveDaysMatchRule, Ruled
    <2>6. IsFiniteSet(Ruled(a, b)) /\ IsFiniteSet(Ruled(a, cut)) /\ IsFiniteSet(Ruled(cut + 1, b))
      <3>1. IsFiniteSet(a..b) /\ IsFiniteSet(a..cut) /\ IsFiniteSet((cut + 1)..b)
        BY <2>2, FS_Interval
      <3>2. /\ Ruled(a, b) \subseteq a..b /\ Ruled(a, cut) \subseteq a..cut
            /\ Ruled(cut + 1, b) \subseteq (cut + 1)..b
        BY DEF Ruled
      <3> QED BY <3>1, <3>2, FS_Subset
    <2>7. PICK both : both = Ruled(a, cut) \cup Ruled(cut + 1, b)
      OBVIOUS
    <2>8. /\ both \subseteq Ruled(a, b) /\ Ruled(a, cut) \cap Ruled(cut + 1, b) = {}
          /\ {cut, cut + 1} \cap DOMAIN holidays = {} /\ ~IsWeekend(cut) /\ ~IsWeekend(cut + 1)
               => Ruled(a, b) = both
      BY <2>2, <2>7, HalvesRuled
    <2>9. /\ Cardinality(both) = Cardinality(Ruled(a, cut)) + Cardinality(Ruled(cut + 1, b))
          /\ Cardinality(both) <= Cardinality(Ruled(a, b))
      <3>1. Cardinality(both) = Cardinality(Ruled(a, cut)) + Cardinality(Ruled(cut + 1, b))
                                  - Cardinality(Ruled(a, cut) \cap Ruled(cut + 1, b))
        BY <2>6, <2>7, FS_Union
      <3>2. Cardinality(Ruled(a, cut) \cap Ruled(cut + 1, b)) = 0
        BY <2>8, FS_EmptySet
      <3>3. Cardinality(Ruled(a, cut)) \in Nat /\ Cardinality(Ruled(cut + 1, b)) \in Nat
        BY <2>6, FS_CardinalityType
      <3> QED BY <2>6, <2>8, <3>1, <3>2, <3>3, FS_Subset
    <2>10. {cut, cut + 1} \subseteq WorkingDates(cut, cut + 1) =>
              {cut, cut + 1} \cap DOMAIN holidays = {} /\ ~IsWeekend(cut) /\ ~IsWeekend(cut + 1)
      <3>1. PICK s : s = <<cut, cut + 1>>
        OBVIOUS
      <3>2. s \in DateRange /\ s[1] = cut /\ s[2] = cut + 1
        BY <2>4, <3>1
      <3>3. \A d \in cut..(cut + 1) :
                d \in HolidaySet(Years(cut, cut + 1)) <=> d \in DOMAIN holidays
        BY <3>2, HolidaysOfRange
      <3> QED BY <2>2, <3>3 DEF WorkingDates
    <2> QED BY <2>1, <2>5, <2>8, <2>9, <2>10
  <1> QED BY <1>1, YearsAgreeInvariant, PTL
=============================================================================
