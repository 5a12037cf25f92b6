------------------------------- MODULE Numbers -------------------------------
(***************************************************************************)
(* Functions that are nothing but arithmetic: timegm (src/src/time.c),     *)
(* arc4random_uniform (src/src/arc4random_uniform.c), reallocarray         *)
(* (src/src/reallocarray.c) and strtonum (src/src/strtonum.c).  An action  *)
(* calls one of them, with every argument of a small set; words are as     *)
(* narrow as the constants say.                                            *)
(*                                                                         *)
(* A year is counted from 1900, a month and a day of the year from 0, and  *)
(* a time is in seconds since 1970.                                        *)
(*                                                                         *)
(* A definition headed "Variant" is the one it precedes with a bug in it:  *)
(* nothing uses it, it shows what a property of this module tells apart.   *)
(***************************************************************************)
EXTENDS Integers, SequencesExt

CONSTANTS
  Dates,      (* The broken-down times timegm is given.                    *)
  INT_MAX,    (* The largest int.                                          *)
  TimeTypes,  (* What a time_t may be: "long", "int".                 *)
  RootSize,   (* Half the bits of a word: 2^32 for a size_t.               *)
  LLONG_MAX   (* The largest long long.                                    *)

(* The years that begin in a time_t of 32 bits.                            *)
TimeYears == 2..138

BrokenDown ==
  [sec : Int, min : Int, hour : Int, mday : Int, mon : Int, year : TimeYears]

ASSUME DatesAssumption == \A t \in Dates : t \in BrokenDown
ASSUME NumbersAssumption ==
  /\ INT_MAX \in Nat /\ TimeTypes \subseteq {"long", "int"}
  /\ RootSize \in Nat \ {0, 1} /\ LLONG_MAX \in Nat

VARIABLES
  nph,    (* the function that was called, or "idle"                       *)
  tm,     (* the arguments of timegm, then the broken-down time it leaves  *)
  given,  (* the arguments of timegm                                       *)
  num     (* the arguments and the result of the others; of timegm, result *)

numVars == <<nph, tm, given, num>>
NoTm == [sec |-> 0, min |-> 0, hour |-> 0, mday |-> 1, mon |-> 0, year |-> 70]

NumInit == nph = "idle" /\ tm = NoTm /\ given = NoTm /\ num = <<>>

-----------------------------------------------------------------------------
(* timegm.                                                                 *)

is_leapyear(year) ==
  LET y == year + 1900 IN y % 4 = 0 /\ (y % 100 = 0 => y % 400 = 0)

seconds_per_year(year) == 86400 * IF is_leapyear(year) THEN 366 ELSE 365

days_past(leap) ==
  IF leap THEN << 0, 31, 60, 91, 121, 152, 182, 213, 244, 274, 305, 335 >>
  ELSE << 0, 31, 59, 90, 120, 151, 181, 212, 243, 273, 304, 334 >>

(* Variant: a month before January counts back from the wrong year.        *)
MonthBeforeYear(t) ==
  CASE t.mon > 11 -> [t EXCEPT !.mon = @ % 12, !.year = @ + (t.mon \div 12)]
    [] t.mon < 0 -> [t EXCEPT !.mon = @ + 12 * (1 + ((-t.mon) \div 12)),
                              !.year = @ - ((-t.mon) \div 12)]
    [] OTHER -> t

(* A month below 0 that is a multiple of 12 becomes 12: see timegm.        *)
MonthInYear(t) ==
  CASE t.mon > 11 -> [t EXCEPT !.mon = @ % 12, !.year = @ + (t.mon \div 12)]
    [] t.mon < 0 -> [t EXCEPT !.mon = @ + 12 * (1 + ((-t.mon) \div 12)),
                              !.year = @ - (1 + ((-t.mon) \div 12))]
    [] OTHER -> t

(* The seconds from 1970 to the beginning of a year: the sums over years.  *)
Begins[y \in TimeYears] ==
  IF y < 70 THEN Begins[y + 1] - seconds_per_year(y)
  ELSE IF y = 70 THEN 0
  ELSE Begins[y - 1] + seconds_per_year(y - 1)

Ints == (-INT_MAX - 1)..INT_MAX
Wrapped(n) == ((n + INT_MAX + 1) % (2 * (INT_MAX + 1))) - (INT_MAX + 1)

(* A product of ints.  One that is no int is undefined: the build wraps it *)
(* or, because it goes into a long long, has it whole.                     *)
Product(n) == IF n \in Ints THEN {n} ELSE {n, Wrapped(n)}

(* The products of ints in timegm.  days_past and what seconds_per_year    *)
(* returns are unsigned, and theirs fit.                                   *)
Products(t) ==
  {[min |-> m, hour |-> h, days |-> d] :
     m \in Product(t.min * 60), h \in Product(t.hour * 3600),
     d \in Product((t.mday - 1) * 86400)}

(* The seconds since 1970 by the products p; t has its month in its year.  *)
Seconds(t, p) ==
  t.sec + p.min + p.hour + days_past(is_leapyear(t.year))[t.mon + 1] * 86400 + p.days
    + Begins[t.year]

(* The year of a time, and what is left of the time in that year: the      *)
(* first one forward from 1970 that is not over, or the first one backward *)
(* from 1969 that has begun, where the partial year is turned around.      *)
YearOf(result) ==
  LET counter(y) == result - Begins[y]
      last == Min({y \in 70..137 : counter(y) - seconds_per_year(y) < 0})
      back == Max({y \in 2..69 : counter(y + 1) + seconds_per_year(y) >= 0})
  IN  IF result >= 0 THEN [year |-> last, left |-> counter(last)]
      ELSE [year |-> back, left |-> counter(back + 1) + seconds_per_year(back)]

(* Before 1970 the days are counted back from a Wednesday.                 *)
WeekDay(result) ==
  IF result >= 0 THEN (4 + (result \div 86400)) % 7
  ELSE << 3, 2, 1, 0, 6, 5, 4 >>[(((-(result + 1)) \div 86400) % 7) + 1]

Normalized(result) ==
  LET y == YearOf(result)
      past == days_past(is_leapyear(y.year))
      mon == Max({i \in 0..11 : y.left - past[i + 1] * 86400 >= 0})
      left == y.left - past[mon + 1] * 86400
      full_days == left \div 86400
      rest == left % 86400
  IN  [year |-> y.year, mon |-> mon, mday |-> 1 + full_days,
       yday |-> past[mon + 1] + full_days, wday |-> WeekDay(result),
       hour |-> rest \div 3600, min |-> (rest % 3600) \div 60, sec |-> rest % 60]

(* Month 12 is outside days_past: nothing is known of what follows.  A     *)
(* time that a time_t cannot hold is refused, with the month moved.        *)
timegm ==
  /\ nph = "idle"
  /\ \E t \in Dates, time_t \in TimeTypes :
       LET u == MonthInYear(t)
       IN  /\ given' = t
           /\ \/ /\ u.mon < 12
                 /\ \E p \in Products(u) :
                      \/ /\ time_t = "int" => Seconds(u, p) \in Ints
                         /\ num' = Seconds(u, p) /\ tm' = Normalized(num') /\ nph' = "timegm"
                      \/ /\ time_t = "int" /\ Seconds(u, p) \notin Ints
                         /\ num' = -1 /\ tm' = u /\ nph' = "EOVERFLOW"
              \/ u.mon = 12 /\ nph' = "outside" /\ tm' = u /\ UNCHANGED num

-----------------------------------------------------------------------------
(* arc4random_uniform.                                                     *)

Word == RootSize * RootSize

(* Variant: the smallest number that is kept is kept out.                  *)
KeptOut(r, upper_bound) == r > ((Word - upper_bound) % Word) % upper_bound

(* -upper_bound is a word.                                                 *)
Kept(r, upper_bound) == r >= ((Word - upper_bound) % Word) % upper_bound

(* A number that is not kept is drawn again.                               *)
arc4random_uniform ==
  \/ /\ nph = "idle" /\ nph' = "uniform"
     /\ \E upper_bound \in 0..(Word - 1) :
          num' = [bound |-> upper_bound, ret |-> IF upper_bound < 2 THEN 0 ELSE -1]
     /\ UNCHANGED <<tm, given>>
  \/ /\ nph = "uniform" /\ num.ret = -1
     /\ \E r \in 0..(Word - 1) :
          num' = IF Kept(r, num.bound) THEN [num EXCEPT !.ret = r % num.bound] ELSE num
     /\ UNCHANGED <<nph, tm, given>>

-----------------------------------------------------------------------------
(* reallocarray: is it an overflow, and what realloc is asked for if not.  *)

Overflows(nmemb, size) ==
  /\ nmemb >= RootSize \/ size >= RootSize
  /\ nmemb > 0 /\ (Word - 1) \div nmemb < size

reallocarray ==
  /\ nph = "idle" /\ nph' = "reallocarray"
  /\ \E nmemb, size \in 0..(Word - 1) :
       num' = [nmemb |-> nmemb, size |-> size,
               ret |-> IF Overflows(nmemb, size) THEN -1 ELSE (size * nmemb) % Word]
  /\ UNCHANGED <<tm, given>>

-----------------------------------------------------------------------------
(* strtonum.                                                               *)

LLONG_MIN == -LLONG_MAX - 1

(* strtoll of a number v: the nearest long long, and ERANGE.               *)
strtoll(v) ==
  [ll |-> Max({LLONG_MIN, Min({LLONG_MAX, v})}), ERANGE |-> v \notin LLONG_MIN..LLONG_MAX]

Errors(v, isnumber, minval, maxval) ==
  LET n == strtoll(v)
  IN  IF minval > maxval \/ ~isnumber THEN "invalid"
      ELSE IF (n.ll = LLONG_MIN /\ n.ERANGE) \/ n.ll < minval THEN "too small"
      ELSE IF (n.ll = LLONG_MAX /\ n.ERANGE) \/ n.ll > maxval THEN "too large"
      ELSE "none"

strtonum ==
  /\ nph = "idle" /\ nph' = "strtonum"
  /\ \E v \in (LLONG_MIN - 2)..(LLONG_MAX + 2), isnumber \in BOOLEAN,
        minval, maxval \in LLONG_MIN..LLONG_MAX :
       LET error == Errors(v, isnumber, minval, maxval)
       IN  num' = [v |-> v, isnumber |-> isnumber, min |-> minval, max |-> maxval,
                   error |-> error, ret |-> IF error = "none" THEN strtoll(v).ll ELSE 0]
  /\ UNCHANGED <<tm, given>>

NumNext == timegm \/ arc4random_uniform \/ reallocarray \/ strtonum
NumSpec == NumInit /\ [][NumNext]_numVars

-----------------------------------------------------------------------------
(* Properties.                                                             *)

(* Every variable has its type.                                            *)
NumTypeOK ==
  /\ nph \in {"idle", "timegm", "EOVERFLOW", "outside", "uniform", "reallocarray", "strtonum"}
  /\ given.year \in TimeYears /\ tm.mon \in 0..12 /\ tm.year \in Nat
  /\ nph = "timegm" => num \in Int

(* Days from 1970 to a day of the Gregorian calendar, for months counted   *)
(* from March in years that begin there.                                   *)
CivilDay(year, mon, mday) ==
  LET y == year + 1900 - IF mon < 2 THEN 1 ELSE 0
      m == (mon + 10) % 12
  IN  365 * y + y \div 4 - y \div 100 + y \div 400 + (153 * m + 2) \div 5 + mday - 719469

(* The time of a date by the calendar, whatever is outside its range.      *)
CalendarTime(t) ==
  CivilDay(t.year + (t.mon \div 12), t.mon % 12, t.mday) * 86400
    + t.hour * 3600 + t.min * 60 + t.sec

(* The products of timegm are ints: with ints of 32 bits up to 35791394    *)
(* minutes, 596523 hours and 24856 days on either side.                    *)
ProductsFit(t) == {t.min * 60, t.hour * 3600, (t.mday - 1) * 86400} \subseteq Ints

(* timegm's result is the calendar's, whatever is outside its range as     *)
(* long as ProductsFit: "a tm_mon of -2 means 2 months before January".    *)
(* It is refused just when it does not fit.  The fields that are left are  *)
(* inside their ranges and mean what is returned, with the right day of    *)
(* the week and of the year, also before 1970 and across leap days, and    *)
(* even where a product did not fit.  Left out are months below 0 that are *)
(* multiples of 12: for those timegm reads past the end of its table.      *)
CalendarAgrees ==
  /\ nph = "timegm" =>
       LET today == CivilDay(tm.year, tm.mon, tm.mday)
       IN  /\ ProductsFit(given) => num = CalendarTime(given)
           /\ num = today * 86400 + tm.hour * 3600 + tm.min * 60 + tm.sec
           /\ tm.sec \in 0..59 /\ tm.min \in 0..59 /\ tm.hour \in 0..23
           /\ today < CivilDay(tm.year + ((tm.mon + 1) \div 12), (tm.mon + 1) % 12, 1)
           /\ tm.mday >= 1
           /\ tm.wday = (4 + today) % 7 /\ tm.yday = today - CivilDay(tm.year, 0, 1)
  /\ nph = "EOVERFLOW" => num = -1 /\ (ProductsFit(given) => CalendarTime(given) \notin Ints)

(* arc4random_uniform gives every number below its bound the same chance:  *)
(* as many words that are kept lead to each.  reallocarray refuses exactly *)
(* the products that do not fit, and strtonum exactly the numbers outside  *)
(* the range, telling on which side.                                       *)
NumbersExact ==
  /\ nph = "uniform" =>
       LET leads(k) == Cardinality({r \in 0..(Word - 1) : Kept(r, num.bound) /\ r % num.bound = k})
           fair == Word \div num.bound
       IN  /\ num.bound > 1 => \A k \in 0..(num.bound - 1) : leads(k) = fair
           /\ num.ret = -1 \/ num.ret \in 0..Max({num.bound - 1, 0})
  /\ nph = "reallocarray" =>
       num.ret = IF num.nmemb * num.size < Word THEN num.nmemb * num.size ELSE -1
  /\ nph = "strtonum" =>
       /\ num.error = "none" <=> num.isnumber /\ num.v \in num.min..num.max
       /\ num.ret = IF num.error = "none" THEN num.v ELSE 0
       /\ num.error = "too small" => num.v < num.min
       /\ num.error = "too large" => num.v > num.max
=============================================================================
