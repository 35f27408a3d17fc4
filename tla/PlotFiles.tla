------------------------------ MODULE PlotFiles ------------------------------
(* The plot files of BISICLES as bisicles_cmip7_postproc sees them: what it
   learns from a name (filename_parser.py), which files it finds
   (diagnostics.py) and which times it gives them (flatten.py, cf_utils.py).

   A time in years is counted in eighths of a day of a year of 365.25 days, so
   that dates and the middle of two dates are exact; a time in days is a count
   of days since the reference year.  A file is a record:
     name    its place in the order of names
     style   "old" and "new" are the names of the coupled model, "plain" that
             of BISICLES run alone, which carries no date
     sheet, period, start, end (dates as <<year, month>>), mean
     time    the time written in the file: 0 in the coupled model
     bounds  whether the flatten tool writes time bounds for it
     vars    the names of its fields
     epsg    the number of its projection
     cells   its cells, by a name, and own, whether they are on the file's own grid *)
EXTENDS Integers, Sequences, FiniteSets, CmipTables

Year == 2922
NoInfo == [mean |-> FALSE, start |-> <<0, 0>>]

(* ----------------------------- filename_parser ---------------------------- *)

DaysInMonth == <<31, 28, 31, 30, 31, 30, 31, 31, 30, 31, 30, 31>>
DaysBefore(month) ==
    LET sum[k \in 0..12] == IF k = 0 THEN 0 ELSE sum[k - 1] + DaysInMonth[k]
    IN sum[month - 1]

\* The first of a month as a fractional year, in years of 365.25 days.
yyyymmdd_to_year(date) == date[1] * Year + 8 * DaysBefore(date[2])

\* The old name has no start and no period; a plain name says nothing.
parse_bisicles_filename(f) ==
    IF f.style = "plain" THEN NoInfo
    ELSE [mean   |-> f.mean /\ f.style = "new",
          start  |-> IF f.style = "old" THEN f.end ELSE f.start,
          end    |-> f.end,
          sheet  |-> f.sheet,
          period |-> IF f.style = "old" THEN "" ELSE f.period]

\* The nominal time of a parsed file: the date of a snapshot, the middle of a mean.
time_years(info) ==
    IF info.mean
    THEN (yyyymmdd_to_year(info.start) + yyyymmdd_to_year(info.end)) \div 2
    ELSE yyyymmdd_to_year(info.end)

(* ------------------------- finding the plot files ------------------------- *)

\* A glob pattern selects by the kind of name, the sheet and whether it is that of
\* a mean; the default takes every plain name, that of a mean (plot.CF.*) too.
Matches(pattern, f) ==
    IF pattern[1] = "plain" THEN f.style = "plain"
    ELSE f.style # "plain" /\ f.sheet = pattern[2] /\ f.mean = pattern[3]

\* The files a pattern finds, in the order of their names.
find_plot_files(present, pattern) ==
    LET found == {f \in present : Matches(pattern, f)}
    IN [i \in 1..Cardinality(found) |->
          CHOOSE f \in found : Cardinality({g \in found : g.name < f.name}) = i - 1]

(* --------------------------- times of the fields -------------------------- *)

Distance(a, b) == IF a < b THEN b - a ELSE a - b
\* Python's round: to the nearest, and to the even one of two that are as near.
Rounded(t) ==
    LET low == t \div Year
        rest == t % Year
    IN IF 2 * rest < Year \/ (2 * rest = Year /\ low % 2 = 0) THEN low ELSE low + 1

\* The year a mean of a plain file is taken to be of, from its time alone: the
\* middle of the year, or its end.
InferredYear(t) ==
    IF 10 * Distance(t % Year, Year \div 2) < Year THEN t \div Year ELSE Rounded(t) - 1

\* Time, kind and bounds that write_cmip7_per_variable_netcdfs gives a file: of
\* its name, else of what the flatten tool wrote.
TimeMetadata(f) ==
    LET info == parse_bisicles_filename(f)
        year == InferredYear(f.time)
        start == IF f.bounds THEN yyyymmdd_to_year(f.start) ELSE year * Year
        end == IF f.bounds THEN yyyymmdd_to_year(f.end) ELSE (year + 1) * Year
    IN CASE info # NoInfo ->
              [t |-> time_years(info), mean |-> info.mean,
               start |-> yyyymmdd_to_year(info.start), end |-> yyyymmdd_to_year(info.end)]
         [] info = NoInfo /\ f.mean ->
              [t |-> (start + end) \div 2, mean |-> TRUE, start |-> start, end |-> end]
         [] OTHER -> [t |-> f.time, mean |-> FALSE, start |-> f.time, end |-> f.time]

(* -------------------------------- calendars ------------------------------- *)

IsLeap(y) == (y % 4 = 0 /\ y % 100 # 0) \/ y % 400 = 0

\* Days from the start of the reference year to the first of a month.
exact_days_since(year, month, ref, calendar) ==
    IF calendar = "360_day" THEN (year - ref) * 360 + (month - 1) * 30
    ELSE 365 * (IF year > ref THEN year - ref ELSE 0)
         + Cardinality({y \in ref..(year - 1) : IsLeap(y)})
         + DaysBefore(month) + (IF IsLeap(year) /\ month > 2 THEN 1 ELSE 0)

\* The time of a scalar: years of equal length, in eighths of a day.
years_to_days(t, ref, calendar) ==
    IF calendar = "360_day" THEN ((t - ref * Year) * 360 * 8) \div Year ELSE t - ref * Year

\* Faulty variant: every time put on the nearest first of January.
NearestYear(m, ref, calendar) ==
    LET d == exact_days_since(Rounded(m.t), 1, ref, calendar)
    IN [day |-> d, start |-> d, end |-> d]

\* The time axis of the fields: a mean of a calendar year is put on the first of July,
\* everything else on the first of January that is nearest, with bounds of
\* no length.
to_exact_days(m, ref, calendar) ==
    LET s == Rounded(m.start)
        e == Rounded(m.end)
        whole == /\ m.mean /\ e - s = 1
                 /\ 100 * Distance(m.start, s * Year) < Year
                 /\ 100 * Distance(m.end, e * Year) < Year
        d == exact_days_since(Rounded(m.t), 1, ref, calendar)
    IN IF whole THEN [day   |-> exact_days_since(s, 7, ref, calendar),
                      start |-> exact_days_since(s, 1, ref, calendar),
                      end   |-> exact_days_since(e, 1, ref, calendar)]
       ELSE [day |-> d, start |-> d, end |-> d]
=============================================================================
