----------------------------- MODULE CmipSeries -----------------------------
(* bisicles_cmip7_postproc at work: the commands of cli.py read an archive of
   plot files, which the model may still be adding to, run a BISICLES file tool
   on each and write one netCDF file per variable.  flatten.py writes fields,
   diagnostics.py writes integrals; both take one file or a directory.

   A field of a file and an integral over it are known by the name of the file
   they come from.  An output file is a record: the attempt that wrote it,
   whether it is whole, the table it was written from, the names of the plot
   files its values come from in the order of the time axis, the times of that
   axis, in years and as written in days, their bounds (none unless some step
   is a mean), the "time: mean" label, and the labels of the whole file. *)
EXTENDS PlotFiles, CmipGrid, CmipOptions, Finite, SequencesExt

CONSTANTS Archives,      \* sequences of plot files, as the model may write them
          Commands,      \* what is typed, see CmipOptions, by number
          Quantities,    \* what the diagnostics tool integrates (region and quantity)
          ReferenceYear,
          Transects,     \* the cells of a plot file, by name
          Pyproj,        \* whether pyproj is installed
          MaxAttempts    \* bound: commands given

ASSUME BoundsAssumption == MaxAttempts \in Nat /\ ReferenceYear \in Nat

VARIABLES
    archive,   \* the files of the run, in the order they appear
    present,   \* how many of them are there
    attempt,   \* commands given so far
    command,   \* the number of the last one
    opt,       \* its options in effect
    pc,        \* where it is
    listed,    \* plot files to process
    at,        \* how many of them the tool has processed
    temps,     \* temporary files: the attempt and the kind
    csv,       \* what the diagnostics tool has reported: plot files
    data,      \* all_data: plot files flattened
    steps,     \* the time axis: a time, and where its values come from
    todo,      \* output files to write
    out        \* the output directory

inputs == <<archive, present>>
request == <<attempt, command, opt, listed>>
vars == <<inputs, request, pc, at, temps, csv, data, steps, todo, out>>

Present == {archive[i] : i \in 1..present}
Typed == Commands[command]
Diagnosing == Tool(Typed) = "diagnostics"
WholeDirectory == Typed.scope = "dir"
Regrids == "grid_spec" \in DOMAIN opt /\ opt["grid_spec"]
KeepsIntermediate == ~Diagnosing /\ ~WholeDirectory /\ opt["keep_intermediate"]

(* ------------------------------ the commands ------------------------------ *)

Working == {"open", "tool", "sort", "gather", "write", "fill"}
Final == {"done", "failed", "refused", "killed"}

\* BISICLES writes its next plot file.
WritePlot ==
    /\ present < Len(archive)
    /\ present' = present + 1
    /\ UNCHANGED <<archive, request, pc, at, temps, csv, data, steps, todo, out>>

\* Time means are turned away by the diagnostics, if their name tells them.
check_not_cf_mean(f) == parse_bisicles_filename(f).mean

\* No command is at work, and another may be given.
AtPrompt == pc = "idle" /\ attempt < MaxAttempts

\* Command n, with the plot files l it takes; what it does first is next.
Start(n, l, next) ==
    /\ attempt' = attempt + 1 /\ command' = n /\ opt' = Effective(Commands[n])
    /\ listed' = l /\ pc' = next
    /\ UNCHANGED <<inputs, at, temps, csv, data, steps, todo, out>>

Accepted(n, tool, scope) ==
    AtPrompt /\ Tool(Commands[n]) = tool /\ Commands[n].scope = scope /\ ~IsRefused(Effective(Commands[n]))

Refuse(n) == AtPrompt /\ IsRefused(Effective(Commands[n])) /\ Start(n, <<>>, "refused")

\* All the files that are there when the command begins; none is an error.
FlattenDirectory(n) ==
    /\ Accepted(n, "flatten", "dir")
    /\ LET l == find_plot_files(Present, Effective(Commands[n])["plot_pattern"])
       IN Start(n, l, IF l = <<>> THEN "failed" ELSE "open")

FlattenFile(n) ==
    /\ Accepted(n, "flatten", "file")
    /\ \E f \in Present : Start(n, <<f>>, "open")

DiagnoseDirectory(n) ==
    /\ Accepted(n, "diagnostics", "dir")
    /\ LET l == find_plot_files(Present, Effective(Commands[n])["plot_pattern"])
       IN Start(n, l, IF l = <<>> THEN "failed" ELSE "open")

DiagnoseFile(n) ==
    /\ Accepted(n, "diagnostics", "file")
    /\ \E f \in Present : Start(n, <<f>>, IF check_not_cf_mean(f) THEN "failed" ELSE "open")

\* A temporary file for what the tool writes: one for each plot file, or for
\* the diagnostics of a directory one for all.
OpenTemp ==
    /\ pc = "open" /\ pc' = "tool"
    /\ temps' = IF KeepsIntermediate THEN temps ELSE temps \cup {<<attempt, Tool(Typed)>>}
    /\ UNCHANGED <<inputs, request, at, csv, data, steps, todo, out>>

Unlinked == temps \ {<<attempt, Tool(Typed)>>}

\* Faulty variant: the csv file begun again for every plot file.
Overwritten(i, reported, f) == <<f>>

\* What is in the csv file after the tool has run on the i-th plot file.
Reported(i, reported, f) == IF i > 1 THEN Append(reported, f) ELSE <<f>>

\* The diagnostics tool runs on the next plot file, unless it is a time mean,
\* and adds to the csv file of all, or fails.
run_diagnostics(ok) ==
    LET f == listed[at + 1]
    IN /\ pc = "tool" /\ Diagnosing
       /\ IF ok /\ ~check_not_cf_mean(f)
          THEN /\ csv' = Reported(at + 1, csv, f)
               /\ at' = at + 1
               /\ pc' = IF at + 1 = Len(listed) THEN "sort" ELSE "tool"
               /\ UNCHANGED temps
          ELSE /\ pc' = "failed"
               \* csv_file of process_single_file is set by the call that failed
               /\ temps' = IF WholeDirectory THEN Unlinked ELSE temps
               /\ UNCHANGED <<csv, at>>
       /\ UNCHANGED <<inputs, request, data, steps, todo, out>>

\* What the flatten tool writes, fields and coordinates by their names.
Flattened(f) == f.vars \cup {"x", "y", "time", "crs"} \cup (IF f.bounds THEN {"time_bnds"} ELSE {})

Coordinates == {"x", "y", "time", "time_bnds", "time_bounds", "crs", "level"}

\* The fields are what is left without coordinates; bounds are taken if there.
read_flatten_nc(f) ==
    [f EXCEPT !.vars = Flattened(f) \ Coordinates, !.bounds = "time_bnds" \in Flattened(f)]

\* Interpolation to another grid carries over the time and the projection, no bounds.
regrid(d) == [d EXCEPT !.bounds = FALSE, !.own = FALSE]

Data(f, grid) == IF grid THEN regrid(read_flatten_nc(f)) ELSE read_flatten_nc(f)
DataOf(f) == Data(f, Regrids)
CellsOf(d) == IF d.own THEN OwnGrid(Transects[d.cells]) ELSE Interpolated(Transects[d.cells])

\* A plot file, on its own grid.
PlotFile ==
    [name : Int, style : {"old", "new", "plain"}, sheet : STRING, period : STRING,
     start : Nat \X (1..12), end : Nat \X (1..12), mean : BOOLEAN, time : Int, bounds : BOOLEAN,
     vars : SUBSET STRING, epsg : Nat, cells : DOMAIN Transects, own : {TRUE}]

\* Plot files have names of their own and a number of fields, and BISICLES writes no two
\* for the same time that one command finds.
ASSUME ArchivesAssumption ==
    \A a \in Archives :
        /\ a \in Seq(PlotFile)
        /\ \A i \in DOMAIN a : IsFiniteSet(a[i].vars)
        /\ \A i, j \in DOMAIN a : a[i].name = a[j].name => i = j
        /\ \A n \in DOMAIN Commands : LET o == Effective(Commands[n]) IN
              ~IsRefused(o) => \A grid \in BOOLEAN : \A f, g \in ToSet(a) :
                  /\ Matches(o["plot_pattern"], f) /\ Matches(o["plot_pattern"], g)
                  /\ TimeMetadata(Data(f, grid)).t = TimeMetadata(Data(g, grid)).t
                  => f = g

\* The numbers of the masks that diagnostics are asked for are a list.
ASSUME CommandsAssumption ==
    \A n \in DOMAIN Commands : LET o == Effective(Commands[n]) IN
        Tool(Commands[n]) = "diagnostics" /\ ~IsRefused(o) => IsFiniteSet(o["masks"])

\* The mask BISICLES writes says of ice whether it floats.
ASSUME TransectsAssumption ==
    \A t \in DOMAIN Transects :
        /\ Transects[t] \in Seq([h : Nat, b : Int, frac : Nat, mask : {1, 2, 4, 8}])
        /\ \A i \in DOMAIN Transects[t] : LET c == Transects[t][i] IN
              /\ c.h > 0 => c.mask \in {GROUNDED_MASK_VAL, FLOATING_MASK_VAL}
              /\ c.mask = FLOATING_MASK_VAL => 918 * c.h <= -1028 * c.b
              /\ c.mask = GROUNDED_MASK_VAL => 918 * c.h > -1028 * c.b

\* The flatten tool runs on the next plot file; its result is read, put on the
\* grid asked for, and removed.
run_flatten(ok) ==
    /\ pc = "tool" /\ ~Diagnosing
    /\ temps' = Unlinked
    /\ IF ok
       THEN /\ data' = Append(data, DataOf(listed[at + 1]))
            /\ at' = at + 1
            /\ pc' = IF at + 1 = Len(listed) THEN "sort" ELSE "open"
       ELSE pc' = "failed" /\ UNCHANGED <<data, at>>
    /\ UNCHANGED <<inputs, request, csv, steps, todo, out>>

(* --------------------------- writing the fields --------------------------- *)

\* Fractions of grounded and floating ice are added where fraction and mask of
\* the ice are there or can be made from the geometry, before any table is read.
compute_derived_fields(f) ==
    IF /\ f.vars \cap {"iceFrac", "thickness"} # {}
       /\ "mask" \in f.vars \/ {"thickness", "Z_base"} \subseteq f.vars
    THEN {"sftgrf", "sftflf"} ELSE {}

Variables(f) == f.vars \cup compute_derived_fields(f)
Names(table) == {table[i].name : i \in DOMAIN table}
InTables == Names(FIELD_MAPPING) \cup Names(CF_FIELD_MAPPING) \cup Names(DERIVED_FIELDS)

\* The files of s with a variable, in the order of s.
With(s, v) == Selected(s, {i \in DOMAIN s : v \in Variables(s[i])})

\* Faulty variant: the series left in the order of the files' names.
InOrderOfNames(times) == [k \in DOMAIN times |-> k]

\* The order of the steps by time; steps of one time stay in the order of names.
sort_idx(times) ==
    [k \in DOMAIN times |->
        CHOOSE i \in DOMAIN times :
            Cardinality({j \in DOMAIN times :
                times[j] < times[i] \/ (times[j] = times[i] /\ j < i)}) = k - 1]

\* A list of as many values as there are steps; Python raises IndexError else.
CanSort(s) == \A k \in DOMAIN steps : steps[k].index \in DOMAIN s

\* Phase 2 of write_cmip7_per_variable_netcdfs: the steps in the order of time.
SortSteps ==
    LET times == [i \in DOMAIN data |-> TimeMetadata(data[i]).t]
    IN /\ pc = "sort" /\ ~Diagnosing
       /\ steps' = [k \in DOMAIN data |-> [index |-> sort_idx(times)[k],
                                           meta  |-> TimeMetadata(data[sort_idx(times)[k]])]]
       /\ pc' = "gather"
       /\ UNCHANGED <<inputs, request, at, temps, csv, data, todo, out>>

period_to_cmip_frequency(period) ==
    CASE period = "1y" -> "yr" [] period = "10y" -> "dec" [] period = "1m" -> "mon"
      [] OTHER -> period

Named(s) == SelectSeq(s, LAMBDA f : parse_bisicles_filename(f) # NoInfo)

\* The labels of every output file: what is not given is taken from the first
\* plot file with a name that tells it.
get_global_attributes ==
    LET first == parse_bisicles_filename(Head(Named(listed)))
        Label(key, derived) ==
            IF opt[key] = "" /\ Named(listed) # <<>> THEN derived ELSE opt[key]
    IN [ice_sheet  |-> Label("ice_sheet", first.sheet),
        frequency  |-> Label("frequency", period_to_cmip_frequency(first.period)),
        grid_label |-> IF Regrids /\ ~opt["ismip7_mode"] THEN "gr" ELSE "gn"]

\* The names of output files: in the way of ISMIP7 they hold the years and the model.
ismip7_drs_filename(v, mask, years) ==
    IF opt["ismip7_mode"]
    THEN <<v, mask, years[1] \div Year, years[Len(years)] \div Year, opt["ism_id"]>>
    ELSE <<v, mask>>

\* The time axis: days worked out by the caller, or from the years.
add_time_variable(years, days) ==
    IF days # <<>> THEN days
    ELSE [k \in DOMAIN years |-> years_to_days(years[k], ReferenceYear, opt["calendar"])]

\* Bounds are written for all steps if any is a mean.
add_time_bounds(means, starts, ends) ==
    IF TRUE \in Range(means) THEN [k \in DOMAIN means |-> <<starts[k], ends[k]>>] ELSE <<>>

\* What is to be written: the name of an output file, whether its steps are
\* complete, and what it will hold.
Output(name, table, ready, files, axis) ==
    [name |-> name, ready |-> ready,
     file |-> [attempt |-> attempt, whole |-> TRUE, table |-> table, files |-> files,
               axis |-> axis, labels |-> get_global_attributes]]

\* Derived fields are collected, in Phase 1, where the second table has not taken them.
NotTaken(e) == e.name \notin Names(CF_FIELD_MAPPING)

\* The projection is the one given, else that of the first file; an origin belongs
\* to the one given.
Grid ==
    LET epsg == IF opt["epsg_code"] # 0 THEN opt["epsg_code"] ELSE data[1].epsg
    IN [xy |-> add_xy_variables(epsg),
        latlon |-> add_latlon_variables(compute_latlon_arrays(epsg, Pyproj)),
        crs |-> add_crs_variable(epsg, UKESM_GRID_ORIGINS(opt["epsg_code"]))]

\* The axis of all fields; one kind, that of the first step, is the label of all.
FieldAxis ==
    LET years == [k \in DOMAIN steps |-> steps[k].meta.t]
        exact == [k \in DOMAIN steps |->
                     to_exact_days(steps[k].meta, ReferenceYear, opt["calendar"])]
    IN [years |-> years, mean |-> steps[1].meta.mean, grid |-> Grid,
        days |-> add_time_variable(years, [k \in DOMAIN steps |-> exact[k].day]),
        bounds |-> add_time_bounds([k \in DOMAIN steps |-> steps[k].meta.mean],
                                   [k \in DOMAIN steps |-> exact[k].start],
                                   [k \in DOMAIN steps |-> exact[k].end])]

\* The file of a field that some plot files have, in the order of the steps.
FieldFile(name, table, from) ==
    LET there == Selected(steps, {k \in DOMAIN steps : steps[k].index \in DOMAIN from})
    IN Output(name, table, CanSort(from),
              [k \in DOMAIN there |-> from[there[k].index].name], FieldAxis)

\* The files of a table: of the fields of it that any plot file has.
TableFiles(table, tag) ==
    LET there == Selected(table, {i \in DOMAIN table : With(data, table[i].name) # <<>>})
    IN [i \in DOMAIN there |->
           FieldFile(ismip7_drs_filename(there[i].cmip7_name, 0, FieldAxis.years), tag,
                     With(data, there[i].name))]

\* The files of the fields no table knows, in any order.
OtherFiles ==
    LET other == SetToSeq(UNION {data[i].vars : i \in DOMAIN data} \ InTables)
    IN [i \in DOMAIN other |-> FieldFile(<<other[i], 0>>, "unmapped", With(data, other[i]))]

\* Phases 1, 3 and 4: the files of all tables, then the fields of no table, then
\* the area of a cell.
Fields ==
    TableFiles(FIELD_MAPPING, "field") \o TableFiles(CF_FIELD_MAPPING, "cf")
    \o TableFiles(Selected(DERIVED_FIELDS, {i \in DOMAIN DERIVED_FIELDS : NotTaken(DERIVED_FIELDS[i])}),
                  "derived")
    \o (IF opt["cmip7_only"] THEN <<>> ELSE OtherFiles)
    \o [i \in DOMAIN GRID_GEOMETRY_FIELDS |->
           FieldFile(<<GRID_GEOMETRY_FIELDS[i], 0>>, "geometry", data)]

GatherFields ==
    /\ pc = "gather" /\ ~Diagnosing
    /\ todo' = Fields /\ pc' = "write"
    /\ UNCHANGED <<inputs, request, at, temps, csv, data, steps, out>>

(* -------------------------- writing the integrals ------------------------- *)

\* A record's time: of its file's name, else the one the tool reports.
RecordTime(f) == LET info == parse_bisicles_filename(f)
                 IN IF info # NoInfo THEN time_years(info) ELSE f.time

\* The dates of a step that is a mean by its name, else its time twice.
RecordBounds(f) ==
    LET info == parse_bisicles_filename(f)
    IN IF info.mean THEN <<yyyymmdd_to_year(info.start), yyyymmdd_to_year(info.end)>>
       ELSE <<RecordTime(f), RecordTime(f)>>

\* The times reported, ascending, and for each the last file reported with it.
Timeline(reported) ==
    LET ts == InOrder({RecordTime(reported[i]) : i \in DOMAIN reported})
        Latest(t) == CHOOSE i \in DOMAIN reported :
            /\ RecordTime(reported[i]) = t
            /\ \A j \in DOMAIN reported : RecordTime(reported[j]) = t => j <= i
    IN [k \in DOMAIN ts |-> [t |-> ts[k], file |-> reported[Latest(ts[k])]]]

SortTimes ==
    /\ pc = "sort" /\ Diagnosing
    /\ steps' = Timeline(csv) /\ pc' = "gather"
    /\ UNCHANGED <<inputs, request, at, temps, csv, data, todo, out>>

\* The quantities the table knows, for every mask, as series.
Scalars ==
    LET years == [k \in DOMAIN steps |-> steps[k].t]
        means == [k \in DOMAIN steps |-> check_not_cf_mean(steps[k].file)]
        Bound(i) == add_time_variable([k \in DOMAIN steps |-> RecordBounds(steps[k].file)[i]], <<>>)
        axis == [years |-> years, days |-> add_time_variable(years, <<>>), grid |-> <<>>,
                 bounds |-> add_time_bounds(means, Bound(1), Bound(2)),
                 mean |-> TRUE \in Range(means)]
        wanted == {e \in ToSet(SCALAR_MAPPING) : e.name \in Quantities}
    IN SetToSeq({Output(ismip7_drs_filename(e.cmip7_name, mask, years), "scalar", TRUE,
                        [k \in DOMAIN steps |-> steps[k].file.name], axis) :
                 e \in wanted, mask \in opt["masks"]})

GatherScalars ==
    /\ pc = "gather" /\ Diagnosing
    /\ todo' = Scalars
    /\ IF Scalars = <<>> THEN pc' = "failed" /\ temps' = Unlinked
       ELSE pc' = "write" /\ UNCHANGED temps
    /\ UNCHANGED <<inputs, request, at, csv, data, steps, out>>

(* ----------------------------- output files ------------------------------- *)

Started == [attempt |-> attempt, whole |-> FALSE]
Opened(name) == [n \in DOMAIN out \cup {name} |-> IF n = name THEN Started ELSE out[n]]

\* Faulty variant: the file is opened before its steps are looked at.
OpenFirst ==
    /\ pc = "write" /\ todo # <<>>
    /\ out' = Opened(Head(todo).name)
    /\ pc' = IF Head(todo).ready THEN "fill" ELSE "failed"
    /\ UNCHANGED <<inputs, request, at, temps, csv, data, steps, todo>>

\* Faulty variant: a field that some step lacks is passed over.
OpenOrSkip ==
    /\ pc = "write" /\ todo # <<>>
    /\ IF Head(todo).ready
       THEN out' = Opened(Head(todo).name) /\ pc' = "fill" /\ UNCHANGED todo
       ELSE todo' = Tail(todo) /\ UNCHANGED <<pc, out>>
    /\ UNCHANGED <<inputs, request, at, temps, csv, data, steps>>

\* The next file is opened, which empties it; a field that some step lacks
\* raises the error before.
OpenOutput ==
    /\ pc = "write" /\ todo # <<>>
    /\ IF Head(todo).ready
       THEN out' = Opened(Head(todo).name) /\ pc' = "fill"
       ELSE pc' = "failed" /\ UNCHANGED out
    /\ UNCHANGED <<inputs, request, at, temps, csv, data, steps, todo>>

\* It is filled and closed.
FillOutput ==
    /\ pc = "fill"
    /\ out' = [out EXCEPT ![Head(todo).name] = Head(todo).file]
    /\ todo' = Tail(todo) /\ pc' = "write"
    /\ UNCHANGED <<inputs, request, at, temps, csv, data, steps>>

\* All are written; the csv file goes in the end.
Finish ==
    /\ pc = "write" /\ todo = <<>>
    /\ pc' = "done"
    /\ temps' = IF Diagnosing THEN Unlinked ELSE temps
    /\ UNCHANGED <<inputs, request, at, csv, data, steps, todo, out>>

\* A batch job runs into its time limit.
Kill == /\ pc \in Working
        /\ pc' = "killed"
        /\ UNCHANGED <<inputs, request, at, temps, csv, data, steps, todo, out>>

\* The process ends; what it had in memory is gone.
Return ==
    /\ pc \in Final
    /\ pc' = "idle"
    /\ listed' = <<>> /\ opt' = <<>>
    /\ at' = 0 /\ csv' = <<>> /\ data' = <<>> /\ steps' = <<>> /\ todo' = <<>>
    /\ UNCHANGED <<inputs, attempt, command, temps, out>>

Init ==
    /\ archive \in Archives /\ present = Len(archive) - 1
    /\ attempt = 0 /\ command = 1 /\ opt = <<>> /\ pc = "idle"
    /\ listed = <<>> /\ at = 0 /\ temps = {} /\ csv = <<>> /\ data = <<>> /\ steps = <<>> /\ todo = <<>>
    /\ out = <<>>

Step == \/ OpenTemp \/ SortSteps \/ SortTimes \/ GatherFields \/ GatherScalars \/ OpenOutput \/ FillOutput \/ Finish
        \/ \E ok \in BOOLEAN : run_flatten(ok) \/ run_diagnostics(ok)

Next == \/ WritePlot \/ Step \/ Kill \/ Return
        \/ \E n \in DOMAIN Commands :
               \/ Refuse(n) \/ FlattenDirectory(n) \/ FlattenFile(n)
               \/ DiagnoseDirectory(n) \/ DiagnoseFile(n)

\* The process runs on; nothing is assumed of whoever gives the commands, of
\* the model that adds plot files or of the batch system.
Spec == Init /\ [][Next]_vars /\ WF_vars(Step)

(* ------------------------------- properties ------------------------------- *)

TypeOK ==
    /\ present \in 1..Len(archive)
    /\ attempt \in 0..MaxAttempts /\ command \in DOMAIN Commands
    /\ pc \in {"idle"} \cup Working \cup Final
    /\ \A s \in {listed, csv} : ToSet(s) \subseteq ToSet(archive)
    /\ at \in 0..Len(listed) /\ Len(data) \in {0, at}
    /\ temps \subseteq (1..MaxAttempts) \X {"flatten", "diagnostics"}
    /\ \A n \in DOMAIN out : out[n].attempt \in 1..attempt /\ out[n].whole \in BOOLEAN

\* The output files of the command that has just ended, in whatever way and at
\* whatever moment, that are whole.
Results == {n \in DOMAIN out : pc \in Final /\ out[n].attempt = attempt /\ out[n].whole}
FieldResults == {n \in Results : out[n].table # "scalar"}
FileNamed(n) == CHOOSE f \in ToSet(archive) : f.name = n
Increasing(s) == \A i, j \in DOMAIN s : i < j => s[i] < s[j]

\* In the file of every field the k-th value comes from the plot file whose time
\* is the k-th on the axis, times ascend, and every plot file of the run is
\* there once (flatten.py, _sort and the lists it orders).
SeriesAligned == \A n \in FieldResults :
    LET r == out[n] IN
    /\ \A k \in DOMAIN r.files : TimeMetadata(DataOf(FileNamed(r.files[k]))).t = r.axis.years[k]
    /\ Increasing(r.axis.years)
    /\ Len(r.files) = Len(listed)
    /\ ToSet(r.files) = {f.name : f \in ToSet(listed)}

\* A flatten run that reports success has written every field it has a table
\* entry for, of every file it listed: a field that is missing from one file is
\* not left out, nor are the steps that lack it (write_cmip7_per_variable_netcdfs).
SuccessIsComplete ==
    pc = "done" /\ ~Diagnosing =>
        \A f \in ToSet(listed) : \A e \in ToSet(FIELD_MAPPING \o CF_FIELD_MAPPING) :
            e.name \in Variables(f) =>
                \E n \in FieldResults : n[1] = e.cmip7_name /\ f.name \in ToSet(out[n].files)

\* The time of a plot file: that written in it where the model keeps one.
OwnTime(f) == IF f.style = "plain" THEN f.time ELSE TimeMetadata(f).t

\* Every scalar of a diagnostics run over a directory has one value for each
\* time of the files listed, in order, and from a file of that time: the csv
\* file is appended to, and the coupled model's clock, which starts again every
\* year, is not used (process_directory, _build_timeseries).
ScalarsComplete ==
    pc = "done" /\ Diagnosing =>
        /\ Results # {}
        /\ \A n \in Results :
             LET r == out[n] IN
             /\ Increasing(r.axis.years)
             /\ ToSet(r.axis.years) = {OwnTime(f) : f \in ToSet(listed)}
             /\ \A k \in DOMAIN r.files : OwnTime(FileNamed(r.files[k])) = r.axis.years[k]

\* A command that ends of itself, in success or in failure, leaves no output
\* file half written: only a killed one does (the IndexError of _sort comes
\* before the file is opened).
FailureLeavesWholeFiles ==
    pc \in {"done", "failed", "refused"} =>
        \A n \in DOMAIN out : out[n].attempt = attempt => out[n].whole

\* A snapshot of the first of January of year y, or a mean of that year, which has
\* its dates in its name or, in a plain one, the middle or the end of the year for its time.
OfYear(f, y) ==
    IF f.mean
    THEN /\ f.start = <<y, 1>> /\ f.end = <<y + 1, 1>> /\ f.style # "old"
         /\ f.style = "plain" => f.time \in {y * Year + Year \div 2, (y + 1) * Year}
    ELSE IF f.style = "plain" THEN f.time = y * Year ELSE f.end = <<y, 1>>

\* Archives of whole years, which is all that to_exact_days is made for.
WholeYears ==
    \A a \in Archives : \A f \in ToSet(a) : \E y \in Nat : y >= ReferenceYear /\ OfYear(f, y)

\* The days of the axis of a field ascend, and a mean lies inside bounds of some
\* length, if the archive is of whole years.
AxisOrdered == \A n \in FieldResults :
    LET r == out[n] IN
    /\ Increasing(r.axis.days)
    /\ \A k \in DOMAIN r.files :
         FileNamed(r.files[k]).mean =>
             r.axis.bounds[k][1] < r.axis.days[k] /\ r.axis.days[k] < r.axis.bounds[k][2]

\* The ice of a cell whose data are read is all grounded or all floating; it
\* floats where its top, afloat, is no lower than on the bed; and outside there is
\* none.  So with the mask and the ice fraction of the file and with those made
\* from the geometry, on the file's grid and on another (_compute_derived_fields);
\* but not with a mask put on another grid, which is interpolated like a field:
\* between 1, grounded, and 4, the sea, comes 2, ice that floats.
IceGroundedOrFloating == pc = "gather" => \A i \in DOMAIN data :
    compute_derived_fields(data[i]) # {} /\ ~("mask" \in data[i].vars /\ Regrids) =>
        \A c \in ToSet(CellsOf(data[i])) :
            LET ice == Fractions(data[i].vars, c)
                floats == (1028 - 918) * c.h >= 1028 * (c.h + c.b)
            IN /\ c.h > HMin => ice.grounded + ice.floating = IceFraction(data[i].vars, c)
               /\ ice.floating > 0 => floats
               /\ ice.grounded > 0 => ~floats
               /\ ~c.there => ice = [grounded |-> 0, floating |-> 0]

=============================================================================
