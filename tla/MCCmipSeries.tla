---------------------------- MODULE MCCmipSeries ----------------------------
(* Small archives and the commands that are given on them. *)
EXTENDS CmipSeries

MCReferenceYear == 1850

\* From the mountains to the sea: rock, ice on it, ice on the bed of the sea, ice
\* that floats (heavier than water as deep as it would be), its thin edge, water,
\* ice aground by itself.
Cell(h, b, frac, mask) == [h |-> h, b |-> b, frac |-> frac, mask |-> mask]
WithShelf == <<Cell(0, 50, 0, 8), Cell(100, 50, 1, 1), Cell(1000, -100, 1, 1), Cell(105, -100, 1, 2),
               Cell(1, -100, 1, 2), Cell(0, -100, 0, 4), Cell(112, -100, 1, 1), Cell(0, -100, 0, 4)>>
\* And an ice sheet that ends on land and in the sea without a shelf.
WithCliff == <<Cell(0, 50, 0, 8), Cell(100, 50, 1, 1), Cell(112, -100, 1, 1), Cell(0, -100, 0, 4)>>
MCTransects == ("shelf" :> WithShelf) @@ ("cliff" :> WithCliff)

Snapshot(n, end, v) == [name |-> n, style |-> "new", sheet |-> "AIS", period |-> "1y",
                        start |-> <<end - 1, 1>>, end |-> <<end, 1>>, mean |-> FALSE,
                        time |-> 0, bounds |-> FALSE, vars |-> v,
                        epsg |-> 3031, cells |-> "shelf", own |-> TRUE]
Mean(n, end, v) == [Snapshot(n, end, v) EXCEPT !.mean = TRUE]
Old(n, end, v) == [Snapshot(n, end, v) EXCEPT !.style = "old", !.period = ""]
Plain(n, year, v) == [Snapshot(n, year, v) EXCEPT !.style = "plain", !.time = year * Year]
\* The time of a plain mean is the end of its year, or its middle, with bounds
\* written or to be inferred.
PlainMean(n, year, middle, bounds, v) ==
    [Mean(n, year, v) EXCEPT !.style = "plain", !.bounds = bounds,
        !.time = IF middle THEN (year - 1) * Year + Year \div 2 ELSE year * Year]

Geometry == {"thickness", "Z_base"}
Masks == {"thickness", "iceFrac", "mask", "beta"}
Means == {"lithk", "acabf"}

\* A coupled run with both kinds of files, and one of the other ice sheet.
Coupled == <<Snapshot(1, 1851, Geometry), Mean(2, 1851, Means),
             [Snapshot(3, 1852, Geometry) EXCEPT !.sheet = "GrIS", !.epsg = 3413],
             Snapshot(4, 1852, Geometry)>>
\* One whose file names changed, and one that writes a field more since a restart.
Renamed == <<Old(1, 1851, Masks), [Snapshot(2, 1852, Masks) EXCEPT !.cells = "cliff"]>>
Restarted == <<Snapshot(1, 1851, {"thickness"}), Snapshot(2, 1852, Geometry)>>
\* BISICLES alone: names of means, with letters, come after those of snapshots.
Alone == <<PlainMean(3, 2015, TRUE, TRUE, Geometry), Plain(2, 2016, Geometry),
           PlainMean(4, 2017, FALSE, FALSE, Geometry)>>
MCArchives == {Coupled, Renamed, Restarted, Alone}

\* They are of whole years, of this millennium and the last two.
ASSUME WholeArchives ==
    \A a \in MCArchives : \A f \in ToSet(a) : \E y \in 1850..2100 : OfYear(f, y)

Exe == "exe_path" :> "exe"
OfSheet(mean) == "plot_pattern" :> <<"coupled", "AIS", mean>>
Command(entry, ismip, scope, args, cfg) ==
    [entry |-> entry, ismip |-> ismip, scope |-> scope, args |-> args, cfg |-> cfg,
     file |-> IF entry = "run" THEN "yaml" ELSE "json"]

MCCommands ==
    << Command("flatten", FALSE, "dir", Exe @@ OfSheet(FALSE), <<>>),
       Command("flatten", FALSE, "dir", Exe @@ OfSheet(TRUE) @@ ("calendar" :> "360_day"),
               OfSheet(FALSE) @@ ("calendar" :> "standard")),
       Command("flatten", TRUE, "dir", Exe @@ ("grid" :> "all"), <<>>),
       Command("flatten", FALSE, "file", Exe @@ ("keep_intermediate" :> TRUE), <<>>),
       Command("diagnostics", FALSE, "dir", Exe @@ OfSheet(FALSE) @@ ("masks" :> {0, 1}), <<>>),
       Command("diagnostics", TRUE, "file", Exe @@ ("ism_id" :> "BISICLES-2"), <<>>),
       Command("diagnostics", FALSE, "dir", OfSheet(FALSE), Exe),
       [Command("diagnostics", FALSE, "dir", Exe @@ OfSheet(FALSE), <<>>) EXCEPT !.file = "missing"],
       Command("run", TRUE, "dir", "masks" :> {1},
               Exe @@ ("tool" :> "diagnostics") @@ OfSheet(FALSE) @@ ("masks" :> {0})),
       Command("run", FALSE, "file", "cmip7_only" :> TRUE,
               Exe @@ ("tool" :> "flatten") @@ ("grid" :> "zero") @@ ("epsg" :> 3031)) >>

MCQuantities == {<<"entire", "volume">>, <<"ice", "SMB">>, <<"grounded", "volume">>}
=============================================================================
