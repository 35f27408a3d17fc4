----------------------------- MODULE CmipTables -----------------------------
(* The tables of bisicles_cmip7_postproc/cmip7_vars.py: which field or
   integral of BISICLES becomes which CMIP7 variable, and in which unit.  A
   factor is kept as the product it is made of: ICE_DENSITY in kg m-3,
   SECS_PER_YEAR in s a-1.  Standard names, long names and comments are left
   out.  The order of a table is the order in which its files are written. *)
EXTENDS Integers, Sequences

\* The entries that share a unit, a factor and a result.
Entries(names, from, factor, to) ==
    [i \in 1..Len(names) |-> [name   |-> names[i][1], cmip7_name |-> names[i][2],
                              from   |-> from, factor |-> factor, to |-> to]]

Same(names) == [i \in 1..Len(names) |-> <<names[i], names[i]>>]

\* Snapshots name their fields as BISICLES does.
FIELD_MAPPING ==
    Entries(<<<<"thickness", "lithk">>, <<"Z_surface", "orog">>, <<"Z_base", "topg">>>>,
            "m", "1", "m")
    \o Entries(<<<<"activeSurfaceThicknessSource", "acabf">>,
                 <<"activeBasalThicknessSource", "libmassbf">>,
                 <<"calvingFlux", "licalvf">>>>, "m a-1", "rho/s", "kg m-2 s-1")
    \o Entries(<<<<"dragCoef", "strbasemag">>>>, "Pa", "1", "Pa")
    \o Entries(<<<<"xVel", "xvelmean">>, <<"yVel", "yvelmean">>>>, "m a-1", "1/s", "m s-1")
    \o Entries(<<<<"iceFrac", "sftgif">>>>, "1", "1", "1")
    \o Entries(<<<<"Z_bottom", "base">>>>, "m", "1", "m")
    \o Entries(<<<<"dThickness/dt", "dlithkdt">>, <<"divergenceThicknessFlux", "divflux">>>>,
               "m a-1", "1/s", "m s-1")
    \o Entries(<<<<"tillWaterDepth", "tillwatd">>, <<"melangeThickness", "melangeThickness">>>>,
               "m", "1", "m")

\* Files of time means have the CMIP7 names and other units; the mass fluxes are
\* in mass already.
CFTable(flux) ==
    Entries(Same(<<"lithk", "orog", "topg">>), "m", "1", "m")
    \o Entries(Same(<<"xvelbase", "yvelbase", "xvelsurf", "yvelsurf">>), "m a-1", "1/s", "m s-1")
    \o Entries(Same(<<"litemptop", "litempbot">>), "K", "1", "K")
    \o Entries(Same(<<"sftgrf", "sftflf">>), "1", "100", "%")
    \o Entries(Same(<<"acabf", "libmassbf", "licalvf">>), "kg m-2 a-1", flux, "kg m-2 s-1")
    \o Entries(Same(<<"strbasemag">>), "Pa", "1", "Pa")
    \o Entries(Same(<<"hfgeoubed">>), "W m-2", "1", "W m-2")
    \o Entries(Same(<<"sftgif">>), "1", "1", "1")
    \o Entries(Same(<<"libmassbfgr", "libmassbffl">>), "kg m-2 a-1", flux, "kg m-2 s-1")
    \o Entries(Same(<<"dlithkdt">>), "m a-1", "1/s", "m s-1")
    \o Entries(Same(<<"litempbotgr", "litempbotfl">>), "K", "1", "K")

CF_FIELD_MAPPING == CFTable("1/s")

\* Fractions of grounded and of floating ice, made from fraction and mask.
DERIVED_FIELDS == Entries(Same(<<"sftgrf", "sftflf">>), "1", "100", "%")

GRID_GEOMETRY_FIELDS == <<"modelcellareai">>

\* What the diagnostics tool integrates, by region and quantity.
SCALAR_MAPPING ==
    Entries(<<<<<<"entire", "volume">>, "lim">>, <<<<"entire", "volumeAbove">>, "limnsw">>>>,
            "m3", "rho", "kg")
    \o Entries(<<<<<<"grounded", "area">>, "iareagr">>, <<<<"floating", "area">>, "iareafl">>>>,
               "m2", "1", "m2")
    \o Entries(<<<<<<"ice", "SMB">>, "tendacabf">>, <<<<"ice", "BMB">>, "tendlibmassbf">>,
                 <<<<"ice", "calving">>, "tendlicalvf">>>>, "m3 a-1", "rho/s", "kg s-1")
    \o Entries(<<<<<<"ice", "fracArea">>, "iarea">>>>, "m2", "1", "m2")
    \o Entries(<<<<<<"ice", "discharge">>, "discharge_total">>, <<<<"ice", "dhdt">>, "tendlim_dhdt">>,
                 <<<<"entire", "SMB">>, "tendacabf_domain">>>>, "m3 a-1", "rho/s", "kg s-1")

(* -------------------------- dimensions of units -------------------------- *)

\* Exponents of a unit or of a factor in kg, m, s, years, K and hundredths.
Dim(kg, mm, s, a, kelvin, percent) == <<kg, mm, s, a, kelvin, percent>>

Dimension ==
    [u \in {"1", "100", "%", "m", "m2", "m3", "K", "Pa", "W m-2", "kg", "m a-1", "m s-1",
            "m3 a-1", "kg s-1", "kg m-2 a-1", "kg m-2 s-1", "rho", "1/s", "rho/s"} |->
        CASE u = "1"          -> Dim(0, 0, 0, 0, 0, 0)
          [] u \in {"100", "%"} -> Dim(0, 0, 0, 0, 0, 1)
          [] u = "m"          -> Dim(0, 1, 0, 0, 0, 0)
          [] u = "m2"         -> Dim(0, 2, 0, 0, 0, 0)
          [] u = "m3"         -> Dim(0, 3, 0, 0, 0, 0)
          [] u = "K"          -> Dim(0, 0, 0, 0, 1, 0)
          [] u = "Pa"         -> Dim(1, -1, -2, 0, 0, 0)
          [] u = "W m-2"      -> Dim(1, 0, -3, 0, 0, 0)
          [] u = "kg"         -> Dim(1, 0, 0, 0, 0, 0)
          [] u = "m a-1"      -> Dim(0, 1, 0, -1, 0, 0)
          [] u = "m s-1"      -> Dim(0, 1, -1, 0, 0, 0)
          [] u = "m3 a-1"     -> Dim(0, 3, 0, -1, 0, 0)
          [] u = "kg s-1"     -> Dim(1, 0, -1, 0, 0, 0)
          [] u = "kg m-2 a-1" -> Dim(1, -2, 0, -1, 0, 0)
          [] u = "kg m-2 s-1" -> Dim(1, -2, -1, 0, 0, 0)
          [] u = "rho"        -> Dim(1, -3, 0, 0, 0, 0)
          [] u = "1/s"        -> Dim(0, 0, -1, 1, 0, 0)
          [] u = "rho/s"      -> Dim(1, -3, -1, 1, 0, 0)]

\* What an entry writes is in the unit it says it is in.
Converts(e) == \A i \in 1..6 :
    Dimension[e.from][i] + Dimension[e.factor][i] = Dimension[e.to][i]

AllEntries == FIELD_MAPPING \o CF_FIELD_MAPPING \o DERIVED_FIELDS \o SCALAR_MAPPING

\* A fact about the tables, which TLC evaluates before every run: every factor
\* turns the unit of BISICLES into that of the output, and a variable has one
\* unit whichever table it is written from.
ASSUME UnitsAgree ==
    /\ \A i \in 1..Len(AllEntries) : Converts(AllEntries[i])
    /\ \A i, j \in 1..Len(AllEntries) :
         AllEntries[i].cmip7_name = AllEntries[j].cmip7_name
             => AllEntries[i].to = AllEntries[j].to
=============================================================================
