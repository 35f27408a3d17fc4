----------------------------- MODULE CmipOptions -----------------------------
(* The options of a run of bisicles_cmip7_postproc: what the command line and
   the config file of cli.py and config.py amount to.  Options are a function
   from some of the keys; one command is a record:
     entry  "flatten" or "diagnostics" with options of their own, or "run",
            which is a config file and some --set KEY VALUE
     ismip  whether it is one of the three bike-ismip7-* commands
     scope  "dir" or "file": what its input is
     args   what is given on the command line (by --set for "run")
     cfg    what the config file says (--config for the first two), "tool" in it
     file   how it says so: "yaml", "json" or "missing"
   The six numbers of an output grid are one key, "grid", with the value "all",
   "some" (not all of them given) or "zero" (all given, one of them 0).  The
   numbers of the masks are one key, "masks". *)
EXTENDS TLC, Functions

CONSTANT Yaml  \* whether pyyaml is installed

Refused == [refused |-> TRUE]
IsRefused(o) == "refused" \in DOMAIN o
Only(o, keys) == Restrict(o, DOMAIN o \cap keys)

(* --------------------------------- parsers -------------------------------- *)

add_metadata_args == ("calendar" :> "gregorian") @@ ("ice_sheet" :> "") @@ ("frequency" :> "")
build_diagnostics_parser ==
    ("plot_pattern" :> <<"plain", "", FALSE>>) @@ ("masks" :> {0}) @@ add_metadata_args
build_flatten_parser ==
    ("plot_pattern" :> <<"plain", "", FALSE>>) @@ ("epsg_code" :> 0) @@ ("cmip7_only" :> FALSE)
    @@ ("keep_intermediate" :> FALSE) @@ add_metadata_args

\* The identity of the model, for the names of the files; the other labels of this
\* kind are left out.
add_ismip7_metadata_args == "ism_id" :> "BISICLES"
build_ismip7_diagnostics_parser ==
    ("calendar" :> "standard") @@ add_ismip7_metadata_args @@ build_diagnostics_parser
build_ismip7_flatten_parser ==
    ("calendar" :> "standard") @@ add_ismip7_metadata_args @@ build_flatten_parser

(* ------------------------------- config files ----------------------------- *)

\* A file that is not there, or that nothing installed can read, is an error.
load_config(c) ==
    IF c.file = "missing" \/ (c.file = "yaml" /\ ~Yaml) THEN Refused ELSE c.cfg

\* The numbers of a grid leave the config for a tuple, grid_spec; epsg is
\* another name of epsg_code, which is the one that counts.
normalise_flatten_cfg(cfg) ==
    LET code == IF "epsg" \in DOMAIN cfg /\ "epsg_code" \notin DOMAIN cfg
                THEN "epsg_code" :> cfg["epsg"] ELSE <<>>
        grid == IF "grid" \in DOMAIN cfg THEN "grid_spec" :> TRUE ELSE <<>>
    IN IF "grid" \in DOMAIN cfg /\ cfg["grid"] = "some" THEN Refused
       ELSE Restrict(cfg, DOMAIN cfg \ {"epsg", "grid", "tool"}) @@ code @@ grid

normalise_diag_cfg(cfg) == Restrict(cfg, DOMAIN cfg \ {"tool"})

(* ------------------- commands with options of their own ------------------- *)

\* The config gives new defaults to what the parser knows.  Other keys are set
\* and never looked at: the tuple made from the config's grid is one of them.
parse_args(parser, args, cfg) ==
    Only(args, DOMAIN parser) @@ Only(cfg, DOMAIN parser) @@ parser

\* The executable must be on the command line, whatever the config says, and an
\* option must be known.
BadCommandLine(parser, args) ==
    \/ "exe_path" \notin DOMAIN args
    \/ DOMAIN args \ (DOMAIN parser \cup {"exe_path", "grid"}) # {}

run_diagnostics_cli(c) ==
    IF BadCommandLine(build_diagnostics_parser, c.args) \/ "grid" \in DOMAIN c.args THEN Refused
    ELSE ("ismip7_mode" :> FALSE)
         @@ parse_args(build_diagnostics_parser, c.args, normalise_diag_cfg(c.cfg))

\* A grid of which one number is 0 is taken to be incomplete.
run_flatten_cli(c) ==
    LET cfg == normalise_flatten_cfg(c.cfg)
    IN IF \/ IsRefused(cfg) \/ BadCommandLine(build_flatten_parser, c.args)
          \/ "grid" \in DOMAIN c.args /\ c.args["grid"] # "all" THEN Refused
       ELSE ("ismip7_mode" :> FALSE) @@ ("grid_spec" :> ("grid" \in DOMAIN c.args))
            @@ parse_args(build_flatten_parser, c.args, cfg)

OrYearly(o) == ("frequency" :> IF o["frequency"] = "" THEN "yr" ELSE o["frequency"])
               @@ ("ismip7_mode" :> TRUE) @@ o

run_ismip7_diagnostics_cli(c) ==
    IF BadCommandLine(build_ismip7_diagnostics_parser, c.args) \/ "grid" \in DOMAIN c.args
    THEN Refused
    ELSE OrYearly(parse_args(build_ismip7_diagnostics_parser, c.args, normalise_diag_cfg(c.cfg)))

run_ismip7_flatten_cli(c) ==
    LET cfg == normalise_flatten_cfg(c.cfg)
    IN IF \/ IsRefused(cfg) \/ BadCommandLine(build_ismip7_flatten_parser, c.args)
          \/ "grid" \in DOMAIN c.args /\ c.args["grid"] # "all" THEN Refused
       ELSE OrYearly(("grid_spec" :> ("grid" \in DOMAIN c.args))
                     @@ parse_args(build_ismip7_flatten_parser, c.args, cfg))

(* ------------------- commands that are a config file ---------------------- *)

\* The functions called take what the config leaves out to be as the parsers
\* have it, but for the model's identity, and need the executable.
Unnamed == "ism_id" :> ""

run_flatten_from_config(cfg) ==
    LET o == normalise_flatten_cfg(cfg)
    IN IF IsRefused(o) \/ "exe_path" \notin DOMAIN o THEN Refused
       ELSE Restrict(o, DOMAIN o \ {"exe_path"}) @@ ("ismip7_mode" :> FALSE)
            @@ ("grid_spec" :> FALSE) @@ Unnamed @@ build_flatten_parser

run_diagnostics_from_config(cfg) ==
    LET o == normalise_diag_cfg(cfg)
    IN IF "exe_path" \notin DOMAIN o THEN Refused
       ELSE Restrict(o, DOMAIN o \ {"exe_path"}) @@ ("ismip7_mode" :> FALSE)
            @@ Unnamed @@ build_diagnostics_parser

run_from_config(cfg, overrides) ==
    CASE "tool" \notin DOMAIN cfg     -> Refused
      [] cfg["tool"] = "flatten"      -> run_flatten_from_config(overrides @@ cfg)
      [] cfg["tool"] = "diagnostics"  -> run_diagnostics_from_config(overrides @@ cfg)

run_config_cli(c) == run_from_config(c.cfg, c.args)
run_ismip7_config_cli(c) == run_from_config(c.cfg, ("ismip7_mode" :> TRUE) @@ c.args)

(* ------------------------------ entry points ------------------------------ *)

Tool(c) == IF c.entry = "run" /\ "tool" \in DOMAIN c.cfg THEN c.cfg["tool"] ELSE c.entry

Effective(typed) ==
    LET c == [typed EXCEPT !.cfg = load_config(typed)]
    IN CASE IsRefused(c.cfg)                      -> Refused
         [] c.entry = "flatten" /\ ~c.ismip     -> run_flatten_cli(c)
         [] c.entry = "flatten" /\ c.ismip      -> run_ismip7_flatten_cli(c)
         [] c.entry = "diagnostics" /\ ~c.ismip -> run_diagnostics_cli(c)
         [] c.entry = "diagnostics" /\ c.ismip  -> run_ismip7_diagnostics_cli(c)
         [] c.entry = "run" /\ ~c.ismip         -> run_config_cli(c)
         [] c.entry = "run" /\ c.ismip          -> run_ismip7_config_cli(c)
=============================================================================
