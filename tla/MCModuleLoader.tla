--------------------------- MODULE MCModuleLoader ---------------------------
(***************************************************************************)
(* File systems for checking ModuleLoader: three modules a (the main       *)
(* file), b and c, and a path x at which there is no file.                 *)
(***************************************************************************)
EXTENDS ModuleLoader

CONSTANTS a, b, c, x

MCPath == {a, b, c, x}

Use(p) == [kind |-> "use", path |-> p, exported |-> FALSE]
ExportUse(p) == [kind |-> "use", path |-> p, exported |-> TRUE]
Other(k) == [kind |-> k, path |-> x, exported |-> FALSE]

\* At most two declarations out of a use of any module and a function.
Bodies ==
  LET D == {Use(p) : p \in {a, b, c}} \cup {Other("other")}
  IN  {<<>>} \cup {<<d>> : d \in D} \cup {<<d, e>> : d, e \in D}

\* Bodies that end in an error, or use a module under `export'.
Special ==
  { << ExportUse(c) >>, << ExportUse(b), Use(c) >>, << Use(x) >>,
    << ExportUse(x) >>, << Other("other"), Other("bad") >>,
    << Use(c), Other("reexport") >>, << Use(c), Other("badtoken") >> }

MCSources ==
  [{a, b, c} -> Bodies] \cup [{b, c} -> { <<>> }]
    \cup [{a, b, c} -> Special \cup { << Use(b) >>, << Other("other") >> }]

\* Imports only, for the runs that end at an error.
SmallSources == [{a, b, c} -> {<<Use(b)>>, <<Use(c)>>, <<Other("other")>>,
                               <<Use(b), Use(c)>>}]
=============================================================================
