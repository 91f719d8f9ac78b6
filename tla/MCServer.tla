------------------------------ MODULE MCServer ------------------------------
(***************************************************************************)
(* The components that share no state, each on a small instance.           *)
(***************************************************************************)
EXTENDS Server, TLC

CONSTANTS writer, actor

EndLabelsDef == {"COMPLETED", "PREEMPTED", "CANCELLED", "DEADLINE"}

\* One agent writes or reads with every kind of expectation while another does anything else than append.
OpsOfDef == (writer :> {"write", "append", "read", "rename"})
            @@ (actor :> {"write", "upload", "download", "delete", "rename", "mkdir"})
ExpectationsOfDef == (writer :> {{}, {"size"}, {"mtime"}, {"sha256"}}) @@ (actor :> {{}})

UnitsDef == {"none", "plain", "-", "K", "M", "G", "T", "junk", "range", "typed", "batch", "debug", "gpu"}
LimitsDef == [partitions |-> <<T(0, "batch", <<>>), T(0, "debug", <<>>)>>, nodes |-> 2, cpus |-> 8,
              memory |-> 2048, gpus |-> 1, time |-> T(1, "-", <<12, 0, 0>>), jobs |-> 2]

Omitted == [p \in Parameters |-> None]
TimesDef == {T(0, "plain", <<90>>), T(0, "plain", <<0>>), T(0, "plain", <<5, 30>>), T(0, "plain", <<24, 0, 0>>),
             T(0, "plain", <<25, 0, 0>>), T(0, "plain", <<1, 60, 0>>), T(0, "-", <<12, 30>>), T(1, "-", <<11, 59>>),
             T(1, "-", <<24, 0, 0>>), T(0, "-", <<30, 0, 0>>), T(1, "-", <<12>>), T(0, "-", <<0, 30, 5>>)}
SizesDef == {T(2, "G", <<>>), T(3, "G", <<>>), T(1500, "K", <<>>), T(0, "K", <<>>), T(0, "plain", <<>>),
             T(512, "M", <<>>), T(1, "T", <<>>), T(7, "junk", <<>>)}
RequestsDef ==
  {Omitted} \cup {[Omitted EXCEPT !.time = t] : t \in TimesDef}
  \cup {[Omitted EXCEPT !.memory = t] : t \in SizesDef}
  \cup {[Omitted EXCEPT !.nodes = Num(n), !.ntasks = Num(t), !.cpus = Num(c)] :
          n \in {1, 2, 3}, t \in {1, 4, 5}, c \in {0, 1, 3, 8, 9}}
  \cup {[Omitted EXCEPT !.gpus = Num(2)], [Omitted EXCEPT !.partition = T(0, "gpu", <<>>)]}

Line(p, how, v, where) == [param |-> p, spelling |-> how, value |-> v, place |-> where]
DirectivesDef ==
  {Line("nodes", "long", Num(2), "head"), Line("nodes", "spaced", Num(1), "head"),
   Line("nodes", "short", Num(2), "head"), Line("nodes", "long", T(2, "range", <<>>), "head"),
   Line("nodes", "long", Num(2), "body"), Line("nodes", "long", Num(2), "far"),
   Line("nodes", "long", None, "head"), Line("ntasks", "long", Num(4), "head"),
   Line("cpus", "spaced", Num(4), "head"), Line("gpus", "long", Num(1), "head"),
   Line("gpus", "spaced", Num(1), "head"), Line("gpus", "long", T(1, "typed", <<>>), "head"),
   Line("gpus", "other gres", Num(1), "head"), Line("gpus", "long", None, "head"),
   Line("memory", "long", T(2, "G", <<>>), "head"),
   Line("time", "long", T(0, "-", <<12, 30>>), "head"), Line("time", "spaced", T(1, "-", <<11, 59>>), "head"),
   Line("partition", "long", T(0, "debug", <<>>), "head"), Line("exclusive", "bare", None, "head")}

MachinesDef == [cores : {1, 4, 6, 8, 12}, threads : {1, 2}, numa : {1, 2, 4, 5}, memory : {7}]

InCliDef     == {Unset, Value("int", 3), Value("name", 3), Value("name", 0)}
InEnvDef     == {Unset, Value("digits", 0), Value("digits", 2), Value("digits", 70000), Value("expr", 0),
                 Value("expr", 6), Value("junk", 0), Value("name", 1), Value("name", 0)}
InSectionDef == {Unset, Null, Value("int", 0), Value("int", 4), Value("digits", 0), Value("expr", 70000),
                 Value("bool", 0), Value("name", 5), Value("name", 0)}
InTopDef     == {Unset, Value("int", 7), Value("name", 7)}
InHyphenDef  == {Unset, Value("int", 8), Value("name", 8)}
=============================================================================
