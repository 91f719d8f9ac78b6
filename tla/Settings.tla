------------------------------ MODULE Settings ------------------------------
(***************************************************************************)
(* build_config: each setting has its sources, in the order in which they  *)
(* are asked, its range and its default.  One load is modelled for one     *)
(* setting, given in any of the places an administrator may put it; the    *)
(* mandatory settings are otherwise in order.  A value is a number, or a   *)
(* text that stands for one; of a name, a list of names or a path only its *)
(* validity (n > 0) matters.                                               *)
(***************************************************************************)
EXTENDS Integers, Sequences

CONSTANTS
  InCli, InEnv, InSection, InTop, InHyphen  \* the values given there

Value(form, n) == [form |-> form, n |-> n]
Unset == Value("absent", 0)    \* not given; an empty environment variable counts as that
Null    == Value("null", 0)      \* the key is there, without a value
Forms   == {"int", "digits", "expr", "junk", "bool", "name"}

ASSUME SettingsAssumption ==
  /\ \A G \in {InCli, InEnv, InSection, InTop, InHyphen} :
       \A v \in G : v \in {Unset, Null} \/ (v.form \in Forms /\ v.n \in Int)
  /\ \A v \in InEnv : v.form \in {"absent", "digits", "expr", "junk", "name"}

-----------------------------------------------------------------------------
(* The settings: class, sources, range, default. *)

Setting(class, sources, least, most, default) ==
  [class |-> class, sources |-> sources, least |-> least, most |-> most, default |-> default]

NoDefault == -1
Mandatory == -2
Most      == 2147483647
EnvThenSection == <<"env", "section">>
Everywhere     == <<"cli", "env", "section", "top">>
CliEnvTop      == <<"cli", "env", "top">>
EnvThenTop     == <<"env", "top">>

SshSettings == [
  identity_file   |-> Setting("text", Everywhere, 1, Most, NoDefault),
  host            |-> Setting("text", Everywhere, 1, Most, Mandatory),
  port            |-> Setting("plain", <<"cli", "env", "section">>, 1, 65535, 22),
  user            |-> Setting("text", Everywhere, 1, Most, NoDefault),
  connect_timeout |-> Setting("number", EnvThenSection, 1, 3600, 15),
  command_timeout |-> Setting("number", EnvThenSection, 1, 86400, 30),
  strict_host_key_checking |-> Setting("text", EnvThenSection, 1, Most, 1),
  ssh_bin         |-> Setting("free", Everywhere, 0, Most, NoDefault),
  sftp_bin        |-> Setting("free", Everywhere, 0, Most, NoDefault)]

SlurmSettings == [
  allowed_partitions  |-> Setting("text", EnvThenSection, 1, Most, NoDefault),
  max_nodes           |-> Setting("number", EnvThenSection, 1, Most, 2),
  max_cpus            |-> Setting("number", EnvThenSection, 1, Most, 64),
  max_memory_mb       |-> Setting("number", EnvThenSection, 1, Most, 256 * 1024),
  max_gpus            |-> Setting("number", EnvThenSection, 0, Most, 4),
  max_time            |-> Setting("text", EnvThenSection, 1, Most, 1),
  max_concurrent_jobs |-> Setting("number", EnvThenSection, 1, Most, 20)]

ShellSettings == [
  max_exec_seconds |-> Setting("number", EnvThenSection, 1, 86400, 30),
  max_output_bytes |-> Setting("number", EnvThenSection, 1, Most, 1024 * 1024)]

FilesSettings == [
  max_read_bytes        |-> Setting("number", EnvThenSection, 1, Most, 1024 * 1024),
  max_write_bytes       |-> Setting("number", EnvThenSection, 1, Most, 10 * 1024 * 1024),
  max_list_entries      |-> Setting("number", EnvThenSection, 1, 1000000, 2000),
  max_read_slice_bytes  |-> Setting("number", EnvThenSection, 1, Most, 256 * 1024),
  max_recursive_depth   |-> Setting("number", EnvThenSection, 1, 64, 3),
  search_max_matches    |-> Setting("number", EnvThenSection, 1, 100000, 200),
  search_max_context_lines |-> Setting("number", EnvThenSection, 1, 1000, 10),
  search_max_scan_bytes |-> Setting("number", EnvThenSection, 1, Most, 64 * 1024 * 1024),
  search_max_files      |-> Setting("number", EnvThenSection, 1, 1000000, 1000),
  search_max_depth      |-> Setting("number", EnvThenSection, 1, 64, 6),
  search_timeout        |-> Setting("number", EnvThenSection, 1, 3600, 5)]

TopologySettings == [
  enabled            |-> Setting("flag", EnvThenSection, 0, 1, 1),
  topology_ttl       |-> Setting("number", EnvThenSection, 0, 30 * 86400, 86400),
  wait_seconds       |-> Setting("number", EnvThenSection, 1, 7 * 86400, 300),
  collect_time_limit |-> Setting("text", EnvThenSection, 1, Most, 1)]

ServerSettings == [
  root              |-> Setting("text", CliEnvTop, 1, Most, Mandatory),
  job_owner_id      |-> Setting("text", EnvThenTop, 1, Most, NoDefault),
  wait_max_seconds  |-> Setting("number", EnvThenTop, 1, 7 * 86400, 3600),
  cache_ttl_seconds |-> Setting("plain", EnvThenTop, 0, 3600, 2),
  log_file          |-> Setting("free", CliEnvTop, 0, Most, 1),
  log_level         |-> Setting("text", CliEnvTop, 1, Most, 1)]

\* Here "section" is the key local_roots, "env" its variable, and the other two
\* places are those of local_root.
LocalRoots == [local_roots |-> Setting("text", <<"section", "env", "cli", "top">>, 1, Most, 1)]

Tables == {SshSettings, SlurmSettings, ShellSettings, FilesSettings, TopologySettings, ServerSettings, LocalRoots}
Table == [s \in UNION {DOMAIN t : t \in Tables} |-> (CHOOSE t \in Tables : s \in DOMAIN t)[s]]

\* Written at the top level, these keys are known but not read for their setting
\* (the last one, topology.cache_ttl_seconds, is a setting of its own there).
KnownButUnread == {"port", "connect_timeout", "command_timeout", "strict_host_key_checking", "topology_ttl"}

HasSource(s, place) == \E i \in DOMAIN Table[s].sources : Table[s].sources[i] = place

VARIABLES
  setting,    \* the setting
  given,      \* its value in each place
  effective,  \* its value in the Config, or "refused"
  warned      \* a key was reported as unknown

settingsVars == <<setting, given, effective, warned>>

Nowhere == [cli |-> Unset, env |-> Unset, section |-> Unset, top |-> Unset, hyphen |-> Unset]

SettingsInit ==
  /\ setting = "none" /\ given = Nowhere
  /\ effective = Unset /\ warned = FALSE

-----------------------------------------------------------------------------
(* Loading. *)

\* _normalize_keys: a key spelled with hyphens counts if the other is not there.
Normalized(g) == [g EXCEPT !.section = IF @ # Unset THEN @ ELSE g.hyphen]

Missing(v) == v.form \in {"absent", "null"}

\* _eval_int_expr: digits and expressions alike, of a positive result.
Evaluates(v) == v.form \in {"digits", "expr"} /\ v.n > 0

\* _env_int: an integer as it stands, or an expression; anything else is an error,
\* whether or not the command line overrides it.
EnvIsReadable(row, v) ==
  row.class \in {"number", "plain"} => Missing(v) \/ v.form = "digits" \/ Evaluates(v)

\* What an environment variable becomes before it is compared.
FromEnv(row, v) == IF row.class \in {"number", "plain"} /\ ~Missing(v) THEN Value("int", v.n) ELSE v

First(I) == CHOOSE i \in I : \A j \in I : i <= j

\* Deliberate variant: `or` instead of a test for None.
Coalesce_Truthy(row, g) ==
  LET givers == {i \in DOMAIN row.sources : ~Missing(g[row.sources[i]]) /\ g[row.sources[i]].n # 0} IN
  IF givers = {} THEN Value("default", row.default) ELSE g[row.sources[First(givers)]]
\* _coalesce: the first that is not None, of the sources in their order.
Coalesce(row, g) ==
  LET givers == {i \in DOMAIN row.sources : ~Missing(g[row.sources[i]])} IN
  IF givers = {} THEN Value("default", row.default) ELSE g[row.sources[First(givers)]]

\* _bounded_int, _bool_value, and the checks of names, paths and times.
Acceptable(row, v) ==
  \/ v.form = "default" /\ row.default # Mandatory
  \/ /\ v.n \in row.least..row.most
     /\ CASE row.class = "number" -> v.form = "int" \/ Evaluates(v)
          [] row.class = "plain"  -> v.form = "int"
          [] row.class = "flag"   -> v.form \in {"int", "digits", "bool"}
          [] OTHER               -> TRUE

\* _warn_unknown_keys: a key at the top level that belongs into a section.
UnknownKey(s, g) == g.top # Unset /\ s \notin KnownButUnread /\ ~HasSource(s, "top")

\* The value of a setting, or a ConfigError.
Outcome(row, g) ==
  LET v == Coalesce(row, [Normalized(g) EXCEPT !.env = FromEnv(row, g.env)]) IN
  IF EnvIsReadable(row, g.env) /\ Acceptable(row, v) THEN Value("ok", v.n) ELSE Value("refused", 0)

\* build_config.
Load(s, g) ==
  /\ setting' = s /\ given' = g
  /\ effective' = Outcome(Table[s], g)
  /\ warned' = UnknownKey(s, g)

\* Texts for the settings that are texts, numbers for the others.
Fits(s, v) == Missing(v) \/ (v.form = "name" <=> Table[s].class \in {"text", "free"})

SettingsNext ==
  setting = "none" /\ \E s \in DOMAIN Table, c \in InCli, e \in InEnv, f \in InSection, t \in InTop, h \in InHyphen :
    /\ \A v \in {c, e, f, t, h} : Fits(s, v)
    /\ HasSource(s, "cli") \/ c = Unset
    /\ HasSource(s, "section") \/ (f = Unset /\ h = Unset)
    /\ Load(s, [cli |-> c, env |-> e, section |-> f, top |-> t, hyphen |-> h])

SettingsSpec == SettingsInit /\ [][SettingsNext]_settingsVars

-----------------------------------------------------------------------------
(* Properties. *)

SettingsTypeOK ==
  /\ setting \in DOMAIN Table \cup {"none"} /\ warned \in BOOLEAN
  /\ effective.form \in {"absent", "ok", "refused"}

Documented == <<"cli", "env", "section", "top">>

\* An accepted configuration has each setting as the highest of command line,
\* environment and file gives it, zero included, or its default if none does; a
\* place nobody reads is reported.  The exceptions are local_roots, which the
\* file decides, and the keys that are known at the top level but unread there.
HighestLayerWins ==
  setting # "none" /\ effective.form = "ok" /\ setting # "local_roots" =>
    LET g == Normalized(given)
        givers == {i \in DOMAIN Documented : ~Missing(g[Documented[i]])} IN
    /\ givers = {} => effective.n = Table[setting].default
    /\ \A i \in givers : (\A j \in givers : i <= j) =>
         \/ effective.n = g[Documented[i]].n
         \/ Documented[i] = "top" /\ (warned \/ setting \in KnownButUnread)
=============================================================================
