------------------------------- MODULE Config -------------------------------
(***************************************************************************)
(* How a configuration comes about (config.c, config_resolve): built-in    *)
(* defaults, the OPENUPS_ variables in a fixed order, the command line     *)
(* option by option, and the validation of the whole; then the             *)
(* milliseconds the reactor derives from it (monitor.c).  A text is known  *)
(* by what the parsers make of it.                                         *)
(***************************************************************************)
EXTENDS MonitorState, Sequences

CONSTANTS
    Environments,       \* the environments considered: a text for each field
    CommandLines,       \* the argument vectors considered
    MS_PER_SEC,         \* OPENUPS_MS_PER_SEC
    MS_PER_MINUTE,      \* OPENUPS_MS_PER_MINUTE
    MAX_DELAY_MINUTES   \* OPENUPS_MAX_DELAY_MINUTES

Fields == {"target", "interval_sec", "fail_threshold", "timeout_ms",
           "delay_minutes", "enable_systemd", "shutdown_mode", "log_level"}

\* The order in which config_load_from_env reads them.
EnvOrder == <<"target", "interval_sec", "fail_threshold", "timeout_ms",
              "delay_minutes", "enable_systemd", "shutdown_mode", "log_level">>
IntFields == {"interval_sec", "fail_threshold", "timeout_ms", "delay_minutes"}
LogLevels == {"silent", "none", "error", "warn", "info", "debug"}

\* "unset" is an absent variable, or an optional argument that was not given;
\* "long" does not fit the target buffer.  Words are compared ignoring case.
Forms == {"unset", "empty", "number", "word", "address", "long"}
Texts == [form : Forms, number : Int, word : STRING]

\* What getopt_long hands over, options before operands: an option with its
\* text, or "version", "help", "unknown" (also: an argument is missing) and
\* "operand", which have neither.
Arguments == [kind : {"option", "version", "help", "unknown", "operand"},
              field : Fields, text : Texts]

\* The widths leave room: no int of minutes overflows 64 bits of milliseconds.
ASSUME ScaleAssumption ==
    /\ MS_PER_SEC \in Nat \ {0} /\ MS_PER_MINUTE \in Nat \ {0}
    /\ INT_MAX * MS_PER_SEC < U64MAX /\ INT_MAX * MS_PER_MINUTE < U64MAX
    /\ MAX_DELAY_MINUTES \in 0..INT_MAX

ASSUME InputAssumption ==
    /\ \A e \in Environments : DOMAIN e = Fields /\ \A f \in Fields : e[f] \in Texts
    /\ CommandLines \subseteq Seq(Arguments)

\* The compiled-in defaults are ints.
ASSUME DefaultsAssumption == 2000 <= INT_MAX

VARIABLES
    environ,        \* the OPENUPS_ variables, by field
    args,           \* argv
    stage,          \* the part of config_resolve that runs
    position,       \* the variable or argument it looks at
    config,         \* the configuration so far
    exit_option,    \* requested_exit_option
    outcome         \* "run", "exit" (version or help shown) or "refused"

vars == <<environ, args, stage, position, config, exit_option, outcome>>

config_init_default ==
    [target |-> [form |-> "address", number |-> 0, word |-> "1.1.1.1"],
     interval_sec |-> 10, fail_threshold |-> 5, timeout_ms |-> 2000,
     shutdown_mode |-> "dry-run", delay_minutes |-> 0, log_level |-> "info",
     enable_systemd |-> TRUE]

parse_int_value(text, min_value) ==
    text.form = "number" /\ text.number >= min_value /\ text.number <= INT_MAX

copy_string_value(text) == text.form # "long"

shutdown_mode_parse_internal(text) == text.form = "word" /\ text.word \in Modes

parse_log_level_value(text) == text.form = "word" /\ text.word \in LogLevels

\* A variable always has a text; only --systemd may come without one.
parse_bool_value(text) ==
    text.form = "unset" \/ (text.form = "word" /\ text.word \in {"true", "false"})

\* Whether a text given for a field parses.
Accepts(field, text) ==
    \/ field = "target" /\ copy_string_value(text)
    \/ field \in IntFields \ {"delay_minutes"} /\ parse_int_value(text, 1)
    \/ field = "delay_minutes" /\ parse_int_value(text, 0)
    \/ field = "shutdown_mode" /\ shutdown_mode_parse_internal(text)
    \/ field = "log_level" /\ parse_log_level_value(text)
    \/ field = "enable_systemd" /\ parse_bool_value(text)

Parsed(field, text) ==
    CASE field = "target" -> text
      [] field \in IntFields -> text.number
      [] field = "shutdown_mode" -> text.word
      [] field = "log_level" -> IF text.word = "none" THEN "silent" ELSE text.word
      [] field = "enable_systemd" -> text.form = "unset" \/ text.word = "true"

Init ==
    /\ environ \in Environments /\ args \in CommandLines
    /\ stage = "env" /\ position = 1
    /\ config = config_init_default
    /\ exit_option = "none" /\ outcome = "none"

Finish(result) ==
    /\ stage' = "done" /\ outcome' = result
    /\ UNCHANGED <<environ, args, position, config, exit_option>>

-----------------------------------------------------------------------------
(* config_load_from_env: one variable per step, in order.                  *)

variable == EnvOrder[position]
AtVariable == stage = "env" /\ position <= Len(EnvOrder)

LoadVariable ==
    /\ AtVariable
    /\ IF environ[variable].form = "unset" THEN config' = config
       ELSE /\ Accepts(variable, environ[variable])
            /\ config' = [config EXCEPT
                              ![variable] = Parsed(variable, environ[variable])]
    /\ position' = position + 1
    /\ UNCHANGED <<environ, args, stage, exit_option, outcome>>

RefuseVariable ==
    /\ AtVariable /\ environ[variable].form # "unset"
    /\ ~Accepts(variable, environ[variable])
    /\ Finish("refused")

EndVariables ==
    /\ stage = "env" /\ position > Len(EnvOrder)
    /\ stage' = "args" /\ position' = 1
    /\ UNCHANGED <<environ, args, config, exit_option, outcome>>

-----------------------------------------------------------------------------
(* config_load_from_cmdline: one argument per step.                        *)

argument == args[position]
AtArgument == stage = "args" /\ position <= Len(args)

\* Seeded fault: a value from the environment is kept.
VariableWins ==
    /\ AtArgument /\ argument.kind = "option"
    /\ Accepts(argument.field, argument.text)
    /\ config' = IF environ[argument.field].form # "unset" THEN config
                 ELSE [config EXCEPT ![argument.field] =
                           Parsed(argument.field, argument.text)]
    /\ position' = position + 1
    /\ UNCHANGED <<environ, args, stage, exit_option, outcome>>

LoadOption ==
    /\ AtArgument /\ argument.kind = "option"
    /\ Accepts(argument.field, argument.text)
    /\ config' = [config EXCEPT
                      ![argument.field] = Parsed(argument.field, argument.text)]
    /\ position' = position + 1
    /\ UNCHANGED <<environ, args, stage, exit_option, outcome>>

\* The version or the help is shown at the end only; operands are passed over.
PassArgument ==
    /\ AtArgument /\ argument.kind \in {"version", "help", "operand"}
    /\ exit_option' = IF argument.kind = "operand" THEN exit_option
                      ELSE argument.kind
    /\ position' = position + 1
    /\ UNCHANGED <<environ, args, stage, config, outcome>>

RefuseArgument ==
    /\ AtArgument
    /\ \/ argument.kind = "unknown"
       \/ argument.kind = "option" /\ ~Accepts(argument.field, argument.text)
    /\ Finish("refused")

EndArguments ==
    /\ stage = "args" /\ position > Len(args)
    /\ IF \E i \in 1..Len(args) : args[i].kind = "operand" THEN Finish("refused")
       ELSE IF exit_option # "none" THEN Finish("exit")
       ELSE /\ stage' = "validate"
            /\ UNCHANGED <<environ, args, position, config, exit_option, outcome>>

-----------------------------------------------------------------------------
(* config_validate, and the reactor's view of the result.                  *)

config_duration_ms(value, scale_ms) ==
    IF value <= 0 THEN 0
    ELSE IF value * scale_ms > U64MAX THEN U64MAX ELSE value * scale_ms

\* Seeded fault: the timeout may fill the interval.
TimeoutFillsInterval(c) == c.timeout_ms <= c.interval_sec * MS_PER_SEC

timeout_fits_interval(c) ==
    /\ c.interval_sec > 0 /\ c.timeout_ms > 0
    /\ c.interval_sec * MS_PER_SEC <= U64MAX
    /\ c.timeout_ms < c.interval_sec * MS_PER_SEC

config_validate(c) ==
    /\ c.target.form = "address"
    /\ c.interval_sec > 0 /\ c.fail_threshold > 0 /\ c.timeout_ms > 0
    /\ c.delay_minutes >= 0 /\ c.delay_minutes <= MAX_DELAY_MINUTES
    /\ timeout_fits_interval(c)
    /\ ~(c.shutdown_mode = "log-only" /\ c.delay_minutes # 0)

Validate ==
    /\ stage = "validate"
    /\ Finish(IF config_validate(config) THEN "run" ELSE "refused")

\* What monitor_loop_init and the shutdown state machine compute from it.
ReactorConfig(c) ==
    [interval_ms |-> config_duration_ms(c.interval_sec, MS_PER_SEC),
     timeout_ms |-> c.timeout_ms, fail_threshold |-> c.fail_threshold,
     shutdown_mode |-> c.shutdown_mode,
     delay_ms |-> config_duration_ms(c.delay_minutes, MS_PER_MINUTE),
     watchdog_interval_ms |-> 0]

Next ==
    \/ LoadVariable \/ RefuseVariable \/ EndVariables
    \/ LoadOption \/ PassArgument \/ RefuseArgument \/ EndArguments
    \/ Validate

Spec == Init /\ [][Next]_vars

-----------------------------------------------------------------------------
(* Properties.                                                             *)

\* The arguments that give a field a value, and the value that counts: the last
\* of them, else the variable, else the default.
Given(field) ==
    {i \in 1..Len(args) : args[i].kind = "option" /\ args[i].field = field}
Effective(field) ==
    IF Given(field) # {}
    THEN Parsed(field, args[CHOOSE i \in Given(field) :
                                \A j \in Given(field) : j <= i].text)
    ELSE IF environ[field].form # "unset" THEN Parsed(field, environ[field])
    ELSE config_init_default[field]
EffectiveConfig == [field \in Fields |-> Effective(field)]

BadVariables ==
    {f \in Fields : environ[f].form # "unset" /\ ~Accepts(f, environ[f])}
BadArguments ==
    {i \in 1..Len(args) :
        \/ args[i].kind \in {"unknown", "operand"}
        \/ args[i].kind = "option" /\ ~Accepts(args[i].field, args[i].text)}

\* config_resolve ends as its inputs demand, in whatever order it meets them: a
\* malformed text refuses, a request for help or version comes next, and only
\* then does the whole have to be valid; each value is the one of highest rank.
ResolvesByRank ==
    stage = "done" =>
        /\ outcome =
               IF BadVariables # {} \/ BadArguments # {} THEN "refused"
               ELSE IF \E i \in 1..Len(args) : args[i].kind \in {"version", "help"}
                    THEN "exit"
               ELSE IF config_validate(EffectiveConfig) THEN "run"
               ELSE "refused"
        /\ outcome = "run" => config = EffectiveConfig

\* An accepted configuration is one the reactor is built for: its durations
\* neither vanish nor overflow, so that the failure paths of monitor_loop_init
\* and of arming a countdown are not taken because of it.
AcceptedIsUsable ==
    outcome = "run" =>
        /\ ValidConfig(ReactorConfig(config))
        /\ ReactorConfig(config).interval_ms \in 1..(U64MAX - 1)
        /\ ReactorConfig(config).delay_ms < U64MAX
        /\ config.delay_minutes > 0 => ReactorConfig(config).delay_ms > 0

\* The README ranks the command line above the environment: a variable that an
\* option overrides has no say in the outcome.
OptionsOverride ==
    outcome = "refused" =>
        \/ BadArguments # {}
        \/ \E f \in BadVariables : Given(f) = {}
        \/ ~config_validate(EffectiveConfig)

=============================================================================
