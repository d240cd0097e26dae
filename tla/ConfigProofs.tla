---------------------------- MODULE ConfigProofs ----------------------------
(***************************************************************************)
(* Whatever the environment and the command line hold, a configuration     *)
(* that config_resolve accepts is one the reactor is built for: it meets   *)
(* the assumption on Configs under which the theorems about the reactor    *)
(* hold.                                                                   *)
(***************************************************************************)
EXTENDS Config, TLAPS

\* What every text that parses leaves in its field, and what the defaults are.
Limited ==
    /\ config = [field \in Fields |-> config[field]]
    /\ \A f \in IntFields : config[f] \in Int /\ config[f] <= INT_MAX
    /\ config["shutdown_mode"] \in Modes
    /\ environ \in Environments /\ args \in CommandLines
    /\ position \in Nat \ {0}

\* The inductive invariant: the values are limited, and validated once accepted.
ConfigInv ==
    /\ Limited
    /\ outcome = "run" => stage = "done" /\ config_validate(config)

-----------------------------------------------------------------------------
(* Lemmas about the parsers.                                               *)

\* A text that is accepted for a field gives it a limited value.
LEMMA ParsedIsLimited ==
    ASSUME NEW field \in Fields, NEW text \in Texts, Accepts(field, text)
    PROVE  /\ field \in IntFields => /\ Parsed(field, text) \in Int
                                     /\ Parsed(field, text) <= INT_MAX
           /\ field = "shutdown_mode" => Parsed(field, text) \in Modes
<1>1. CASE field \in IntFields
  <2>1. Parsed(field, text) = text.number
    BY <1>1 DEF Parsed, IntFields
  <2>2. text.number \in Int /\ text.number <= INT_MAX
    BY <1>1 DEF Accepts, IntFields, parse_int_value, Texts
  <2> QED BY <1>1, <2>1, <2>2 DEF IntFields
<1>2. CASE field = "shutdown_mode"
  <2>1. Parsed(field, text) = text.word
    BY <1>2 DEF Parsed, IntFields
  <2>2. text.word \in Modes
    BY <1>2 DEF Accepts, IntFields, shutdown_mode_parse_internal
  <2> QED BY <1>2, <2>1, <2>2 DEF IntFields
<1> QED BY <1>1, <1>2

\* Writing such a value keeps the configuration limited.
LEMMA WriteKeepsLimits ==
    ASSUME Limited, NEW field \in Fields, NEW text \in Texts,
           Accepts(field, text),
           config' = [config EXCEPT ![field] = Parsed(field, text)],
           environ' = environ, args' = args, position' = position + 1
    PROVE  Limited'
<1>1. config' = [f \in Fields |-> config'[f]]
  BY DEF Limited
<1>2. \A f \in Fields : config'[f] = IF f = field THEN Parsed(field, text) ELSE config[f]
  BY DEF Limited
<1>3. \A f \in IntFields : config'[f] \in Int /\ config'[f] <= INT_MAX
  BY <1>2, ParsedIsLimited DEF Limited, Fields, IntFields
<1>4. config'["shutdown_mode"] \in Modes
  BY <1>2, ParsedIsLimited DEF Limited, Fields
<1> QED BY <1>1, <1>3, <1>4 DEF Limited

\* A positive number of units is a positive number of milliseconds below the
\* overflow mark.
LEMMA DurationFits ==
    ASSUME NEW value \in Int, value <= INT_MAX, NEW scale_ms \in Nat \ {0},
           INT_MAX * scale_ms < U64MAX
    PROVE  /\ config_duration_ms(value, scale_ms) \in 0..(U64MAX - 1)
           /\ value > 0 => config_duration_ms(value, scale_ms) = value * scale_ms
           /\ value > 0 => config_duration_ms(value, scale_ms) > 0
           /\ value <= 0 => config_duration_ms(value, scale_ms) = 0
<1>1. CASE value <= 0
  <2>1. U64MAX > 0
    BY WidthAssumption
  <2> QED BY <1>1, <2>1, WidthAssumption DEF config_duration_ms
<1>2. CASE value > 0
  <2>1. value * scale_ms <= INT_MAX * scale_ms
    BY <1>2, WidthAssumption
  <2>2. value * scale_ms > 0 /\ value * scale_ms \in Int
    BY <1>2
  <2>3. INT_MAX * scale_ms \in Int
    BY WidthAssumption
  <2> QED BY <1>2, <2>1, <2>2, <2>3, WidthAssumption DEF config_duration_ms
<1> QED BY <1>1, <1>2

-----------------------------------------------------------------------------
(* The invariant.                                                          *)

\* The defaults are limited.
LEMMA ConfigInvInit == Init => ConfigInv
<1> SUFFICES ASSUME Init PROVE ConfigInv
  OBVIOUS
<1>1. config = [field \in Fields |-> config[field]]
  BY DEF Init, config_init_default, Fields
<1>2. \A field \in IntFields : config[field] \in Int /\ config[field] <= INT_MAX
  BY DefaultsAssumption, WidthAssumption DEF Init, config_init_default, IntFields
<1>3. config["shutdown_mode"] \in Modes
  BY DEF Init, config_init_default, Modes
<1> QED BY <1>1, <1>2, <1>3 DEF Init, ConfigInv, Limited

\* Each step writes a limited value or none, and accepts only after validating.
LEMMA ConfigInvStep == ConfigInv /\ [Next]_vars => ConfigInv'
<1> SUFFICES ASSUME ConfigInv, [Next]_vars PROVE ConfigInv'
  OBVIOUS
<1>1. CASE LoadVariable
  <2>1. position \in 1..Len(EnvOrder) /\ variable \in Fields
    BY <1>1 DEF LoadVariable, AtVariable, ConfigInv, Limited, variable, EnvOrder, Fields
  <2>2. environ[variable] \in Texts
    BY <2>1, InputAssumption DEF ConfigInv, Limited
  <2>3. outcome' # "run"
    BY <1>1 DEF LoadVariable, AtVariable, ConfigInv
  <2>4. CASE environ[variable].form = "unset"
    BY <1>1, <2>3, <2>4 DEF LoadVariable, ConfigInv, Limited
  <2>5. CASE environ[variable].form # "unset"
    BY <1>1, <2>1, <2>2, <2>3, <2>5, WriteKeepsLimits DEF LoadVariable, ConfigInv
  <2> QED BY <2>4, <2>5
<1>2. CASE EndVariables
  BY <1>2 DEF EndVariables, ConfigInv, Limited
<1>3. CASE LoadOption
  <2>1. args \in Seq(Arguments)
    BY InputAssumption DEF ConfigInv, Limited
  <2>2. position \in 1..Len(args) /\ argument \in Arguments
    BY <1>3, <2>1 DEF LoadOption, AtArgument, ConfigInv, Limited, argument
  <2>3. argument.field \in Fields /\ argument.text \in Texts
    BY <2>2 DEF Arguments
  <2>4. outcome' # "run"
    BY <1>3 DEF LoadOption, AtArgument, ConfigInv
  <2> QED BY <1>3, <2>3, <2>4, WriteKeepsLimits DEF LoadOption, ConfigInv
<1>4. CASE PassArgument
  BY <1>4 DEF PassArgument, AtArgument, ConfigInv, Limited
<1>5. CASE RefuseVariable \/ RefuseArgument
  BY <1>5 DEF RefuseVariable, RefuseArgument, Finish, ConfigInv, Limited
<1>6. CASE EndArguments
  BY <1>6 DEF EndArguments, Finish, ConfigInv, Limited
<1>7. CASE Validate
  <2>1. outcome' = "run" => config_validate(config)
    BY <1>7 DEF Validate, Finish
  <2>2. stage' = "done" /\ config' = config /\ Limited'
    BY <1>7 DEF Validate, Finish, ConfigInv, Limited
  <2> QED BY <2>1, <2>2 DEF ConfigInv
<1>8. CASE UNCHANGED vars
  BY <1>8 DEF vars, ConfigInv, Limited
<1> QED BY <1>1, <1>2, <1>3, <1>4, <1>5, <1>6, <1>7, <1>8 DEF Next

\* The invariant makes an accepted configuration usable.
LEMMA ConfigInvUsable == ConfigInv => AcceptedIsUsable
<1> SUFFICES ASSUME ConfigInv, outcome = "run" PROVE AcceptedIsUsable
  BY DEF AcceptedIsUsable
<1> DEFINE interval == config_duration_ms(config["interval_sec"], MS_PER_SEC)
           delay == config_duration_ms(config["delay_minutes"], MS_PER_MINUTE)
<1>1. /\ config["interval_sec"] \in Int /\ config["interval_sec"] <= INT_MAX
      /\ config["fail_threshold"] \in Int /\ config["timeout_ms"] \in Int
      /\ config["delay_minutes"] \in Int /\ config["delay_minutes"] <= INT_MAX
      /\ config["shutdown_mode"] \in Modes
  BY DEF ConfigInv, Limited, IntFields
<1>2. /\ config["interval_sec"] > 0 /\ config["fail_threshold"] > 0
      /\ config["timeout_ms"] > 0 /\ config["delay_minutes"] >= 0
      /\ config["timeout_ms"] < config["interval_sec"] * MS_PER_SEC
      /\ ~(config["shutdown_mode"] = "log-only" /\ config["delay_minutes"] # 0)
  BY DEF ConfigInv, config_validate, timeout_fits_interval
<1>3. /\ interval \in 0..(U64MAX - 1) /\ interval > 0
      /\ interval = config["interval_sec"] * MS_PER_SEC
  BY <1>1, <1>2, DurationFits, ScaleAssumption
<1>4. /\ delay \in 0..(U64MAX - 1)
      /\ config["delay_minutes"] > 0 => delay > 0
      /\ config["delay_minutes"] <= 0 => delay = 0
  BY <1>1, DurationFits, ScaleAssumption
<1>5. interval \in 1..(U64MAX - 1) /\ interval \in Nat /\ delay \in Nat /\ delay < U64MAX
  BY <1>3, <1>4, WidthAssumption
<1>6. config["shutdown_mode"] = "log-only" => delay = 0
  BY <1>1, <1>2, <1>4
<1> HIDE DEF interval, delay
<1>7. ReactorConfig(config) =
         [interval_ms |-> interval, timeout_ms |-> config["timeout_ms"],
          fail_threshold |-> config["fail_threshold"],
          shutdown_mode |-> config["shutdown_mode"], delay_ms |-> delay,
          watchdog_interval_ms |-> 0]
  BY DEF ReactorConfig, interval, delay
<1>8. ValidConfig(ReactorConfig(config))
  BY <1>1, <1>2, <1>3, <1>5, <1>6, <1>7 DEF ValidConfig
<1> QED BY <1>4, <1>5, <1>7, <1>8 DEF AcceptedIsUsable

\* Whatever the inputs, an accepted configuration meets the reactor's
\* assumption on Configs: positive interval and timeout, a known mode, and
\* durations that the conversion to milliseconds neither loses nor overflows.
THEOREM Usable == Spec => []AcceptedIsUsable
BY ConfigInvInit, ConfigInvStep, ConfigInvUsable, PTL DEF Spec

-----------------------------------------------------------------------------
(* The ranking: what each field holds while the inputs are gone through.   *)

Gives(i, field) == args[i].kind = "option" /\ args[i].field = field
Asks(i) == args[i].kind \in {"version", "help"}

\* The value a field has when the command line does not give it one.
Base(field) ==
    IF environ[field].form # "unset" THEN Parsed(field, environ[field])
    ELSE config_init_default[field]

\* Of the variables, those read so far have parsed; the rest are defaults.
VariablesSoFar ==
    /\ position \in 1..(Len(EnvOrder) + 1) /\ exit_option = "none"
    /\ \A i \in 1..Len(EnvOrder) :
          IF i < position
          THEN EnvOrder[i] \notin BadVariables /\ config[EnvOrder[i]] = Base(EnvOrder[i])
          ELSE config[EnvOrder[i]] = config_init_default[EnvOrder[i]]

\* The latest of the arguments before the position that gives a field a value.
Latest(i, field) ==
    /\ i < position /\ Gives(i, field)
    /\ \A j \in 1..Len(args) : j < position /\ Gives(j, field) => j <= i

\* Every argument passed has parsed, and each field has the value of the latest
\* that gives it one.
ArgumentsSoFar ==
    /\ BadVariables = {} /\ position \in 1..(Len(args) + 1)
    /\ \A i \in 1..Len(args) :
          i < position /\ i \in BadArguments => args[i].kind = "operand"
    /\ exit_option # "none" <=> \E i \in 1..Len(args) : i < position /\ Asks(i)
    /\ \A field \in Fields :
          \/ /\ \A i \in 1..Len(args) : i < position => ~Gives(i, field)
             /\ config[field] = Base(field)
          \/ \E i \in 1..Len(args) :
                Latest(i, field) /\ config[field] = Parsed(field, args[i].text)

RankInv ==
    /\ stage \in {"env", "args", "validate", "done"}
    /\ stage = "env" => VariablesSoFar
    /\ stage \in {"args", "validate"} => ArgumentsSoFar
    /\ stage = "validate" =>
          /\ position = Len(args) + 1 /\ BadArguments = {}
          /\ \A i \in 1..Len(args) : ~Asks(i)
    /\ ResolvesByRank

\* Each field has its one place in the order of the variables.
LEMMA EnvOrderIsComplete ==
    /\ Len(EnvOrder) = 8
    /\ \A i \in 1..8 : EnvOrder[i] \in Fields
    /\ \A field \in Fields : \E i \in 1..8 : EnvOrder[i] = field
    /\ \A i, j \in 1..8 : EnvOrder[i] = EnvOrder[j] => i = j
<1>1. /\ EnvOrder[1] = "target" /\ EnvOrder[2] = "interval_sec"
      /\ EnvOrder[3] = "fail_threshold" /\ EnvOrder[4] = "timeout_ms"
      /\ EnvOrder[5] = "delay_minutes" /\ EnvOrder[6] = "enable_systemd"
      /\ EnvOrder[7] = "shutdown_mode" /\ EnvOrder[8] = "log_level"
  BY DEF EnvOrder
<1>2. \A i \in 1..8 : i = 1 \/ i = 2 \/ i = 3 \/ i = 4 \/ i = 5 \/ i = 6 \/ i = 7 \/ i = 8
  OBVIOUS
<1>3. Len(EnvOrder) = 8
  BY DEF EnvOrder
<1>4. \A i \in 1..8 : EnvOrder[i] \in Fields
  BY <1>1, <1>2 DEF Fields
<1>5. \A field \in Fields : \E i \in 1..8 : EnvOrder[i] = field
  BY <1>1 DEF Fields
<1>6. \A i, j \in 1..8 : EnvOrder[i] = EnvOrder[j] => i = j
  BY <1>1, <1>2
<1> QED BY <1>3, <1>4, <1>5, <1>6

\* The command line is a sequence of arguments.
LEMMA ArgumentTypes ==
    ASSUME Limited
    PROVE  /\ Len(args) \in Nat
           /\ \A i \in 1..Len(args) : args[i] \in Arguments
           /\ \A i \in 1..Len(args) : args[i].field \in Fields /\ args[i].text \in Texts
<1>1. args \in Seq(Arguments)
  BY InputAssumption DEF Limited
<1>2. \A i \in 1..Len(args) : args[i] \in Arguments
  BY <1>1
<1> QED BY <1>1, <1>2 DEF Arguments

\* Where one argument is the last to give a field a value, that value counts.
LEMMA LatestCounts ==
    ASSUME Limited, NEW field \in Fields, NEW i \in 1..Len(args), Gives(i, field),
           \A j \in 1..Len(args) : Gives(j, field) => j <= i
    PROVE  Effective(field) = Parsed(field, args[i].text)
<1>1. i \in Given(field) /\ \A j \in Given(field) : j <= i
  BY DEF Given, Gives
<1>2. Given(field) \subseteq Int
  BY ArgumentTypes DEF Given
<1> DEFINE last == CHOOSE k \in Given(field) : \A j \in Given(field) : j <= k
<1>3. last \in Given(field) /\ \A j \in Given(field) : j <= last
  BY <1>1
<1>4. last = i
  <2>1. last <= i /\ i <= last /\ last \in Int /\ i \in Int
    BY <1>1, <1>2, <1>3
  <2> HIDE DEF last
  <2> QED BY <2>1
<1>5. Given(field) # {}
  BY <1>1
<1> QED BY <1>4, <1>5 DEF Effective

\* Where none does, the variable or the default counts.
LEMMA BaseCounts ==
    ASSUME NEW field, \A i \in 1..Len(args) : ~Gives(i, field)
    PROVE  Effective(field) = Base(field)
BY DEF Effective, Base, Given, Gives

\* A variable that is read gets its value, or leaves the default; the others
\* keep theirs.
LEMMA RankVariable ==
    ASSUME Limited, VariablesSoFar, LoadVariable
    PROVE  VariablesSoFar'
<1>1. /\ position \in 1..8 /\ position' = position + 1 /\ exit_option' = exit_option
      /\ environ' = environ
      /\ variable = EnvOrder[position] /\ variable \in Fields
  BY EnvOrderIsComplete DEF LoadVariable, AtVariable, VariablesSoFar, variable
<1>2. variable \notin BadVariables
  BY <1>1 DEF LoadVariable, BadVariables
<1>3. config'[variable] = Base(variable)
  <2>1. CASE environ[variable].form = "unset"
    BY <1>1, <2>1, EnvOrderIsComplete DEF LoadVariable, VariablesSoFar, Base
  <2>2. CASE environ[variable].form # "unset"
    BY <1>1, <2>2 DEF LoadVariable, Limited, Base
  <2> QED BY <2>1, <2>2
<1>4. \A field \in Fields \ {variable} : config'[field] = config[field]
  BY <1>1 DEF LoadVariable, Limited
<1>5. ASSUME NEW i \in 1..8
      PROVE  IF i < position + 1
             THEN EnvOrder[i] \notin BadVariables /\ config'[EnvOrder[i]] = Base(EnvOrder[i])
             ELSE config'[EnvOrder[i]] = config_init_default[EnvOrder[i]]
  <2>1. CASE i = position
    BY <1>1, <1>2, <1>3, <2>1
  <2>2. CASE i # position
    <3>1. EnvOrder[i] \in Fields \ {variable}
      BY <1>1, <2>2, EnvOrderIsComplete
    <3>2. i < position + 1 <=> i < position
      BY <1>1, <2>2
    <3>3. IF i < position
          THEN EnvOrder[i] \notin BadVariables /\ config[EnvOrder[i]] = Base(EnvOrder[i])
          ELSE config[EnvOrder[i]] = config_init_default[EnvOrder[i]]
      BY EnvOrderIsComplete DEF VariablesSoFar
    <3> QED BY <1>4, <3>1, <3>2, <3>3
  <2> QED BY <2>1, <2>2
<1>6. BadVariables' = BadVariables /\ \A field : Base(field)' = Base(field)
  BY <1>1 DEF BadVariables, Base
<1>7. position' \in 1..(Len(EnvOrder) + 1) /\ exit_option' = "none"
  BY <1>1, EnvOrderIsComplete DEF VariablesSoFar
<1> QED BY <1>1, <1>5, <1>6, <1>7, EnvOrderIsComplete DEF VariablesSoFar

\* Once the variables are read every field has its base value.
LEMMA RankVariablesEnd ==
    ASSUME Limited, VariablesSoFar, EndVariables
    PROVE  ArgumentsSoFar'
<1>1. /\ position \in 1..9 /\ position > 8 /\ position' = 1
      /\ UNCHANGED <<environ, args, config, exit_option>> /\ exit_option = "none"
  BY EnvOrderIsComplete DEF EndVariables, VariablesSoFar
<1>2. \A i \in 1..8 : EnvOrder[i] \notin BadVariables /\ config[EnvOrder[i]] = Base(EnvOrder[i])
  BY <1>1, EnvOrderIsComplete DEF VariablesSoFar
<1>3. \A field \in Fields : field \notin BadVariables /\ config[field] = Base(field)
  BY <1>2, EnvOrderIsComplete
<1>4. BadVariables = {}
  BY <1>3 DEF BadVariables
<1>5. Len(args) \in Nat
  BY ArgumentTypes
<1>6. \A i \in 1..Len(args) : ~(i < 1)
  BY <1>5
<1>7. \A field : Base(field)' = Base(field)
  BY <1>1 DEF Base
<1>8. BadVariables' = {} /\ position' \in 1..(Len(args') + 1)
  BY <1>1, <1>4, <1>5 DEF BadVariables
<1>9. \A field \in Fields : /\ \A i \in 1..Len(args') : i < position' => ~Gives(i, field)'
                            /\ config'[field] = Base(field)'
  BY <1>1, <1>3, <1>6, <1>7
<1>10. \A i \in 1..Len(args') : ~(i < position')
  BY <1>1, <1>6
<1> QED BY <1>1, <1>8, <1>9, <1>10 DEF ArgumentsSoFar

\* An option becomes the latest to give its field a value.
LEMMA RankOption ==
    ASSUME Limited, ArgumentsSoFar, LoadOption
    PROVE  ArgumentsSoFar'
<1>1. /\ position \in 1..Len(args) /\ position' = position + 1 /\ Len(args) \in Nat
      /\ UNCHANGED <<environ, args, exit_option>> /\ argument = args[position]
      /\ argument.kind = "option" /\ argument.field \in Fields
  BY ArgumentTypes DEF LoadOption, AtArgument, argument, ArgumentsSoFar
<1>2. /\ config'[argument.field] = Parsed(argument.field, argument.text)
      /\ \A field \in Fields \ {argument.field} : config'[field] = config[field]
  BY <1>1 DEF LoadOption, Limited
<1>3. position \notin BadArguments /\ ~Asks(position)
  BY <1>1 DEF LoadOption, BadArguments, Asks
<1>4. \A i \in 1..Len(args) : i < position + 1 <=> i < position \/ i = position
  BY <1>1
<1>5. ASSUME NEW field \in Fields
      PROVE  \/ /\ \A i \in 1..Len(args) : i < position + 1 => ~Gives(i, field)
                /\ config'[field] = Base(field)
             \/ \E i \in 1..Len(args) :
                   /\ i < position + 1 /\ Gives(i, field)
                   /\ \A j \in 1..Len(args) : j < position + 1 /\ Gives(j, field) => j <= i
                   /\ config'[field] = Parsed(field, args[i].text)
  <2>1. CASE field = argument.field
    <3>1. Gives(position, field) /\ config'[field] = Parsed(field, args[position].text)
      BY <1>1, <1>2, <2>1 DEF Gives
    <3>2. \A j \in 1..Len(args) : j < position + 1 => j <= position
      BY <1>1
    <3> QED BY <1>1, <1>4, <3>1, <3>2
  <2>2. CASE field # argument.field
    <3>1. ~Gives(position, field) /\ config'[field] = config[field]
      BY <1>1, <1>2, <2>2 DEF Gives
    <3> QED BY <1>4, <3>1 DEF ArgumentsSoFar, Latest
  <2> QED BY <2>1, <2>2
<1>6. /\ BadVariables' = BadVariables /\ BadArguments' = BadArguments
      /\ \A field : Base(field)' = Base(field)
      /\ \A i : (Asks(i)' <=> Asks(i)) /\ \A field : Gives(i, field)' <=> Gives(i, field)
  BY <1>1 DEF BadVariables, BadArguments, Base, Asks, Gives
<1>7. BadVariables' = {} /\ position' \in 1..(Len(args') + 1)
  BY <1>1, <1>6 DEF ArgumentsSoFar
<1>8. \A i \in 1..Len(args) : i < position + 1 /\ i \in BadArguments => args[i].kind = "operand"
  BY <1>3, <1>4 DEF ArgumentsSoFar
<1>9. exit_option # "none" <=> \E i \in 1..Len(args) : i < position + 1 /\ Asks(i)
  BY <1>3, <1>4 DEF ArgumentsSoFar
<1> QED BY <1>1, <1>5, <1>6, <1>7, <1>8, <1>9 DEF ArgumentsSoFar, Latest

\* What is passed over gives no field a value; version and help are remembered.
LEMMA RankPassed ==
    ASSUME Limited, ArgumentsSoFar, PassArgument
    PROVE  ArgumentsSoFar'
<1>1. /\ position \in 1..Len(args) /\ position' = position + 1 /\ Len(args) \in Nat
      /\ UNCHANGED <<environ, args, config>> /\ argument = args[position]
      /\ argument.kind \in {"version", "help", "operand"}
      /\ exit_option' = IF argument.kind = "operand" THEN exit_option ELSE argument.kind
  BY ArgumentTypes DEF PassArgument, AtArgument, argument, ArgumentsSoFar
<1>2. /\ position \in BadArguments => args[position].kind = "operand"
      /\ Asks(position) <=> args[position].kind # "operand"
      /\ \A field : ~Gives(position, field)
  BY <1>1 DEF BadArguments, Asks, Gives
<1>3. \A i \in 1..Len(args) : i < position + 1 <=> i < position \/ i = position
  BY <1>1
<1>4. ASSUME NEW field \in Fields
      PROVE  \/ /\ \A i \in 1..Len(args) : i < position + 1 => ~Gives(i, field)
                /\ config[field] = Base(field)
             \/ \E i \in 1..Len(args) :
                   /\ i < position + 1 /\ Gives(i, field)
                   /\ \A j \in 1..Len(args) : j < position + 1 /\ Gives(j, field) => j <= i
                   /\ config[field] = Parsed(field, args[i].text)
  BY <1>2, <1>3 DEF ArgumentsSoFar, Latest
<1>5. /\ BadVariables' = BadVariables /\ BadArguments' = BadArguments
      /\ \A field : Base(field)' = Base(field)
      /\ \A i : (Asks(i)' <=> Asks(i)) /\ \A field : Gives(i, field)' <=> Gives(i, field)
  BY <1>1 DEF BadVariables, BadArguments, Base, Asks, Gives
<1>6. BadVariables' = {} /\ position' \in 1..(Len(args') + 1)
  BY <1>1, <1>5 DEF ArgumentsSoFar
<1>7. \A i \in 1..Len(args) : i < position + 1 /\ i \in BadArguments => args[i].kind = "operand"
  BY <1>2, <1>3 DEF ArgumentsSoFar
<1>8. exit_option' # "none" <=> \E i \in 1..Len(args) : i < position + 1 /\ Asks(i)
  <2>1. exit_option # "none" <=> \E i \in 1..Len(args) : i < position /\ Asks(i)
    BY DEF ArgumentsSoFar
  <2>2. CASE argument.kind = "operand"
    BY <1>1, <1>2, <1>3, <2>1, <2>2
  <2>3. CASE argument.kind # "operand"
    BY <1>1, <1>2, <1>3, <2>3
  <2> QED BY <2>2, <2>3
<1> QED BY <1>1, <1>4, <1>5, <1>6, <1>7, <1>8 DEF ArgumentsSoFar, Latest

\* At the end of the command line the values are those that count.
LEMMA RankComplete ==
    ASSUME Limited, ArgumentsSoFar, position = Len(args) + 1
    PROVE  config = EffectiveConfig
<1>1. Len(args) \in Nat /\ \A i \in 1..Len(args) : i < position
  BY ArgumentTypes
<1>2. ASSUME NEW field \in Fields PROVE config[field] = Effective(field)
  <2>1. CASE \A i \in 1..Len(args) : ~Gives(i, field)
    <3>1. config[field] = Base(field)
      BY <2>1 DEF ArgumentsSoFar, Latest
    <3> QED BY <2>1, <3>1, BaseCounts
  <2>2. CASE \E k \in 1..Len(args) : Gives(k, field)
    <3>1. PICK i \in 1..Len(args) :
              Latest(i, field) /\ config[field] = Parsed(field, args[i].text)
      BY <1>1, <2>2 DEF ArgumentsSoFar
    <3>2. Gives(i, field) /\ \A j \in 1..Len(args) : Gives(j, field) => j <= i
      BY <1>1, <3>1 DEF Latest
    <3> QED BY <3>1, <3>2, LatestCounts
  <2> QED BY <2>1, <2>2
<1>3. config = [field \in Fields |-> config[field]]
  BY DEF Limited
<1> QED BY <1>2, <1>3 DEF EffectiveConfig

\* At the end of the command line an operand refuses, a request comes next, and
\* otherwise there is nothing left that could refuse but the validation.
LEMMA RankArgumentsEnd ==
    ASSUME Limited, ArgumentsSoFar, EndArguments
    PROVE  /\ position = Len(args) + 1
           /\ outcome' = "refused" /\ stage' = "done" => BadArguments # {}
           /\ outcome' = "exit" /\ stage' = "done" =>
                  BadArguments = {} /\ \E i \in 1..Len(args) : Asks(i)
           /\ stage' # "done" =>
                  BadArguments = {} /\ \A i \in 1..Len(args) : ~Asks(i)
           /\ stage' = "done" => outcome' \in {"refused", "exit"}
           /\ stage' \in {"done", "validate"}
           /\ UNCHANGED <<environ, args, position, config, exit_option>>
<1>1. position = Len(args) + 1 /\ \A i \in 1..Len(args) : i < position
  BY ArgumentTypes DEF ArgumentsSoFar, EndArguments
<1>2. BadArguments \subseteq 1..Len(args)
  BY DEF BadArguments
<1>3. BadArguments # {} <=> \E i \in 1..Len(args) : args[i].kind = "operand"
  <2>1. \A i \in 1..Len(args) : args[i].kind = "operand" => i \in BadArguments
    BY DEF BadArguments
  <2> QED BY <1>1, <1>2, <2>1 DEF ArgumentsSoFar
<1>4. exit_option # "none" <=> \E i \in 1..Len(args) : Asks(i)
  BY <1>1 DEF ArgumentsSoFar
<1>5. CASE \E i \in 1..Len(args) : args[i].kind = "operand"
  BY <1>1, <1>3, <1>5 DEF EndArguments, Finish
<1>6. CASE (\A i \in 1..Len(args) : args[i].kind # "operand") /\ exit_option # "none"
  BY <1>1, <1>3, <1>4, <1>6 DEF EndArguments, Finish
<1>7. CASE (\A i \in 1..Len(args) : args[i].kind # "operand") /\ exit_option = "none"
  BY <1>1, <1>3, <1>4, <1>7 DEF EndArguments, Finish
<1> QED BY <1>5, <1>6, <1>7

\* Every step keeps the ranking, and the last one ends as the inputs demand.
LEMMA RankStep ==
    ASSUME Limited, RankInv, [Next]_vars
    PROVE  RankInv'
<1> DEFINE demanded ==
             IF BadVariables # {} \/ BadArguments # {} THEN "refused"
             ELSE IF \E i \in 1..Len(args) : Asks(i) THEN "exit"
             ELSE IF config_validate(EffectiveConfig) THEN "run"
             ELSE "refused"
<1>a. ASSUME stage' = "done", UNCHANGED <<environ, args, config>>,
             outcome' = demanded, outcome' = "run" => config = EffectiveConfig
      PROVE  RankInv'
  <2>1. demanded' = demanded /\ EffectiveConfig' = EffectiveConfig
    BY <1>a DEF BadVariables, BadArguments, Asks, EffectiveConfig, Effective, Given
  <2>2. outcome' = demanded'
    BY <1>a, <2>1
  <2>3. ResolvesByRank'
    BY <1>a, <2>1, <2>2 DEF ResolvesByRank, Asks
  <2> QED BY <1>a, <2>3 DEF RankInv
<1>b. ASSUME stage' # "done" PROVE ResolvesByRank'
  BY <1>b DEF ResolvesByRank
<1>1. CASE LoadVariable
  <2>1. stage = "env" /\ stage' = "env"
    BY <1>1 DEF LoadVariable, AtVariable
  <2> QED BY <1>1, <1>b, <2>1, RankVariable DEF RankInv
<1>2. CASE RefuseVariable
  <2>1. stage = "env" /\ VariablesSoFar
    BY <1>2 DEF RefuseVariable, AtVariable, RankInv
  <2>2. variable \in Fields
    BY <1>2, <2>1, EnvOrderIsComplete DEF RefuseVariable, AtVariable, VariablesSoFar, variable
  <2>3. variable \in BadVariables
    BY <1>2, <2>2 DEF RefuseVariable, BadVariables
  <2> QED BY <1>2, <1>a, <2>3 DEF RefuseVariable, Finish
<1>3. CASE EndVariables
  <2>1. stage = "env" /\ stage' = "args"
    BY <1>3 DEF EndVariables
  <2> QED BY <1>3, <1>b, <2>1, RankVariablesEnd DEF RankInv
<1>4. CASE LoadOption
  <2>1. stage = "args" /\ stage' = "args"
    BY <1>4 DEF LoadOption, AtArgument
  <2> QED BY <1>4, <1>b, <2>1, RankOption DEF RankInv
<1>5. CASE PassArgument
  <2>1. stage = "args" /\ stage' = "args"
    BY <1>5 DEF PassArgument, AtArgument
  <2> QED BY <1>5, <1>b, <2>1, RankPassed DEF RankInv
<1>6. CASE RefuseArgument
  <2>1. position \in 1..Len(args)
    BY <1>6, ArgumentTypes DEF RefuseArgument, AtArgument, RankInv, ArgumentsSoFar
  <2>2. position \in BadArguments
    BY <1>6, <2>1 DEF RefuseArgument, BadArguments, argument
  <2> QED BY <1>6, <1>a, <2>2 DEF RefuseArgument, Finish
<1>7. CASE EndArguments
  <2>1. stage = "args" /\ ArgumentsSoFar /\ BadVariables = {}
    BY <1>7 DEF EndArguments, RankInv, ArgumentsSoFar
  <2>2. CASE stage' = "done"
    <3>1. outcome' = demanded /\ outcome' # "run"
      BY <1>7, <2>1, <2>2, RankArgumentsEnd
    <3> QED BY <1>7, <1>a, <2>1, <2>2, <3>1, RankArgumentsEnd
  <2>3. CASE stage' # "done"
    <3>1. /\ stage' = "validate" /\ position = Len(args) + 1 /\ BadArguments = {}
          /\ \A i \in 1..Len(args) : ~Asks(i)
          /\ UNCHANGED <<environ, args, position, config, exit_option>>
      BY <1>7, <2>1, <2>3, RankArgumentsEnd
    <3>2. ArgumentsSoFar'
      BY <2>1, <3>1 DEF ArgumentsSoFar, BadVariables, BadArguments, Asks, Base, Gives, Latest
    <3>3. /\ position' = Len(args') + 1 /\ BadArguments' = {}
          /\ \A i \in 1..Len(args') : ~Asks(i)'
      BY <3>1 DEF BadArguments, Asks
    <3> QED BY <1>b, <2>3, <3>1, <3>2, <3>3 DEF RankInv
  <2> QED BY <2>2, <2>3
<1>8. CASE Validate
  <2>1. /\ ArgumentsSoFar /\ position = Len(args) + 1 /\ BadArguments = {}
        /\ \A i \in 1..Len(args) : ~Asks(i)
    BY <1>8 DEF Validate, RankInv
  <2>2. config = EffectiveConfig /\ BadVariables = {}
    BY <2>1, RankComplete DEF ArgumentsSoFar
  <2>3. /\ stage' = "done" /\ UNCHANGED <<environ, args, config>>
        /\ outcome' = IF config_validate(config) THEN "run" ELSE "refused"
    BY <1>8 DEF Validate, Finish
  <2>4. outcome' = demanded
    BY <2>1, <2>2, <2>3
  <2> QED BY <1>a, <2>2, <2>3, <2>4
<1>9. CASE UNCHANGED vars
  <2>1. VariablesSoFar => VariablesSoFar'
    BY <1>9 DEF vars, VariablesSoFar, BadVariables, Base
  <2>2. ArgumentsSoFar => ArgumentsSoFar'
    BY <1>9 DEF vars, ArgumentsSoFar, BadVariables, BadArguments, Asks, Base, Gives, Latest
  <2>3. ResolvesByRank => ResolvesByRank'
    BY <1>9 DEF vars, ResolvesByRank, BadVariables, BadArguments, EffectiveConfig,
                Effective, Given
  <2>4. BadArguments' = BadArguments /\ \A i : Asks(i)' <=> Asks(i)
    BY <1>9 DEF vars, BadArguments, Asks
  <2> QED BY <1>9, <2>1, <2>2, <2>3, <2>4 DEF vars, RankInv
<1> QED BY <1>1, <1>2, <1>3, <1>4, <1>5, <1>6, <1>7, <1>8, <1>9 DEF Next

\* Whatever the environment and the command line hold, config_resolve ends as
\* its inputs demand, and each value of an accepted configuration is that of
\* the last option that gives it, else of the variable, else the default.
THEOREM RankedValues == Spec => []ResolvesByRank
<1>1. Init => RankInv
  <2> SUFFICES ASSUME Init PROVE RankInv
    OBVIOUS
  <2>1. VariablesSoFar
    BY EnvOrderIsComplete DEF Init, VariablesSoFar
  <2> QED BY <2>1 DEF Init, RankInv, ResolvesByRank
<1>2. ConfigInv /\ RankInv /\ [Next]_vars => RankInv'
  BY RankStep DEF ConfigInv
<1>3. RankInv => ResolvesByRank
  BY DEF RankInv
<1> QED BY <1>1, <1>2, <1>3, ConfigInvInit, ConfigInvStep, PTL DEF Spec

=============================================================================
