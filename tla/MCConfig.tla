------------------------------ MODULE MCConfig ------------------------------
(* Instances of the configuration for TLC: at most one variable or a chosen *)
(* pair of them is set, and at most two arguments are given.                *)
EXTENDS Config, TLC

Number(n) == [form |-> "number", number |-> n, word |-> ""]
Word(w) == [form |-> "word", number |-> 0, word |-> w]
Form(f) == [form |-> f, number |-> 0, word |-> ""]
Address(w) == [form |-> "address", number |-> 0, word |-> w]

\* Texts around every limit of the parsers and of the validation.
TextsFor(field) ==
    CASE field = "target" -> {Address("::1"), Word("host"), Form("empty"), Form("long")}
      [] field = "interval_sec" -> {Number(0), Number(1), Number(INT_MAX), Number(INT_MAX + 1)}
      [] field = "fail_threshold" -> {Number(-1), Number(1), Form("empty")}
      [] field = "timeout_ms" -> {Number(999), Number(1000), Number(INT_MAX), Word("2s")}
      [] field = "delay_minutes" -> {Number(-1), Number(0), Number(MAX_DELAY_MINUTES), Number(MAX_DELAY_MINUTES + 1)}
      [] field = "shutdown_mode" -> {Word("true-off"), Word("log-only"), Word("off")}
      [] field = "log_level" -> {Word("none"), Word("debug"), Number(1)}
      [] field = "enable_systemd" -> {Word("true"), Word("false"), Word("yes")}

Unset == [field \in Fields |-> Form("unset")]

\* One variable, or the mode together with the delay.
SmallEnvironments ==
    {Unset} \cup
    UNION {{(f :> t) @@ Unset : t \in TextsFor(f)} : f \in Fields} \cup
    {[Unset EXCEPT !["shutdown_mode"] = m, !["delay_minutes"] = d] :
        m \in TextsFor("shutdown_mode"), d \in TextsFor("delay_minutes")}

Bare(kind) == [kind |-> kind, field |-> "target", text |-> Form("unset")]

SmallArguments ==
    {Bare(k) : k \in {"version", "help", "unknown", "operand"}} \cup
    {[kind |-> "option", field |-> "enable_systemd", text |-> Form("unset")]} \cup
    UNION {{[kind |-> "option", field |-> f, text |-> t] : t \in TextsFor(f)} :
               f \in Fields}

SmallCommandLines == UNION {[1..n -> SmallArguments] : n \in 0..2}

=============================================================================
