----------------------------- MODULE PolicyReload -----------------------------
(***************************************************************************)
(* The selector policy of the webhook: its evaluation at startup, the       *)
(* background task that re-reads the policy files and swaps the active      *)
(* rules, and the shutdown latch (Lifecycle) that stops the task.           *)
(*                                                                          *)
(* The files are two keys of one mounted ConfigMap.  The kubelet replaces   *)
(* both at once, generation by generation, while evaluate() stats and reads *)
(* the one and then the other: every stat and every read is a step.         *)
(* Entries are abstract; a line is a comment or a list of comma-separated   *)
(* pieces, of which some are blank.                                         *)
(***************************************************************************)
EXTENDS Integers, Sequences, SequencesExt

CONSTANTS
    Key,          \* selector keys requests may ask for
    Prefix,       \* strings used as key prefixes
    Covers,       \* Covers[p]: the keys that start with prefix p
    Configs,      \* the settings the process may be started with
    Generations,  \* sequence of ConfigMap generations
    Blank         \* an entry that is empty after trimming

Entry == Key \cup Prefix

Line == [comment : BOOLEAN, pieces : Seq(Entry \cup {Blank})]

\* "oversized" is readable but over MAX_POLICY_FILE_BYTES; "unreadable" can be
\* statted but not read as UTF-8 text.
File == [kind : {"text", "oversized", "unreadable", "missing"},
         lines : Seq(Line)]

Config == [allow_all_selectors : BOOLEAN,
           allowed_keys : Seq(Entry \cup {Blank}),
           allowed_key_prefixes : Seq(Entry \cup {Blank}),
           keys_file : BOOLEAN, key_prefixes_file : BOOLEAN,
           interval : Nat]

ASSUME CoversAssumption == Covers \in [Prefix -> SUBSET Key]
ASSUME ConfigsAssumption == \A c \in Configs : c \in Config
ASSUME GenerationsAssumption ==
    /\ Len(Generations) \in Nat \ {0}
    /\ \A g \in 1 .. Len(Generations) :
          Generations[g] \in [keys : File, key_prefixes : File]
ASSUME BlankAssumption == Blank \notin Entry

\* PolicyRules, and the state before from_args has built any.
AllowAll == [kind |-> "allow_all"]
AllowList == [kind : {"allow_list"}, allowed_keys : Seq(Entry),
              allowed_key_prefixes : Seq(Entry)]
Unset == [kind |-> "unset"]

VARIABLES
    config,         \* the parsed command line
    gen,            \* the ConfigMap generation now mounted
    pc,             \* where startup, and then the reload task, is
    booting,        \* evaluate() runs for from_args, not for the task
    keys,           \* evaluate's local allowed_keys
    prefixes,       \* evaluate's local allowed_key_prefixes
    rules,          \* the rules requests are checked against
    gauges,         \* policy_active_keys, policy_active_key_prefixes
    shutting_down,  \* Lifecycle::shutting_down
    notify,         \* Lifecycle::shutdown: "unsent", "permit", "woken", "used"
    keysGen, prefixesGen,  \* generations the locals were read from (history)
    inForce         \* generations the active rules were read from (history)

vars == <<config, gen, pc, booting, keys, prefixes, rules, gauges,
          shutting_down, notify, keysGen, prefixesGen, inForce>>

evaluating == <<keys, prefixes, keysGen, prefixesGen>>
lifecycle == <<shutting_down, notify>>

Init ==
    /\ config \in Configs
    /\ gen = 1
    /\ pc = "from_args"
    /\ booting = TRUE
    /\ keys = <<>> /\ prefixes = <<>>
    /\ rules = Unset
    /\ gauges = <<0, 0>>
    /\ shutting_down = FALSE
    /\ notify = "unsent"
    /\ keysGen = 1 /\ prefixesGen = 1 /\ inForce = <<1, 1>>

-----------------------------------------------------------------------------
(* Policy files and rules.                                                  *)

\* Mutant: a piece is kept when it is empty after trimming.
PushEntryUntrimmed(entries, piece) == Append(entries, piece)

PushEntry(entries, piece) ==
    IF piece = Blank THEN entries ELSE Append(entries, piece)

\* The inner loop of read_policy_file: the pieces of one line, in order.
PushLine(entries, pieces) ==
    LET pushed[i \in 0 .. Len(pieces)] ==
          IF i = 0 THEN entries ELSE PushEntry(pushed[i - 1], pieces[i])
    IN  pushed[Len(pieces)]

\* The entries read_policy_file returns for the text of a file: the outer
\* loop, over its lines.
Entries(file) ==
    LET read[i \in 0 .. Len(file.lines)] ==
          IF i = 0 THEN <<>>
          ELSE IF file.lines[i].comment THEN read[i - 1]
          ELSE PushLine(read[i - 1], file.lines[i].pieces)
    IN  read[Len(file.lines)]

HasFile == config.keys_file \/ config.key_prefixes_file

Allows(r, key) ==
    \/ r.kind = "allow_all"
    \/ /\ r.kind = "allow_list"
       /\ \/ key \in ToSet(r.allowed_keys)
          \/ \E p \in ToSet(r.allowed_key_prefixes) \cap Prefix :
                key \in Covers[p]

Counts(r) ==
    IF r.kind = "allow_all" THEN <<0, 0>>
    ELSE <<Len(r.allowed_keys), Len(r.allowed_key_prefixes)>>

-----------------------------------------------------------------------------
(* Startup and evaluation.                                                  *)

\* The steps evaluate() takes, given which files are configured.
AfterKeys == IF config.key_prefixes_file THEN "stat_prefixes" ELSE "decide"
FirstStep == IF config.keys_file THEN "stat_keys" ELSE AfterKeys

HasInline ==
    config.allowed_keys # <<>> \/ config.allowed_key_prefixes # <<>>

InlineIsValid ==
    /\ Blank \notin ToSet(config.allowed_keys)
    /\ Blank \notin ToSet(config.allowed_key_prefixes)

ArgsAreValid ==
    /\ config.allow_all_selectors <=> ~(HasInline \/ HasFile)
    /\ InlineIsValid

BeginEvaluate ==
    /\ keys' = config.allowed_keys
    /\ prefixes' = config.allowed_key_prefixes
    /\ keysGen' = gen /\ prefixesGen' = gen
    /\ pc' = FirstStep

RejectArgs ==
    /\ pc = "from_args"
    /\ ~ArgsAreValid
    /\ pc' = "failed"
    /\ UNCHANGED <<config, gen, booting, rules, gauges, evaluating, lifecycle,
                   inForce>>

StartAllowAll ==
    /\ pc = "from_args"
    /\ ArgsAreValid /\ config.allow_all_selectors
    /\ rules' = AllowAll
    /\ pc' = "no_task"
    /\ booting' = FALSE
    /\ UNCHANGED <<config, gen, gauges, evaluating, lifecycle, inForce>>

StartEvaluate ==
    /\ pc = "from_args"
    /\ ArgsAreValid /\ ~config.allow_all_selectors
    /\ BeginEvaluate
    /\ UNCHANGED <<config, gen, booting, rules, gauges, lifecycle, inForce>>

\* evaluate() returned an error: startup fails, a reload keeps the old rules.
EvaluateFails ==
    /\ pc' = IF booting THEN "failed" ELSE "record"
    /\ UNCHANGED <<config, gen, booting, rules, gauges, evaluating, lifecycle,
                   inForce>>

\* fs::metadata and the size limit.
StatFile(label, file, next) ==
    /\ pc = label
    /\ IF file.kind \in {"missing", "oversized"}
       THEN EvaluateFails
       ELSE /\ pc' = next
            /\ UNCHANGED <<config, gen, booting, rules, gauges, evaluating,
                           lifecycle, inForce>>

StatKeys == StatFile("stat_keys", Generations[gen].keys, "read_keys")

StatPrefixes ==
    StatFile("stat_prefixes", Generations[gen].key_prefixes, "read_prefixes")

Readable(file) == file.kind \in {"text", "oversized"}

ReadKeys ==
    /\ pc = "read_keys"
    /\ LET file == Generations[gen].keys IN
       IF ~Readable(file)
       THEN EvaluateFails
       ELSE /\ keys' = keys \o Entries(file)
            /\ keysGen' = gen
            /\ pc' = AfterKeys
            /\ UNCHANGED <<config, gen, booting, prefixes, rules, gauges,
                           lifecycle, prefixesGen, inForce>>

\* Mutant: an unreadable second file is taken for an empty one.
ReadPrefixesLenient ==
    /\ pc = "read_prefixes"
    /\ LET file == Generations[gen].key_prefixes IN
       /\ prefixes' = prefixes \o (IF Readable(file) THEN Entries(file)
                                                     ELSE <<>>)
       /\ prefixesGen' = gen
       /\ pc' = "decide"
       /\ UNCHANGED <<config, gen, booting, keys, rules, gauges, lifecycle,
                      keysGen, inForce>>

ReadPrefixes ==
    /\ pc = "read_prefixes"
    /\ LET file == Generations[gen].key_prefixes IN
       IF ~Readable(file)
       THEN EvaluateFails
       ELSE /\ prefixes' = prefixes \o Entries(file)
            /\ prefixesGen' = gen
            /\ pc' = "decide"
            /\ UNCHANGED <<config, gen, booting, keys, rules, gauges,
                           lifecycle, keysGen, inForce>>

NoEntries == keys = <<>> /\ prefixes = <<>>

Evaluated == [kind |-> "allow_list", allowed_keys |-> keys,
              allowed_key_prefixes |-> prefixes]

\* Mutant: an allow-list that evaluates to nothing is taken for no policy.
DecideEmptyWidening ==
    /\ pc = "decide"
    /\ NoEntries
    /\ rules' = AllowAll
    /\ booting' = FALSE
    /\ pc' = IF booting THEN "no_task" ELSE "record"
    /\ UNCHANGED <<config, gen, gauges, evaluating, lifecycle, inForce>>

DecideEmpty ==
    /\ pc = "decide"
    /\ NoEntries
    /\ EvaluateFails

\* from_args succeeded: main seeds the gauges and spawns the reload task.
DecideStartup ==
    /\ pc = "decide" /\ booting
    /\ ~NoEntries
    /\ rules' = Evaluated
    /\ inForce' = <<keysGen, prefixesGen>>
    /\ gauges' = IF HasFile THEN Counts(Evaluated) ELSE gauges
    /\ booting' = FALSE
    /\ pc' = IF HasFile /\ config.interval # 0 THEN "select" ELSE "no_task"
    /\ UNCHANGED <<config, gen, evaluating, lifecycle>>

\* Mutant: the change test compares the numbers of entries.
DecideReloadByCount ==
    /\ pc = "decide" /\ ~booting
    /\ ~NoEntries
    /\ IF Counts(rules) = Counts(Evaluated)
       THEN UNCHANGED <<rules, inForce>>
       ELSE rules' = Evaluated /\ inForce' = <<keysGen, prefixesGen>>
    /\ pc' = "record"
    /\ UNCHANGED <<config, gen, booting, gauges, evaluating, lifecycle>>

DecideReload ==
    /\ pc = "decide" /\ ~booting
    /\ ~NoEntries
    /\ IF rules = Evaluated
       THEN UNCHANGED <<rules, inForce>>
       ELSE rules' = Evaluated /\ inForce' = <<keysGen, prefixesGen>>
    /\ pc' = "record"
    /\ UNCHANGED <<config, gen, booting, gauges, evaluating, lifecycle>>

\* Mutant: the counts come from the last evaluation.
RecordEvaluated ==
    /\ pc = "record"
    /\ gauges' = <<Len(keys), Len(prefixes)>>
    /\ pc' = "select"
    /\ UNCHANGED <<config, gen, booting, rules, evaluating, lifecycle, inForce>>

\* The counts come from the rules in force, whatever the outcome.
Record ==
    /\ pc = "record"
    /\ gauges' = Counts(rules)
    /\ pc' = "select"
    /\ UNCHANGED <<config, gen, booting, rules, evaluating, lifecycle, inForce>>

-----------------------------------------------------------------------------
(* The select loop of the reload task and the shutdown latch.               *)

\* shutdown_requested: the fast path looks at the flag ...
PollShutdown ==
    /\ pc = "select"
    /\ pc' = IF shutting_down THEN "exited" ELSE "register"
    /\ UNCHANGED <<config, gen, booting, rules, gauges, evaluating, lifecycle,
                   inForce>>

\* ... then notified() takes a stored permit or registers as the waiter.
Register ==
    /\ pc = "register"
    /\ IF notify = "permit"
       THEN notify' = "used" /\ pc' = "exited"
       ELSE notify' = notify /\ pc' = "waiting"
    /\ UNCHANGED <<config, gen, booting, rules, gauges, evaluating,
                   shutting_down, inForce>>

Wake ==
    /\ pc = "waiting"
    /\ notify = "woken"
    /\ notify' = "used"
    /\ pc' = "exited"
    /\ UNCHANGED <<config, gen, booting, rules, gauges, evaluating,
                   shutting_down, inForce>>

\* The tick wins the select; a notification the dropped future had received
\* is stored again as a permit.
TickFires ==
    /\ pc \in {"select", "waiting"}
    /\ notify' = IF notify = "woken" THEN "permit" ELSE notify
    /\ pc' = "backstop"
    /\ UNCHANGED <<config, gen, booting, rules, gauges, evaluating,
                   shutting_down, inForce>>

BackstopExit ==
    /\ pc = "backstop"
    /\ shutting_down
    /\ pc' = "exited"
    /\ UNCHANGED <<config, gen, booting, rules, gauges, evaluating, lifecycle,
                   inForce>>

BackstopReload ==
    /\ pc = "backstop"
    /\ ~shutting_down
    /\ BeginEvaluate
    /\ UNCHANGED <<config, gen, booting, rules, gauges, lifecycle, inForce>>

\* mark_shutting_down, called by the signal handler of the running server:
\* first the flag, then the notification.
SetFlag ==
    /\ ~booting /\ ~shutting_down
    /\ shutting_down' = TRUE
    /\ UNCHANGED <<config, gen, pc, booting, rules, gauges, evaluating, notify,
                   inForce>>

\* Mutant: notify_waiters, which stores no permit.
NotifyWaiters ==
    /\ shutting_down /\ notify = "unsent"
    /\ notify' = IF pc = "waiting" THEN "woken" ELSE "used"
    /\ UNCHANGED <<config, gen, pc, booting, rules, gauges, evaluating,
                   shutting_down, inForce>>

NotifyOne ==
    /\ shutting_down /\ notify = "unsent"
    /\ notify' = IF pc = "waiting" THEN "woken" ELSE "permit"
    /\ UNCHANGED <<config, gen, pc, booting, rules, gauges, evaluating,
                   shutting_down, inForce>>

\* The kubelet swaps the ..data link: both files change together.
SwapConfigMap ==
    /\ gen < Len(Generations)
    /\ gen' = gen + 1
    /\ UNCHANGED <<config, pc, booting, rules, gauges, evaluating, lifecycle,
                   inForce>>

\* Nothing is left to happen.
Stopped ==
    /\ pc \in {"failed", "exited", "no_task"}
    /\ UNCHANGED vars

TaskStep ==
    \/ RejectArgs \/ StartAllowAll \/ StartEvaluate
    \/ StatKeys \/ ReadKeys \/ StatPrefixes \/ ReadPrefixes
    \/ DecideEmpty \/ DecideStartup \/ DecideReload \/ Record
    \/ PollShutdown \/ Register \/ Wake \/ BackstopExit \/ BackstopReload

Next ==
    \/ TaskStep \/ TickFires
    \/ SetFlag \/ NotifyOne
    \/ SwapConfigMap
    \/ Stopped

Spec == Init /\ [][Next]_vars

\* The task is polled while it is ready, and mark_shutting_down runs to its
\* end once begun; no timer is needed to stop.
PromptSpec == Spec /\ WF_vars(TaskStep) /\ WF_vars(NotifyOne)

\* The interval timer keeps firing: needed to reload, never to stop.
TimerRuns == WF_vars(TickFires)
-----------------------------------------------------------------------------
(* Properties.                                                              *)

Gen == 1 .. Len(Generations)

\* Type correctness of the policy, the task and the latch.  In particular no
\* blank entry becomes a rule: a blank prefix would cover every key.
TypeOK ==
    /\ config \in Config
    /\ gen \in Gen
    /\ pc \in {"from_args", "stat_keys", "read_keys", "stat_prefixes",
               "read_prefixes", "decide", "record", "select", "register",
               "waiting", "backstop", "failed", "exited", "no_task"}
    /\ booting \in BOOLEAN /\ shutting_down \in BOOLEAN
    /\ keys \in Seq(Entry) /\ prefixes \in Seq(Entry)
    /\ rules \in AllowList \cup {AllowAll, Unset}
    /\ gauges \in Nat \X Nat
    /\ notify \in {"unsent", "permit", "woken", "used"}
    /\ keysGen \in Gen /\ prefixesGen \in Gen /\ inForce \in Gen \X Gen

\* The rules evaluate() builds from the keys file of generation i and the
\* prefixes file of generation j.
RulesOf(i, j) ==
    [kind |-> "allow_list",
     allowed_keys |-> config.allowed_keys \o
        (IF config.keys_file THEN Entries(Generations[i].keys) ELSE <<>>),
     allowed_key_prefixes |-> config.allowed_key_prefixes \o
        (IF config.key_prefixes_file THEN Entries(Generations[j].key_prefixes)
                                     ELSE <<>>)]

\* Where the rules in force come from: whatever generations were mounted
\* during the reads, whichever reads failed, the active allow-list is the
\* inline entries and the whole of one mounted version of each file, the
\* prefixes never from an older generation than the keys.
RulesProvenance ==
    rules.kind = "allow_list" =>
        /\ rules = RulesOf(inForce[1], inForce[2])
        /\ inForce[1] <= gen /\ inForce[2] <= gen
        /\ config.keys_file => Readable(Generations[inForce[1]].keys)
        /\ config.key_prefixes_file =>
              Readable(Generations[inForce[2]].key_prefixes)
        /\ config.keys_file /\ config.key_prefixes_file =>
              inForce[1] <= inForce[2]

\* ADR 0004, "Configured-empty is not allow-all": requests are served only
\* under an allow-list with at least one entry, unless the operator asked for
\* allow-all; no sequence of file contents and failures widens it.
NeverWidens ==
    pc \notin {"from_args", "failed"} /\ ~booting =>
        IF config.allow_all_selectors
        THEN rules = AllowAll
        ELSE /\ rules.kind = "allow_list"
             /\ rules.allowed_keys # <<>> \/ rules.allowed_key_prefixes # <<>>

\* The active-count gauges describe the rules being served whenever the
\* reload task is not in the middle of a cycle, also after failed reloads.
GaugesMatch ==
    HasFile /\ pc \in {"select", "register", "waiting", "backstop", "exited",
                       "no_task"} => gauges = Counts(rules)

\* "The task exits promptly on shutdown", with no help from the timer.
PromptExit == shutting_down ~> pc \in {"exited", "no_task"}

\* A generation that stays mounted and evaluates without error ends up in
\* force, unless the process shuts down or never reloads.
GoodGeneration(g) ==
    /\ Generations[g].keys.kind = "text"
    /\ Generations[g].key_prefixes.kind = "text"
    /\ Counts(RulesOf(g, g)) # <<0, 0>>

Converges ==
    TimerRuns =>
      \A g \in Gen :
        <>[](gen = g /\ GoodGeneration(g)) =>
            \/ <>(shutting_down \/ pc \in {"failed", "no_task"})
            \/ <>[](rules = RulesOf(g, g))

\* ADR 0004: "a ConfigMap projection is an atomic ..data symlink swap, so no
\* torn read": a key that every generation mounted so far allows is allowed.
NoSpuriousDenial ==
    rules.kind = "allow_list" =>
        \A k \in Key :
            (\A g \in 1 .. gen : Allows(RulesOf(g, g), k)) => Allows(rules, k)
=============================================================================
