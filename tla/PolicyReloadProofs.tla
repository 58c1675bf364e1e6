-------------------------- MODULE PolicyReloadProofs --------------------------
(***************************************************************************)
(* Proofs about PolicyReload, for every configuration, every sequence of    *)
(* ConfigMap generations and every relation between prefixes and keys.      *)
(*                                                                          *)
(* What the rules in force are made of is decided one read at a time, so    *)
(* the invariant follows the locals of evaluate() from label to label:      *)
(* EvaluationInv says what they hold at each of its steps.                  *)
(***************************************************************************)
EXTENDS PolicyReload, SequenceTheorems, NaturalsInduction,
        WellFoundedInduction, TLAPS

\* The generations the history variables name have been mounted.
GenerationInv ==
    /\ gen \in Nat /\ keysGen \in Nat /\ prefixesGen \in Nat
    /\ keysGen <= gen /\ prefixesGen <= gen
    /\ inForce[1] \in Nat /\ inForce[2] \in Nat

\* The labels at which evaluate() is running.
InEvaluate == {"stat_keys", "read_keys", "stat_prefixes", "read_prefixes",
               "decide"}

\* The labels of the reload task outside evaluate().
InTask == {"select", "register", "waiting", "backstop", "record", "exited",
           "no_task"}

\* The configuration never changes.
ConfigInv == config \in Configs

\* Startup builds the rules once; evaluate() never runs under allow-all.
PhaseInv ==
    /\ pc \in InTask => ~booting
    /\ pc = "from_args" => booting
    /\ pc \in (InEvaluate \cup InTask) \ {"no_task", "exited"} =>
          ~config.allow_all_selectors
    /\ ~booting => rules.kind \in {"allow_all", "allow_list"}

\* What evaluate() has collected when it reaches each of its steps.
EvaluationInv ==
    /\ pc \in {"stat_keys", "read_keys"} =>
          /\ config.keys_file
          /\ keys = config.allowed_keys
          /\ prefixes = config.allowed_key_prefixes
    /\ pc \in {"stat_prefixes", "read_prefixes"} =>
          /\ config.key_prefixes_file
          /\ keys = RulesOf(keysGen, prefixesGen).allowed_keys
          /\ prefixes = config.allowed_key_prefixes
          /\ config.keys_file => Readable(Generations[keysGen].keys)
    /\ pc = "decide" =>
          /\ Evaluated = RulesOf(keysGen, prefixesGen)
          /\ config.keys_file => Readable(Generations[keysGen].keys)
          /\ config.key_prefixes_file =>
                Readable(Generations[prefixesGen].key_prefixes)
          /\ config.keys_file /\ config.key_prefixes_file =>
                keysGen <= prefixesGen

Inv ==
    /\ ConfigInv
    /\ GenerationInv
    /\ PhaseInv
    /\ EvaluationInv
    /\ RulesProvenance
    /\ NeverWidens
    /\ GaugesMatch

-----------------------------------------------------------------------------
(* The inductive steps.                                                     *)

\* Where no file is configured the inline entries are all there is.
LEMMA InlineConcat ==
    ConfigInv => /\ config.allowed_keys \o <<>> = config.allowed_keys
                 /\ config.allowed_key_prefixes \o <<>>
                        = config.allowed_key_prefixes
<1> SUFFICES ASSUME ConfigInv
             PROVE  /\ config.allowed_keys \o <<>> = config.allowed_keys
                    /\ config.allowed_key_prefixes \o <<>>
                           = config.allowed_key_prefixes
  OBVIOUS
<1>1. /\ config.allowed_keys \in Seq(Entry \cup {Blank})
      /\ config.allowed_key_prefixes \in Seq(Entry \cup {Blank})
  BY ConfigsAssumption DEF ConfigInv, Config
<1> QED  BY <1>1, ConcatEmptySeq

\* No step changes the configuration.
LEMMA ConfigStep ==
    ASSUME ConfigInv, [Next]_vars
    PROVE  ConfigInv'
BY DEF ConfigInv, Next, TaskStep, Stopped, vars, RejectArgs, StartAllowAll,
       StartEvaluate, StatKeys, StatPrefixes, StatFile, ReadKeys, ReadPrefixes,
       EvaluateFails, DecideEmpty, DecideStartup, DecideReload, Record,
       PollShutdown, Register, Wake, BackstopExit, BackstopReload, TickFires,
       SetFlag, NotifyOne, SwapConfigMap

\* A file is read from the generation mounted at that moment.
LEMMA GenerationStep ==
    ASSUME GenerationInv, [Next]_vars
    PROVE  GenerationInv'
<1> USE DEF GenerationInv, evaluating, lifecycle
<1>1. CASE RejectArgs
  BY <1>1 DEF RejectArgs
<1>2. CASE StartAllowAll
  BY <1>2 DEF StartAllowAll
<1>3. CASE StartEvaluate
  BY <1>3 DEF StartEvaluate, BeginEvaluate, FirstStep, AfterKeys
<1>4. CASE StatKeys
  BY <1>4 DEF StatKeys, StatFile, EvaluateFails
<1>5. CASE ReadKeys
  BY <1>5 DEF ReadKeys, EvaluateFails, AfterKeys
<1>6. CASE StatPrefixes
  BY <1>6 DEF StatPrefixes, StatFile, EvaluateFails
<1>7. CASE ReadPrefixes
  BY <1>7 DEF ReadPrefixes, EvaluateFails
<1>8. CASE DecideEmpty
  BY <1>8 DEF DecideEmpty, EvaluateFails
<1>9. CASE DecideStartup
  BY <1>9 DEF DecideStartup
<1>10. CASE DecideReload
  BY <1>10 DEF DecideReload
<1>11. CASE Record
  BY <1>11 DEF Record
<1>12. CASE PollShutdown
  BY <1>12 DEF PollShutdown
<1>13. CASE Register
  BY <1>13 DEF Register
<1>14. CASE Wake
  BY <1>14 DEF Wake
<1>15. CASE BackstopExit
  BY <1>15 DEF BackstopExit
<1>16. CASE BackstopReload
  BY <1>16 DEF BackstopReload, BeginEvaluate, FirstStep, AfterKeys
<1>17. CASE TickFires
  BY <1>17 DEF TickFires
<1>18. CASE SetFlag
  BY <1>18 DEF SetFlag
<1>19. CASE NotifyOne
  BY <1>19 DEF NotifyOne
<1>20. CASE SwapConfigMap
  BY <1>20 DEF SwapConfigMap
<1>21. CASE UNCHANGED vars
  BY <1>21 DEF vars
<1> QED
  BY <1>1, <1>2, <1>3, <1>4, <1>5, <1>6, <1>7, <1>8, <1>9, <1>10, <1>11,
     <1>12, <1>13, <1>14, <1>15, <1>16, <1>17, <1>18, <1>19, <1>20, <1>21
     DEF Next, TaskStep, Stopped

\* Startup is left once, with rules.
LEMMA PhaseStep ==
    ASSUME PhaseInv, [Next]_vars
    PROVE  PhaseInv'
<1> USE DEF PhaseInv, InTask, InEvaluate, evaluating, lifecycle
<1>1. CASE RejectArgs
  BY <1>1 DEF RejectArgs
<1>2. CASE StartAllowAll
  BY <1>2 DEF StartAllowAll, AllowAll
<1>3. CASE StartEvaluate
  BY <1>3 DEF StartEvaluate, BeginEvaluate, FirstStep, AfterKeys
<1>4. CASE StatKeys
  BY <1>4 DEF StatKeys, StatFile, EvaluateFails
<1>5. CASE ReadKeys
  BY <1>5 DEF ReadKeys, EvaluateFails, AfterKeys
<1>6. CASE StatPrefixes
  BY <1>6 DEF StatPrefixes, StatFile, EvaluateFails
<1>7. CASE ReadPrefixes
  BY <1>7 DEF ReadPrefixes, EvaluateFails
<1>8. CASE DecideEmpty
  BY <1>8 DEF DecideEmpty, EvaluateFails
<1>9. CASE DecideStartup
  BY <1>9 DEF DecideStartup, Evaluated
<1>10. CASE DecideReload
  BY <1>10 DEF DecideReload, Evaluated
<1>11. CASE Record
  BY <1>11 DEF Record
<1>12. CASE PollShutdown
  BY <1>12 DEF PollShutdown
<1>13. CASE Register
  BY <1>13 DEF Register
<1>14. CASE Wake
  BY <1>14 DEF Wake
<1>15. CASE BackstopExit
  BY <1>15 DEF BackstopExit
<1>16. CASE BackstopReload
  BY <1>16 DEF BackstopReload, BeginEvaluate, FirstStep, AfterKeys
<1>17. CASE TickFires
  BY <1>17 DEF TickFires
<1>18. CASE SetFlag
  BY <1>18 DEF SetFlag
<1>19. CASE NotifyOne
  BY <1>19 DEF NotifyOne
<1>20. CASE SwapConfigMap
  BY <1>20 DEF SwapConfigMap
<1>21. CASE UNCHANGED vars
  BY <1>21 DEF vars
<1> QED
  BY <1>1, <1>2, <1>3, <1>4, <1>5, <1>6, <1>7, <1>8, <1>9, <1>10, <1>11,
     <1>12, <1>13, <1>14, <1>15, <1>16, <1>17, <1>18, <1>19, <1>20, <1>21
     DEF Next, TaskStep, Stopped

\* Each step of evaluate() collects one whole file or fails.
LEMMA EvaluationStep ==
    ASSUME ConfigInv, GenerationInv, EvaluationInv, [Next]_vars
    PROVE  EvaluationInv'
<1> USE DEF GenerationInv, EvaluationInv, RulesOf, Evaluated, evaluating,
            lifecycle
<1>1. CASE RejectArgs
  BY <1>1 DEF RejectArgs
<1>2. CASE StartAllowAll
  BY <1>2 DEF StartAllowAll
<1>3. CASE StartEvaluate
  BY <1>3, InlineConcat DEF StartEvaluate, BeginEvaluate, FirstStep, AfterKeys
<1>4. CASE StatKeys
  BY <1>4 DEF StatKeys, StatFile, EvaluateFails
<1>5. CASE ReadKeys
  BY <1>5, InlineConcat DEF ReadKeys, EvaluateFails, AfterKeys
<1>6. CASE StatPrefixes
  BY <1>6 DEF StatPrefixes, StatFile, EvaluateFails
<1>7. CASE ReadPrefixes
  BY <1>7 DEF ReadPrefixes, EvaluateFails
<1>8. CASE DecideEmpty
  BY <1>8 DEF DecideEmpty, EvaluateFails
<1>9. CASE DecideStartup
  BY <1>9 DEF DecideStartup
<1>10. CASE DecideReload
  BY <1>10 DEF DecideReload
<1>11. CASE Record
  BY <1>11 DEF Record
<1>12. CASE PollShutdown
  BY <1>12 DEF PollShutdown
<1>13. CASE Register
  BY <1>13 DEF Register
<1>14. CASE Wake
  BY <1>14 DEF Wake
<1>15. CASE BackstopExit
  BY <1>15 DEF BackstopExit
<1>16. CASE BackstopReload
  BY <1>16, InlineConcat DEF BackstopReload, BeginEvaluate, FirstStep, AfterKeys
<1>17. CASE TickFires
  BY <1>17 DEF TickFires
<1>18. CASE SetFlag
  BY <1>18 DEF SetFlag
<1>19. CASE NotifyOne
  BY <1>19 DEF NotifyOne
<1>20. CASE SwapConfigMap
  BY <1>20 DEF SwapConfigMap
<1>21. CASE UNCHANGED vars
  BY <1>21 DEF vars
<1> QED
  BY <1>1, <1>2, <1>3, <1>4, <1>5, <1>6, <1>7, <1>8, <1>9, <1>10, <1>11,
     <1>12, <1>13, <1>14, <1>15, <1>16, <1>17, <1>18, <1>19, <1>20, <1>21
     DEF Next, TaskStep, Stopped

\* The rules change only to what evaluate() collected.
LEMMA ProvenanceStep ==
    ASSUME GenerationInv, PhaseInv, EvaluationInv, RulesProvenance, [Next]_vars
    PROVE  RulesProvenance'
<1> USE DEF RulesProvenance, GenerationInv, evaluating, lifecycle, RulesOf
<1>1. CASE RejectArgs
  BY <1>1 DEF RejectArgs
<1>2. CASE StartAllowAll
  BY <1>2 DEF StartAllowAll, AllowAll
<1>3. CASE StartEvaluate
  BY <1>3 DEF StartEvaluate, BeginEvaluate, FirstStep, AfterKeys
<1>4. CASE StatKeys
  BY <1>4 DEF StatKeys, StatFile, EvaluateFails
<1>5. CASE ReadKeys
  BY <1>5 DEF ReadKeys, EvaluateFails, AfterKeys
<1>6. CASE StatPrefixes
  BY <1>6 DEF StatPrefixes, StatFile, EvaluateFails
<1>7. CASE ReadPrefixes
  BY <1>7 DEF ReadPrefixes, EvaluateFails
<1>8. CASE DecideEmpty
  BY <1>8 DEF DecideEmpty, EvaluateFails
<1>9. CASE DecideStartup
  BY <1>9 DEF DecideStartup, EvaluationInv
<1>10. CASE DecideReload
  <2>1. CASE rules = Evaluated
    BY <1>10, <2>1 DEF DecideReload
  <2>2. CASE rules # Evaluated
    <3>1. /\ rules' = Evaluated /\ UNCHANGED <<config, gen>>
          /\ inForce'[1] = keysGen /\ inForce'[2] = prefixesGen
      BY <1>10, <2>2 DEF DecideReload
    <3>2. Evaluated = RulesOf(keysGen, prefixesGen)
      BY <1>10 DEF DecideReload, EvaluationInv
    <3>3. rules' = RulesOf(inForce[1], inForce[2])'
      BY <3>1, <3>2
    <3> QED  BY <1>10, <3>1, <3>3 DEF DecideReload, EvaluationInv
  <2> QED  BY <2>1, <2>2
<1>11. CASE Record
  BY <1>11 DEF Record
<1>12. CASE PollShutdown
  BY <1>12 DEF PollShutdown
<1>13. CASE Register
  BY <1>13 DEF Register
<1>14. CASE Wake
  BY <1>14 DEF Wake
<1>15. CASE BackstopExit
  BY <1>15 DEF BackstopExit
<1>16. CASE BackstopReload
  BY <1>16 DEF BackstopReload, BeginEvaluate, FirstStep, AfterKeys
<1>17. CASE TickFires
  BY <1>17 DEF TickFires
<1>18. CASE SetFlag
  BY <1>18 DEF SetFlag
<1>19. CASE NotifyOne
  BY <1>19 DEF NotifyOne
<1>20. CASE SwapConfigMap
  <2>1. gen' = gen + 1 /\ UNCHANGED <<config, rules, inForce>>
    BY <1>20 DEF SwapConfigMap
  <2>2. RulesOf(inForce[1], inForce[2])' = RulesOf(inForce[1], inForce[2])
    BY <2>1
  <2>3. ASSUME rules.kind = "allow_list"
        PROVE  inForce[1] <= gen + 1 /\ inForce[2] <= gen + 1
    <3>1. inForce[1] <= gen /\ inForce[2] <= gen
      BY <2>3
    <3>2. gen \in Nat /\ inForce[1] \in Nat /\ inForce[2] \in Nat
      OBVIOUS
    <3> QED  BY ONLY <3>1, <3>2
  <2> HIDE DEF RulesOf
  <2> QED  BY <2>1, <2>2, <2>3
<1>21. CASE UNCHANGED vars
  BY <1>21 DEF vars
<1> QED
  BY <1>1, <1>2, <1>3, <1>4, <1>5, <1>6, <1>7, <1>8, <1>9, <1>10, <1>11,
     <1>12, <1>13, <1>14, <1>15, <1>16, <1>17, <1>18, <1>19, <1>20, <1>21
     DEF Next, TaskStep, Stopped

\* No step leaves a file-backed policy empty or allow-all.
LEMMA WidensStep ==
    ASSUME PhaseInv, NeverWidens, [Next]_vars
    PROVE  NeverWidens'
<1> USE DEF NeverWidens, PhaseInv, InTask, InEvaluate, evaluating, lifecycle
<1>1. CASE RejectArgs
  BY <1>1 DEF RejectArgs
<1>2. CASE StartAllowAll
  BY <1>2 DEF StartAllowAll
<1>3. CASE StartEvaluate
  BY <1>3 DEF StartEvaluate, BeginEvaluate, FirstStep, AfterKeys
<1>4. CASE StatKeys
  BY <1>4 DEF StatKeys, StatFile, EvaluateFails
<1>5. CASE ReadKeys
  BY <1>5 DEF ReadKeys, EvaluateFails, AfterKeys
<1>6. CASE StatPrefixes
  BY <1>6 DEF StatPrefixes, StatFile, EvaluateFails
<1>7. CASE ReadPrefixes
  BY <1>7 DEF ReadPrefixes, EvaluateFails
<1>8. CASE DecideEmpty
  BY <1>8 DEF DecideEmpty, EvaluateFails
<1>9. CASE DecideStartup
  BY <1>9 DEF DecideStartup, Evaluated, NoEntries
<1>10. CASE DecideReload
  BY <1>10 DEF DecideReload, Evaluated, NoEntries
<1>11. CASE Record
  BY <1>11 DEF Record
<1>12. CASE PollShutdown
  BY <1>12 DEF PollShutdown
<1>13. CASE Register
  BY <1>13 DEF Register
<1>14. CASE Wake
  BY <1>14 DEF Wake
<1>15. CASE BackstopExit
  BY <1>15 DEF BackstopExit
<1>16. CASE BackstopReload
  BY <1>16 DEF BackstopReload, BeginEvaluate, FirstStep, AfterKeys
<1>17. CASE TickFires
  BY <1>17 DEF TickFires
<1>18. CASE SetFlag
  BY <1>18 DEF SetFlag
<1>19. CASE NotifyOne
  BY <1>19 DEF NotifyOne
<1>20. CASE SwapConfigMap
  BY <1>20 DEF SwapConfigMap
<1>21. CASE UNCHANGED vars
  BY <1>21 DEF vars
<1> QED
  BY <1>1, <1>2, <1>3, <1>4, <1>5, <1>6, <1>7, <1>8, <1>9, <1>10, <1>11,
     <1>12, <1>13, <1>14, <1>15, <1>16, <1>17, <1>18, <1>19, <1>20, <1>21
     DEF Next, TaskStep, Stopped

\* The gauges follow the rules at the end of every cycle.
LEMMA GaugesStep ==
    ASSUME PhaseInv, GaugesMatch, [Next]_vars
    PROVE  GaugesMatch'
<1> USE DEF GaugesMatch, PhaseInv, InTask, HasFile, evaluating, lifecycle
<1>1. CASE RejectArgs
  BY <1>1 DEF RejectArgs
<1>2. CASE StartAllowAll
  BY <1>2 DEF StartAllowAll, ArgsAreValid
<1>3. CASE StartEvaluate
  BY <1>3 DEF StartEvaluate, BeginEvaluate, FirstStep, AfterKeys
<1>4. CASE StatKeys
  BY <1>4 DEF StatKeys, StatFile, EvaluateFails
<1>5. CASE ReadKeys
  BY <1>5 DEF ReadKeys, EvaluateFails, AfterKeys
<1>6. CASE StatPrefixes
  BY <1>6 DEF StatPrefixes, StatFile, EvaluateFails
<1>7. CASE ReadPrefixes
  BY <1>7 DEF ReadPrefixes, EvaluateFails
<1>8. CASE DecideEmpty
  BY <1>8 DEF DecideEmpty, EvaluateFails
<1>9. CASE DecideStartup
  BY <1>9 DEF DecideStartup
<1>10. CASE DecideReload
  BY <1>10 DEF DecideReload
<1>11. CASE Record
  BY <1>11 DEF Record
<1>12. CASE PollShutdown
  BY <1>12 DEF PollShutdown
<1>13. CASE Register
  BY <1>13 DEF Register
<1>14. CASE Wake
  BY <1>14 DEF Wake
<1>15. CASE BackstopExit
  BY <1>15 DEF BackstopExit
<1>16. CASE BackstopReload
  BY <1>16 DEF BackstopReload, BeginEvaluate, FirstStep, AfterKeys
<1>17. CASE TickFires
  BY <1>17 DEF TickFires
<1>18. CASE SetFlag
  BY <1>18 DEF SetFlag
<1>19. CASE NotifyOne
  BY <1>19 DEF NotifyOne
<1>20. CASE SwapConfigMap
  BY <1>20 DEF SwapConfigMap
<1>21. CASE UNCHANGED vars
  BY <1>21 DEF vars
<1> QED
  BY <1>1, <1>2, <1>3, <1>4, <1>5, <1>6, <1>7, <1>8, <1>9, <1>10, <1>11,
     <1>12, <1>13, <1>14, <1>15, <1>16, <1>17, <1>18, <1>19, <1>20, <1>21
     DEF Next, TaskStep, Stopped

-----------------------------------------------------------------------------
(* The theorems.                                                            *)

\* The invariant holds initially.
LEMMA InvInit == Init => Inv
BY DEF Init, Inv, ConfigInv, GenerationInv, PhaseInv, EvaluationInv, RulesProvenance,
       NeverWidens, GaugesMatch, InEvaluate, InTask, Unset

\* The invariant holds in every reachable state.
LEMMA Invariance == Spec => []Inv
<1>1. Init => Inv
  BY InvInit
<1>2. Inv /\ [Next]_vars => Inv'
  BY ConfigStep, GenerationStep, PhaseStep, EvaluationStep, ProvenanceStep,
     WidensStep, GaugesStep
     DEF Inv
<1> QED  BY <1>1, <1>2, PTL DEF Spec

\* The active allow-list is the inline entries and one whole mounted version
\* of each configured file, for any interleaving of reads and remounts.
THEOREM ProvenanceHolds == Spec => []RulesProvenance
<1>1. Inv => RulesProvenance
  BY DEF Inv
<1> QED  BY <1>1, Invariance, PTL

\* No sequence of file contents and failures widens a configured allow-list
\* to allow-all or serves an empty one.
THEOREM NeverWidensHolds == Spec => []NeverWidens
<1>1. Inv => NeverWidens
  BY DEF Inv
<1> QED  BY <1>1, Invariance, PTL

\* Between reload cycles the gauges describe the rules in force.
THEOREM GaugesMatchHolds == Spec => []GaugesMatch
<1>1. Inv => GaugesMatch
  BY DEF Inv
<1> QED  BY <1>1, Invariance, PTL

-----------------------------------------------------------------------------
(* What read_policy_file returns.  Its two loops are recursive functions;   *)
(* induction over their iterations is stated for a set of numbers, which    *)
(* the provers can instantiate.                                             *)

\* What holds at 0 and is carried from each number below n to the next holds
\* up to n.
LEMMA UpTo ==
    ASSUME NEW n \in Nat, NEW S, 0 \in S,
           \A i \in 1 .. n : i - 1 \in S => i \in S
    PROVE  \A i \in 0 .. n : i \in S
<1> DEFINE R == OpToRel(<, Nat)
           T == {i \in 0 .. n : i \notin S}
<1>1. SUFFICES ASSUME T # {} PROVE FALSE
  OBVIOUS
<1>2. T \subseteq Nat
  OBVIOUS
<1>3. IsWellFoundedOn(R, Nat)
  BY NatLessThanWellFounded
<1>4. \A k, m \in Nat : k < m => <<k, m>> \in R
  BY DEF OpToRel
<1>5. \E m \in T : \A k \in T : <<k, m>> \notin R
  <2> HIDE DEF R, T
  <2> QED  BY <1>1, <1>2, <1>3, WFMin
<1> HIDE DEF R
<1>6. PICK m \in T : \A k \in T : <<k, m>> \notin R
  BY <1>5
<1>7. m \in 0 .. n /\ m \notin S /\ m # 0
  BY <1>6
<1>8. m - 1 \in 0 .. n /\ m \in 1 .. n /\ m - 1 \in Nat /\ m \in Nat
        /\ m - 1 < m
  BY <1>7
<1>9. m - 1 \notin T
  BY <1>4, <1>6, <1>8
<1> QED  BY <1>7, <1>8, <1>9

\* f is what n iterations over D compute, the i-th one by F[i].
Run(D, n, base, F, f) ==
    /\ f \in [0 .. n -> D]
    /\ f[0] = base
    /\ \A i \in 1 .. n : f[i] = F[i][f[i - 1]]

\* A loop of n iterations over D is a function of the iteration.
LEMMA LoopExists ==
    ASSUME NEW D, NEW n \in Nat, NEW base \in D, NEW F \in [1 .. n -> [D -> D]]
    PROVE  \E f : Run(D, n, base, F, f)
<1> DEFINE S == {k \in 0 .. n : \E f : Run(D, k, base, F, f)}
<1>1. 0 \in S
  <2> DEFINE f == [i \in 0 .. 0 |-> base]
  <2>1. Run(D, 0, base, F, f)
    BY DEF Run
  <2>2. \E g : Run(D, 0, base, F, g)
    <3> HIDE DEF f
    <3> QED  BY <2>1
  <2> QED  BY <2>2
<1>2. ASSUME NEW k \in 1 .. n, k - 1 \in S PROVE k \in S
  <2>1. PICK g : Run(D, k - 1, base, F, g)
    BY <1>2
  <2>2. k \in Nat /\ k - 1 \in Nat /\ k # 0
    OBVIOUS
  <2>3. g \in [0 .. k - 1 -> D] /\ g[k - 1] \in D
    BY <2>1, <2>2 DEF Run
  <2>4. F[k] \in [D -> D]
    OBVIOUS
  <2> DEFINE f == [i \in 0 .. k |-> IF i = k THEN F[k][g[k - 1]] ELSE g[i]]
  <2>5. f \in [0 .. k -> D]
    <3>1. ASSUME NEW i \in 0 .. k PROVE f[i] \in D
      <4>1. CASE i = k
        BY <4>1, <2>3, <2>4
      <4>2. CASE i # k
        <5>1. i \in 0 .. k - 1
          BY <4>2, <2>2
        <5> QED  BY <5>1, <4>2, <2>3
      <4> QED  BY <4>1, <4>2
    <3> QED  BY <3>1
  <2>6. f[0] = base
    BY <2>1, <2>2 DEF Run
  <2>7. ASSUME NEW i \in 1 .. k PROVE f[i] = F[i][f[i - 1]]
    <3>1. i - 1 \in 0 .. k /\ i - 1 # k /\ i \in 0 .. k
      BY <2>2
    <3>2. f[i - 1] = g[i - 1]
      BY <3>1
    <3>3. CASE i = k
      <4>1. f[i] = F[k][g[k - 1]]
        BY <3>1, <3>3
      <4> HIDE DEF f
      <4> QED  BY <4>1, <3>2, <3>3
    <3>4. CASE i # k
      <4>1. i \in 1 .. k - 1
        BY <3>4, <2>2
      <4>2. f[i] = g[i]
        BY <3>1, <3>4
      <4>3. g[i] = F[i][g[i - 1]]
        BY <2>1, <4>1 DEF Run
      <4> HIDE DEF f
      <4> QED  BY <4>2, <4>3, <3>2
    <3> QED  BY <3>3, <3>4
  <2>8. Run(D, k, base, F, f)
    <3> HIDE DEF f
    <3> QED  BY <2>5, <2>6, <2>7 DEF Run
  <2>9. \E h : Run(D, k, base, F, h)
    <3> HIDE DEF f
    <3> QED  BY <2>8
  <2> QED  BY <2>9
<1>3. \A i \in 0 .. n : i \in S
  <2> HIDE DEF S
  <2> QED  BY <1>1, <1>2, UpTo
<1>4. n \in 0 .. n
  OBVIOUS
<1> QED  BY <1>3, <1>4

\* A piece is added or left out.
LEMMA EntryPushed ==
    ASSUME NEW entries \in Seq(Entry), NEW piece \in Entry \cup {Blank}
    PROVE  PushEntry(entries, piece) \in Seq(Entry)
BY DEF PushEntry

\* The inner loop adds entries.
LEMMA LinePushed ==
    ASSUME NEW entries \in Seq(Entry), NEW pieces \in Seq(Entry \cup {Blank})
    PROVE  PushLine(entries, pieces) \in Seq(Entry)
<1> DEFINE D == Seq(Entry)
           n == Len(pieces)
           Body(f) == [i \in 0 .. n |-> IF i = 0 THEN entries
                                        ELSE PushEntry(f[i - 1], pieces[i])]
           F == [i \in 1 .. n |-> [d \in D |-> PushEntry(d, pieces[i])]]
<1>1. n \in Nat /\ \A i \in 1 .. n : pieces[i] \in Entry \cup {Blank}
  OBVIOUS
<1>2. F \in [1 .. n -> [D -> D]]
  BY <1>1, EntryPushed
<1>3. \E f : f = Body(f)
  <2>0. PICK f : Run(D, n, entries, F, f)
    <3>1. n \in Nat /\ entries \in D
      BY <1>1
    <3> HIDE DEF F, D, n
    <3> QED  BY <3>1, <1>2, LoopExists
  <2>1. /\ f \in [0 .. n -> D]
        /\ f[0] = entries
        /\ \A i \in 1 .. n : f[i] = F[i][f[i - 1]]
    BY <2>0 DEF Run
  <2>2. ASSUME NEW i \in 1 .. n
        PROVE  f[i] = PushEntry(f[i - 1], pieces[i])
    <3>1. f[i - 1] \in D
      BY <1>1, <2>1
    <3> QED  BY <2>1, <3>1
  <2>3. ASSUME NEW i \in 0 .. n PROVE f[i] = Body(f)[i]
    <3>1. CASE i = 0
      BY <2>1, <3>1
    <3>2. CASE i # 0
      <4>1. i \in 1 .. n
        BY <3>2, <1>1
      <4> QED  BY <4>1, <2>2, <3>2
    <3> QED  BY <3>1, <3>2
  <2>4. f = Body(f)
    BY <2>1, <2>3
  <2> HIDE DEF Body
  <2> QED  BY <2>4
<1>4. PICK f : f = Body(f) /\ PushLine(entries, pieces) = f[n]
  BY <1>3 DEF PushLine
<1> DEFINE S == {i \in Nat : f[i] \in D}
<1>5. 0 \in S
  BY <1>1, <1>4
<1>6. ASSUME NEW i \in 1 .. n, i - 1 \in S PROVE i \in S
  <2>1. f[i] = PushEntry(f[i - 1], pieces[i])
    BY <1>1, <1>4
  <2>2. f[i - 1] \in Seq(Entry)
    BY <1>6
  <2> QED  BY <1>1, <2>1, <2>2, EntryPushed
<1>7. \A i \in 0 .. n : i \in S
  <2> HIDE DEF S, n
  <2> QED  BY <1>1, <1>5, <1>6, UpTo
<1> QED  BY <1>1, <1>4, <1>7

\* What read_policy_file returns has no blank entry.
LEMMA EntriesRead ==
    ASSUME NEW file \in File
    PROVE  Entries(file) \in Seq(Entry)
<1> DEFINE D == Seq(Entry)
           lines == file.lines
           n == Len(lines)
           Step(d, i) == IF lines[i].comment THEN d
                         ELSE PushLine(d, lines[i].pieces)
           Body(f) == [i \in 0 .. n |-> IF i = 0 THEN <<>>
                                        ELSE Step(f[i - 1], i)]
           F == [i \in 1 .. n |-> [d \in D |-> Step(d, i)]]
<1>0. lines \in Seq(Line)
  BY DEF File
<1>1. n \in Nat /\ \A i \in 1 .. n : lines[i] \in Line
  BY <1>0
<1>s. ASSUME NEW d \in D, NEW i \in 1 .. n PROVE Step(d, i) \in D
  <2>1. lines[i].pieces \in Seq(Entry \cup {Blank})
    BY <1>1 DEF Line
  <2> QED  BY <2>1, LinePushed
<1>2. F \in [1 .. n -> [D -> D]]
  <2> HIDE DEF Step, D
  <2> QED  BY <1>s
<1>3. \E f : f = Body(f)
  <2>0. PICK f : Run(D, n, <<>>, F, f)
    <3>1. n \in Nat /\ <<>> \in D
      BY <1>1
    <3> HIDE DEF F, D, n
    <3> QED  BY <3>1, <1>2, LoopExists
  <2>1. /\ f \in [0 .. n -> D]
        /\ f[0] = <<>>
        /\ \A i \in 1 .. n : f[i] = F[i][f[i - 1]]
    BY <2>0 DEF Run
  <2> HIDE DEF Step, D
  <2>2. ASSUME NEW i \in 1 .. n
        PROVE  f[i] = Step(f[i - 1], i)
    <3>1. f[i - 1] \in D
      BY <1>1, <2>1
    <3> QED  BY <2>1, <3>1
  <2>3. ASSUME NEW i \in 0 .. n PROVE f[i] = Body(f)[i]
    <3>1. CASE i = 0
      BY <2>1, <3>1
    <3>2. CASE i # 0
      <4>1. i \in 1 .. n
        BY <3>2, <1>1
      <4> QED  BY <4>1, <2>2, <3>2
    <3> QED  BY <3>1, <3>2
  <2>4. f = Body(f)
    BY <2>1, <2>3
  <2> HIDE DEF Body
  <2> QED  BY <2>4
<1>4. PICK f : f = Body(f) /\ Entries(file) = f[n]
  BY <1>3 DEF Entries
<1> HIDE DEF Step
<1> DEFINE S == {i \in Nat : f[i] \in D}
<1>5. 0 \in S
  BY <1>1, <1>4
<1>6. ASSUME NEW i \in 1 .. n, i - 1 \in S PROVE i \in S
  <2>1. f[i] = Step(f[i - 1], i)
    BY <1>1, <1>4
  <2>2. f[i - 1] \in D
    BY <1>6
  <2>3. f[i] \in D
    BY <1>s, <2>1, <2>2
  <2> QED  BY <1>1, <2>3
<1>7. \A i \in 0 .. n : i \in S
  <2>1. n \in Nat
    BY <1>1
  <2> HIDE DEF S, n
  <2> QED  BY <2>1, <1>5, <1>6, UpTo
<1>8. n \in S
  <2>1. n \in 0 .. n
    BY <1>1
  <2> HIDE DEF S, n
  <2> QED  BY <1>7, <2>1
<1> QED  BY <1>4, <1>8

\* Inline entries that passed validate_nonempty are entries.
LEMMA InlineEntries ==
    ASSUME ConfigInv, InlineIsValid
    PROVE  /\ config.allowed_keys \in Seq(Entry)
           /\ config.allowed_key_prefixes \in Seq(Entry)
<1>1. ASSUME NEW s \in Seq(Entry \cup {Blank}), Blank \notin ToSet(s)
      PROVE  s \in Seq(Entry)
  <2>1. \A i \in 1 .. Len(s) : s[i] \in Entry
    BY <1>1 DEF ToSet
  <2> QED  BY <2>1
<1>2. /\ config.allowed_keys \in Seq(Entry \cup {Blank})
      /\ config.allowed_key_prefixes \in Seq(Entry \cup {Blank})
  BY ConfigsAssumption DEF ConfigInv, Config
<1> QED  BY <1>1, <1>2 DEF InlineIsValid

\* Past from_args the inline entries are valid.
InlineInv == pc \notin {"from_args", "failed"} => InlineIsValid

\* The gauges are numbers.
LEMMA CountsAreNumbers ==
    ASSUME NEW r \in AllowList \cup {AllowAll}
    PROVE  Counts(r) \in Nat \X Nat
BY DEF Counts, AllowList, AllowAll

\* A step of the task keeps the types.
LEMMA TypeStep ==
    ASSUME Inv, InlineInv, TypeOK, [Next]_vars
    PROVE  InlineInv' /\ TypeOK'
<1> USE DEF InlineInv, InlineIsValid, TypeOK, Gen, evaluating, lifecycle
<1>0. /\ ConfigInv
      /\ config.keys_file \in BOOLEAN /\ config.key_prefixes_file \in BOOLEAN
  BY DEF Inv, Config
<1>1. CASE RejectArgs
  BY <1>1 DEF RejectArgs
<1>2. CASE StartAllowAll
  BY <1>2 DEF StartAllowAll, ArgsAreValid
<1>3. CASE StartEvaluate \/ BackstopReload
  <2>1. InlineIsValid
    BY <1>3 DEF StartEvaluate, BackstopReload, ArgsAreValid
  <2>2. keys' \in Seq(Entry) /\ prefixes' \in Seq(Entry)
    BY <1>0, <1>3, <2>1, InlineEntries
       DEF StartEvaluate, BackstopReload, BeginEvaluate
  <2> QED  BY <1>3, <2>1, <2>2 DEF StartEvaluate, BackstopReload,
                                   BeginEvaluate, FirstStep, AfterKeys
<1>4. CASE StatKeys
  BY <1>4 DEF StatKeys, StatFile, EvaluateFails
<1>5. CASE ReadKeys
  <2>0. Generations[gen] \in [keys : File, key_prefixes : File]
    BY GenerationsAssumption
  <2>1. Generations[gen].keys \in File
    BY <2>0
  <2>2. Entries(Generations[gen].keys) \in Seq(Entry)
    BY <2>1, EntriesRead
  <2>3. keys' \in Seq(Entry)
    <3>1. keys \o Entries(Generations[gen].keys) \in Seq(Entry)
      BY <2>2, ConcatProperties
    <3>2. keys' \in {keys, keys \o Entries(Generations[gen].keys)}
      BY <1>5 DEF ReadKeys, EvaluateFails
    <3> QED  BY <3>1, <3>2
  <2> QED  BY <1>5, <2>3 DEF ReadKeys, EvaluateFails, AfterKeys
<1>6. CASE StatPrefixes
  BY <1>6 DEF StatPrefixes, StatFile, EvaluateFails
<1>7. CASE ReadPrefixes
  <2>0. Generations[gen] \in [keys : File, key_prefixes : File]
    BY GenerationsAssumption
  <2>1. Generations[gen].key_prefixes \in File
    BY <2>0
  <2>2. Entries(Generations[gen].key_prefixes) \in Seq(Entry)
    BY <2>1, EntriesRead
  <2>3. prefixes' \in Seq(Entry)
    <3>1. prefixes \o Entries(Generations[gen].key_prefixes) \in Seq(Entry)
      BY <2>2, ConcatProperties
    <3>2. prefixes' \in {prefixes, prefixes \o Entries(Generations[gen].key_prefixes)}
      BY <1>7 DEF ReadPrefixes, EvaluateFails
    <3> QED  BY <3>1, <3>2
  <2> QED  BY <1>7, <2>3 DEF ReadPrefixes, EvaluateFails
<1>8. CASE DecideEmpty
  BY <1>8 DEF DecideEmpty, EvaluateFails
<1>9. CASE DecideStartup \/ DecideReload
  <2>1. Evaluated \in AllowList
    BY DEF Evaluated, AllowList
  <2>2. Counts(Evaluated) \in Nat \X Nat
    BY <2>1, CountsAreNumbers
  <2>3. rules' \in AllowList \cup {AllowAll, Unset} /\ gauges' \in Nat \X Nat
    BY <1>9, <2>1, <2>2 DEF DecideStartup, DecideReload
  <2>4. inForce' \in Gen \X Gen
    BY <1>9 DEF DecideStartup, DecideReload
  <2>5. CASE DecideStartup
    BY <2>3, <2>4, <2>5 DEF DecideStartup
  <2>6. CASE DecideReload
    BY <2>3, <2>4, <2>6 DEF DecideReload
  <2> QED  BY <1>9, <2>5, <2>6
<1>10. CASE Record
  <2>1. rules \in AllowList \cup {AllowAll}
    BY <1>10 DEF Record, Inv, PhaseInv, InTask, Unset
  <2>2. gauges' \in Nat \X Nat
    BY <1>10, <2>1, CountsAreNumbers DEF Record
  <2> QED  BY <1>10, <2>2 DEF Record
<1>11. CASE PollShutdown \/ Register \/ Wake \/ BackstopExit \/ TickFires
  BY <1>11 DEF PollShutdown, Register, Wake, BackstopExit, TickFires
<1>12. CASE SetFlag \/ NotifyOne
  BY <1>12 DEF SetFlag, NotifyOne
<1>13. CASE SwapConfigMap
  <2>1. gen' \in 1 .. Len(Generations)
    BY <1>13, GenerationsAssumption DEF SwapConfigMap
  <2> QED  BY <1>13, <2>1 DEF SwapConfigMap
<1>14. CASE UNCHANGED vars
  BY <1>14 DEF vars
<1> QED
  BY <1>1, <1>2, <1>3, <1>4, <1>5, <1>6, <1>7, <1>8, <1>9, <1>10, <1>11,
     <1>12, <1>13, <1>14 DEF Next, TaskStep, Stopped

\* For every policy file, configuration and sequence of generations, no blank
\* entry becomes a rule, by whatever way it got into a list or a file.
THEOREM TypeCorrect == Spec => []TypeOK
<1>0. 1 \in Gen
  BY GenerationsAssumption DEF Gen
<1>1. Init => InlineInv /\ TypeOK
  <2> SUFFICES ASSUME Init PROVE InlineInv /\ TypeOK
    OBVIOUS
  <2>1. config \in Config
    BY ConfigsAssumption DEF Init
  <2>2. gauges \in Nat \X Nat /\ inForce \in Gen \X Gen
    BY <1>0 DEF Init
  <2>3. keys \in Seq(Entry) /\ prefixes \in Seq(Entry)
    BY DEF Init
  <2> QED  BY <1>0, <2>1, <2>2, <2>3 DEF Init, InlineInv, TypeOK
<1>2. Inv /\ InlineInv /\ TypeOK /\ [Next]_vars => InlineInv' /\ TypeOK'
  BY TypeStep
<1> QED  BY <1>1, <1>2, Invariance, PTL DEF Spec
=============================================================================
