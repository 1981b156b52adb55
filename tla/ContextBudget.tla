--------------------------- MODULE ContextBudget ---------------------------
(***************************************************************************)
(* compact_context: how a model context is brought under its character      *)
(* budget without losing an observation.  A context is its sizes:           *)
(*   frame      everything but the results and the retrieved documents,     *)
(*              after the descriptions are clipped,                         *)
(*   clipped    what clipping them takes away,                              *)
(*   retrieved  the retrieved incidents and runbooks, sampled,              *)
(*   results    the result of each observation.                             *)
(***************************************************************************)
EXTENDS Integers, FiniteSets

CONSTANTS
  ContextChars,   \* agent_context_chars
  Slack,          \* 32
  MinShare,       \* 100
  MaxWeight,      \* 1800
  Reserve,        \* 128 per observation, before the retrieved documents go
  Hole,           \* "{}", which stands for a result while the frame is measured
  Shortest        \* an abbreviated result that is as short as they come

ASSUME BudgetAssumption ==
  /\ {ContextChars, Slack, MinShare, MaxWeight, Reserve, Hole, Shortest} \subseteq Nat
  /\ Shortest <= MinShare /\ 0 < MinShare /\ MinShare <= MaxWeight

\* The sum of the sizes: how many characters there are.
Total(sizes) == Cardinality(UNION {{o} \X (1..sizes[o]) : o \in DOMAIN sizes})

Filled(frame, sizes) == frame + Total(sizes) - Hole * Cardinality(DOMAIN sizes)

Weight(size) ==
  IF size < MinShare THEN MinShare ELSE IF size > MaxWeight THEN MaxWeight ELSE size

WeightedShares(results, available) ==
  LET weights == [o \in DOMAIN results |-> Weight(results[o])] IN
  [o \in DOMAIN results |->
     LET share == (available * weights[o]) \div Total(weights)
     IN IF share < MinShare THEN MinShare ELSE share]

EqualShares(results, available) ==
  [o \in DOMAIN results |-> available \div Cardinality(DOMAIN results)]

\* compact_result: a result that fits is kept, another is sampled or summarised
\* into anything that fits; of those, the extremes.  The summary of last resort
\* fits every share of plain text.
CompactResult(size, share) == IF size <= share THEN {size} ELSE {Shortest, share}

\* The sizes of the context after one pass over the observations.
Pass(frame, results, shares) ==
  {Filled(frame, sizes) :
     sizes \in {f \in [DOMAIN results -> UNION {CompactResult(results[o], shares[o]) :
                                                  o \in DOMAIN results}] :
                  \A o \in DOMAIN results : f[o] \in CompactResult(results[o], shares[o])}}

Prompt(state, size) == [state |-> state, size |-> size]

\* Mutant of Passes: no second pass.
WeightedPass(frame, results, available) ==
  Pass(frame, results, WeightedShares(results, available))

Passes(frame, results, available) ==
  LET first == Pass(frame, results, WeightedShares(results, available))
      fits  == {size \in first : size <= ContextChars}
  IN fits \cup (IF first = fits THEN {}
                ELSE Pass(frame, results, EqualShares(results, available)))

\* What compact_context may answer; "overrun" is its last exception.
CompactContext(context) ==
  LET n     == Cardinality(DOMAIN context.results)
      whole == Filled(context.frame + context.clipped + context.retrieved, context.results)
      frame == context.frame +
                 (IF context.frame + context.retrieved > ContextChars - Reserve * n
                  THEN 0 ELSE context.retrieved)
      available == ContextChars - frame - Slack
  IN CASE whole <= ContextChars -> {Prompt("whole", whole)}
       [] whole > ContextChars /\ available < MinShare * n -> {Prompt("refused", 0)}
       [] OTHER ->
            {Prompt(IF size <= ContextChars THEN "compacted" ELSE "overrun", size) :
               size \in Passes(frame, context.results, available)}
=============================================================================
