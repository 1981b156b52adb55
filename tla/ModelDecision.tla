--------------------------- MODULE ModelDecision ---------------------------
(***************************************************************************)
(* The calls that concurrent incidents make of the one language model       *)
(* provider: the budgets of a prompt, two attempts at most, what a reply    *)
(* is read as, and the counters of the provider, which all incidents share. *)
(***************************************************************************)
EXTENDS MonotonicClock, ContextBudget

CONSTANTS
  Callers,         \* calls of the provider, each made once
  Contexts,        \* sizes of agent.context before it is compacted
  SystemChars,     \* SYSTEM_PROMPT
  SchemaChars,     \* sizes of the response schema
  ContextTokens,   \* OLLAMA_NUM_CTX
  OutputTokens,    \* OLLAMA_NUM_PREDICT
  RepairChars,     \* most that the repair request adds
  ModelTimeout     \* agent_llm_timeout_seconds, of the call and both attempts

ASSUME DecisionAssumption ==
  /\ IsFiniteSet(Callers) /\ SchemaChars \subseteq Nat
  /\ {SystemChars, ContextTokens, OutputTokens, RepairChars} \subseteq Nat
  /\ ModelTimeout \in Nat \ {0}

\* The results are as many as the frame has holes for.
ASSUME ContextAssumption ==
  \A context \in Contexts :
    /\ {context.frame, context.clipped, context.retrieved} \subseteq Nat
    /\ context.results \in [DOMAIN context.results -> Nat]
    /\ IsFiniteSet(DOMAIN context.results)
    /\ Hole * Cardinality(DOMAIN context.results) <= context.frame

VARIABLES
  provider,   \* LLM_PROVIDER
  metrics,    \* provider.metrics
  calls       \* the calls

decisionVars == <<provider, metrics, calls>>

Kinds == {"classify", "decide"}
Replies == {"object", "fenced", "surrounded", "several", "objects", "words", "scalar", "cut"}
Counters == {"requests", "timings", "usages", "invalid_json", "retries", "failed_decisions"}
Ends == {"answered", "refused", "failed", "exhausted", "escaped", "timedout"}
NoCall == [pc |-> "idle", kind |-> "decide", attempt |-> 0, until |-> 0,
           prompt |-> Prompt("whole", 0), chars |-> 0]

DecisionTypeOK ==
  /\ provider \in {"ollama", "gemini"}
  /\ metrics \in [Counters -> Nat]
  /\ calls \in [Callers ->
       [pc : {"idle", "streaming"} \cup Ends, kind : Kinds, attempt : 0..2, until : Nat,
        prompt : [state : {"whole", "compacted", "refused", "overrun"}, size : Nat],
        chars : Nat]]

DecisionInit ==
  /\ provider \in {"ollama", "gemini"}
  /\ metrics = [m \in Counters |-> 0]
  /\ calls = [c \in Callers |-> NoCall]

-----------------------------------------------------------------------------
Counted(ms) == [m \in Counters |-> IF m \in ms THEN metrics[m] + 1 ELSE metrics[m]]

Tokens(chars) == (chars + 3) \div 4

\* validate_ollama_prompt_budget, which the other provider does not have.
WithinWindow(chars) ==
  provider = "ollama" => Tokens(chars) + OutputTokens <= ContextTokens

\* agent.context and decide_next_action, or classify_incident, up to the await
\* of the first reply.  The model's bound on time leaves it the time it may need.
Decide(c, kind, prompt, schema) ==
  /\ calls[c].pc = "idle" /\ now + ModelTimeout <= MaxNow
  /\ LET chars == SystemChars + prompt.size + schema
         sent  == prompt.state \in {"whole", "compacted"} /\ WithinWindow(chars)
         call  == [NoCall EXCEPT !.kind = kind, !.prompt = prompt]
     IN IF sent
        THEN /\ calls' = [calls EXCEPT ![c] =
                  [call EXCEPT !.pc = "streaming", !.attempt = 1, !.chars = chars,
                               !.until = now + ModelTimeout]]
             /\ metrics' = Counted({"requests"})
        ELSE /\ calls' = [calls EXCEPT ![c] = [call EXCEPT !.pc = "refused"]]
             /\ UNCHANGED metrics
  /\ UNCHANGED provider

\* Gemini has no classifier: the category is unknown, without a request.
Unclassified(c) ==
  /\ calls[c].pc = "idle" /\ provider = "gemini"
  /\ calls' = [calls EXCEPT ![c] = [NoCall EXCEPT !.kind = "classify", !.pc = "answered"]]
  /\ UNCHANGED <<provider, metrics>>

\* The parsers.  set(parsed) of a number, a Boolean, null or an array of objects
\* is a TypeError, which parse_ollama_action's caller does not catch; of a string
\* or an array of strings it is a set of other words, hence a ValueError.
Parsed(kind, reply) ==
  CASE reply \in {"object", "fenced"} -> "valid"
    [] reply = "surrounded" -> IF provider = "gemini" THEN "valid" ELSE "invalid"
    [] reply \in {"objects", "scalar"} ->
         IF provider = "ollama" /\ kind = "decide" THEN "escapes" ELSE "invalid"
    [] OTHER -> "invalid"

Ended(c, end) ==
  [calls EXCEPT ![c] = [NoCall EXCEPT !.pc = end, !.kind = calls[c].kind, !.attempt = calls[c].attempt]]

\* What each ended stream adds: the finally of the attempt, then its outcome.
Timed == IF provider = "gemini" THEN {"timings", "usages"} ELSE {"timings"}

\* Mutant of Repair: the attempts are not counted.
RepairForever(c) ==
  /\ metrics' = Counted(Timed \cup {"invalid_json", "retries", "requests"})
  /\ calls' = [calls EXCEPT ![c].attempt = @ + 1, ![c].chars = @ + RepairChars]

\* Mutant of Repair: the request that repeats the first is not counted.
RepairUncounted(c) ==
  /\ calls[c].attempt = 1
  /\ metrics' = Counted(Timed \cup {"invalid_json", "retries"})
  /\ calls' = [calls EXCEPT ![c].attempt = 2, ![c].chars = @ + RepairChars]

\* The reply is quoted in a second request, whose size nothing checks.
Repair(c) ==
  /\ calls[c].attempt = 1
  /\ metrics' = Counted(Timed \cup {"invalid_json", "retries", "requests"})
  /\ calls' = [calls EXCEPT ![c].attempt = 2, ![c].chars = @ + RepairChars]

Exhaust(c) ==
  /\ calls[c].attempt = 2
  /\ metrics' = Counted(Timed \cup {"invalid_json", "failed_decisions"})
  /\ calls' = Ended(c, "exhausted")

\* A whole reply, of which the valid names an action that is allowed, or not.
ReplyEnds(c, reply) ==
  /\ calls[c].pc = "streaming" /\ now <= calls[c].until
  /\ LET parsed == Parsed(calls[c].kind, reply) IN
     \/ parsed = "valid" /\ calls' = Ended(c, "answered") /\ metrics' = Counted(Timed)
     \/ parsed = "escapes" /\ calls' = Ended(c, "escaped") /\ metrics' = Counted(Timed)
     \/ parsed # "escapes" /\ (Repair(c) \/ Exhaust(c))
  /\ UNCHANGED provider

\* An HTTP error, an error chunk, a stream without its end: never repeated.
StreamFails(c) ==
  /\ calls[c].pc = "streaming" /\ now <= calls[c].until
  /\ metrics' = Counted({"timings", "failed_decisions"})
  /\ calls' = Ended(c, "failed")
  /\ UNCHANGED provider

\* The agent's wait_for: a CancelledError is no Exception, its finally runs.
Cancel(c) ==
  /\ calls[c].pc = "streaming" /\ now >= calls[c].until
  /\ metrics' = Counted({"timings"})
  /\ calls' = Ended(c, "timedout")
  /\ UNCHANGED provider

Prompts == UNION {CompactContext(context) : context \in Contexts}

DecisionNext ==
  \E c \in Callers :
    \/ \E prompt \in Prompts, schema \in SchemaChars : Decide(c, "decide", prompt, schema)
    \/ provider = "ollama" /\ Decide(c, "classify", Prompt("whole", 0), 0)
    \/ Unclassified(c) \/ StreamFails(c) \/ Cancel(c)
    \/ \E reply \in Replies : ReplyEnds(c, reply)

DecisionTimeout == \E c \in Callers : Cancel(c)

DecisionBlocks ==
  LET streaming == {c \in Callers : calls[c].pc = "streaming"} IN
  streaming # {} /\ \A c \in streaming : now < calls[c].until

-----------------------------------------------------------------------------
(* Properties. *)

In(pcs) == Cardinality({c \in Callers : calls[c].pc \in pcs})
Sent == Cardinality({c \in Callers : calls[c].attempt > 0})

\* The counters that evaluations and reports read add up at every instant,
\* whoever else is calling and however the calls end: a request is timed unless
\* it is in flight, only a repeated request is a retry, an invalid reply is
\* repeated or ends its call, and a call that the deadline cut or a TypeError
\* left is not among the failed ones.
MetricsAgree ==
  /\ metrics["requests"] = metrics["timings"] + In({"streaming"})
  /\ metrics["requests"] = Sent + metrics["retries"]
  /\ metrics["invalid_json"] = metrics["retries"] + In({"exhausted"})
  /\ metrics["failed_decisions"] = In({"failed", "exhausted"})
  /\ provider = "gemini" =>
       metrics["usages"] = metrics["timings"] - In({"failed", "timedout"})

\* Once every observation is allotted its least share, a context is compacted
\* under its budget and never lost to the last exception; the local model is
\* never sent a first request beyond its window, nor a second one beyond what
\* quoting the reply adds.
PromptWithinBudget ==
  \A c \in Callers :
    /\ calls[c].prompt.state # "overrun" /\ calls[c].prompt.size <= ContextChars
    /\ provider = "ollama" /\ calls[c].attempt > 0 =>
         4 * (ContextTokens - OutputTokens) + (IF calls[c].attempt = 2 THEN RepairChars ELSE 0)
           >= calls[c].chars
=============================================================================
