------------------------------ MODULE Requests ------------------------------
(***************************************************************************)
(* What the HTTP application makes of a request body: the sampling         *)
(* parameters, the prompt or the chat messages, Mistral's template, and    *)
(* the status of the answer when one of them raises.  A field of a body is *)
(* the class of its value; a rendered prompt is a sequence of parts.       *)
(***************************************************************************)
EXTENDS Integers, Sequences, FiniteSets, SequencesExt

CONSTANTS
  Roles, Contents,  \* what a message of a body may say
  MaxMessages       \* bound on the messages of a chat

ASSUME RequestsAssumption == MaxMessages \in Nat

VARIABLES
  field,     \* the fields of the body but the messages
  messages,  \* the messages of a chat, each a role and a content
  answer     \* "none", 200 where the request is handed on, 400 or 500

requestVars == <<field, messages, answer>>

ValidRoles == {"system", "user", "assistant", "tool"}

\* What is raised, in the order the code would meet it.
FirstRaised(results) ==
  LET raised == {k \in DOMAIN results : results[k] # "ok"}
  IN IF raised = {} THEN "ok" ELSE results[Min(raised)]

Check(holds) == IF holds THEN "ok" ELSE "ValidationError"

\* SamplingParams.from_dict() and __post_init__(): null is the default, but for
\* `stop`, where it is no stop; tuple() of a number raises TypeError.
Sampling(f) ==
  FirstRaised(<<IF f.stop = "number" THEN "TypeError" ELSE "ok",
                Check(f.max_tokens \in {"absent", "null", "1", "32768"}),
                Check(f.top_p \in {"absent", "null", "1.0", "0.5"}),
                Check(f.n \in {"absent", "null", "1", "2"}),
                Check(f.stop \in {"absent", "null", "text", "8 texts"}),
                Check(f.n # "2")>>)

\* The prompt of a completion: a string, or a list of one.
Prompt(f) == Check(f.prompt \in {"text", "[text]", "empty"})

\* GenerationRequest.__post_init__(); a rendered chat is never empty.
NonEmpty(f) == Check(f.prompt # "empty")

Message(m) == Check(m.role \in ValidRoles /\ m.content \in {"text", "absent"})

Turns(ms) == {i \in DOMAIN ms : ms[i].role # "system"}

\* The message is the n-th turn.
TurnOf(ms, i) == Cardinality({j \in Turns(ms) : j <= i})

Alternates(ms) ==
  \A i \in Turns(ms) : ms[i].role = IF TurnOf(ms, i) % 2 = 1 THEN "user" ELSE "assistant"

\* Mutant: the last message may be the assistant's.
TemplateOpen(ms) ==
  IF Turns(ms) # {} /\ Alternates(ms) THEN "ok" ELSE "TemplateError"

\* render_mistral_prompt(): the messages it refuses.
Template(ms) ==
  IF Turns(ms) # {} /\ Alternates(ms) /\ ms[Max(Turns(ms))].role = "user"
  THEN "ok" ELSE "TemplateError"

BOS == 0
InstOpen == -1
InstClose == -2
EOS == -3

\* The text of a message, as its number.
Said(ms, i) == IF ms[i].content = "text" THEN <<i>> ELSE <<>>

SystemParts(ms) ==
  FlattenSeq([i \in DOMAIN ms |-> IF i \in Turns(ms) THEN <<>> ELSE Said(ms, i)])

\* The rendered prompt; the system's parts are folded into the first turn.
Render(ms) ==
  <<BOS>> \o FlattenSeq([i \in DOMAIN ms |->
    IF i \notin Turns(ms) THEN <<>>
    ELSE IF TurnOf(ms, i) % 2 = 0 THEN Said(ms, i) \o <<EOS>>
    ELSE <<InstOpen>> \o (IF TurnOf(ms, i) = 1 THEN SystemParts(ms) ELSE <<>>)
           \o Said(ms, i) \o <<InstClose>>])

\* parse_completion_request() and parse_chat_request().
Raised(f, ms) ==
  IF f.endpoint = "completions" THEN FirstRaised(<<Prompt(f), Sampling(f), NonEmpty(f)>>)
  ELSE FirstRaised(<<Check(ms # <<>>)>> \o [i \in DOMAIN ms |-> Message(ms[i])]
                   \o <<IF ms = <<>> THEN "ok" ELSE Template(ms), Sampling(f)>>)

\* _handle() answers a ValidationError; anything else is the framework's 500.
Status(raised) ==
  CASE raised = "ok" -> 200 [] raised = "ValidationError" -> 400 [] OTHER -> 500

RequestInit == messages = <<>> /\ answer = 0

Say(role, content) ==
  /\ field.endpoint = "chat" /\ answer = 0 /\ Len(messages) < MaxMessages
  /\ messages' = Append(messages, [role |-> role, content |-> content])
  /\ UNCHANGED <<field, answer>>

Post ==
  /\ answer = 0
  /\ answer' = Status(Raised(field, messages))
  /\ UNCHANGED <<field, messages>>

RequestNext == (\E role \in Roles, content \in Contents : Say(role, content)) \/ Post

-----------------------------------------------------------------------------
(* Properties *)

\* The prompt of an accepted chat has every text of the conversation once: the
\* system's first, inside the first user turn, then the others in their order.  The
\* text of the n-th user turn is inside the n-th [INST] pair, the reply to it behind
\* that pair and before its EOS, and an open turn is at the end for the model.
PromptKeepsConversation ==
  answer = 200 /\ field.endpoint = "chat" =>
    LET prompt == Render(messages)
        texts  == {k \in DOMAIN prompt : prompt[k] > 0}
        is(i, role)  == messages[i].role = role
        users(i)     == Cardinality({j \in 1..i : is(j, "user")})
        before(k, x) == Cardinality({j \in 1..(k - 1) : prompt[j] = x})
        end    == Len(prompt) + 1
    IN /\ {prompt[k] : k \in texts} = {i \in DOMAIN messages : messages[i].content = "text"}
       /\ \A j, k \in texts : j < k =>
            \/ is(prompt[j], "system") /\ ~is(prompt[k], "system")
            \/ (is(prompt[j], "system") <=> is(prompt[k], "system")) /\ prompt[j] < prompt[k]
       /\ \A k \in texts :
            LET turn == IF is(prompt[k], "system") THEN 1 ELSE users(prompt[k])
            IN /\ before(k, InstOpen) = turn /\ before(k, EOS) = turn - 1
               /\ before(k, InstClose) = IF is(prompt[k], "assistant") THEN turn ELSE turn - 1
       /\ before(end, InstOpen) = users(Len(messages))
       /\ before(end, InstClose) = users(Len(messages)) /\ before(end, EOS) = users(Len(messages)) - 1
       /\ prompt[2] = InstOpen /\ Last(prompt) = InstClose

=============================================================================
