---------------------------- MODULE ProviderRequest ----------------------------
(***************************************************************************)
(* A conversation through a model provider's adapter and a message store:  *)
(* the fragments of an answer are put together, the answer is written as   *)
(* parts and read back, tool results join it early, late, twice or never,  *)
(* and the next request is made from the whole.                            *)
(* (actant/llm/providers/_shared.py, anthropic.py, gemini.py, qwen.py, the *)
(* conversions of openai.py, runtime/session.py and                        *)
(* stores/postgres/conversion.py; ModelCall has OpenAI's attempts.)        *)
(*                                                                         *)
(* Text and images are there or not; a thought and reasoning items are 0   *)
(* for none, or the number of the answer they belong to; a signature is 0  *)
(* for none, or the thinking block of the answer that it was made for.     *)
(* What the model answers, and the order its stream tells it in, are       *)
(* external; a redacted thinking block, which the adapter drops, is left   *)
(* out.  Every call has an id and a name: ids missing from a transcript    *)
(* given by hand are left out.                                             *)
(***************************************************************************)
EXTENDS Integers, Sequences, SequencesExt, FiniteSets

CONSTANTS
    Adapters,       \* a subset of {"openai", "anthropic", "gemini", "qwen"}
    Stores,         \* a subset of {"memory", "postgres"}
    Thinkings,      \* what Anthropic's model may think in an answer: sequences of blocks
    MaxAnswers,     \* answers of the model, a bound
    MaxCalls,       \* tool calls of the conversation, a bound
    MaxUser         \* messages of the user, a bound

ASSUME ProviderAssumption ==
    /\ Adapters \subseteq {"openai", "anthropic", "gemini", "qwen"}
    /\ Stores \subseteq {"memory", "postgres"}
    /\ Thinkings \subseteq Seq([told : BOOLEAN, signed : BOOLEAN])
    /\ MaxAnswers \in Nat /\ MaxCalls \in Nat /\ MaxUser \in Nat

VARIABLES
    adapter, store, \* of this conversation
    rows,           \* the transcript, as the store gives it back
    request,        \* the last request's messages, as the provider takes them
    asked,          \* the rows it was made of
    answer,         \* the answer under way, as the model makes it, but for
    thinking,       \* its thinking blocks: whether each has text, and a signature
    heard,          \* its fragments that came, in order
    shown,          \* what Anthropic's listener was shown of it
    streaming,      \* whether an answer is under way
    made            \* the answers the model made, in order, and the row of each (history)

streamVars == <<answer, thinking, heard, shown, streaming>>
vars == <<adapter, store, rows, request, asked, streamVars, made>>

NoId  == <<0, 0>>
Plain == [role |-> "user", text |-> FALSE, image |-> FALSE, thought |-> 0, signed |-> 0,
          reasoning |-> 0, calls |-> <<>>, of |-> NoId, result |-> "none"]

\* Which calls the listener was shown begun, with arguments, and complete; the open ones
\* are those whose index still names them.
NothingShown == [begun |-> <<>>, open |-> {}, told |-> {}, done |-> {}]

At(role, ms) == {i \in DOMAIN ms : ms[i].role = role}

Init ==
    /\ adapter \in Adapters /\ store \in Stores
    /\ rows = <<>> /\ request = <<>> /\ asked = <<>> /\ made = <<>>
    /\ answer = Plain /\ thinking = <<>> /\ streaming = FALSE
    /\ heard = <<>> /\ shown = NothingShown

-----------------------------------------------------------------------------
(* A row: the message's parts, and the message they give back.             *)

\* Mutant: a thinking part keeps its text only.
ThinkingText(m) ==
    [kind |-> "thinking", thought |-> m.thought, signed |-> 0, reasoning |-> 0]

Thinking(m) ==
    [kind |-> "thinking", thought |-> m.thought, signed |-> m.signed, reasoning |-> m.reasoning]

\* message_to_parts of an assistant message: its signature and its reasoning items
\* go with the thought, and so nowhere without one.
Parts(m) ==
    (IF m.thought # 0 THEN <<Thinking(m)>> ELSE <<>>)
    \o (IF m.text THEN <<[kind |-> "text"]>> ELSE <<>>)
    \o [i \in DOMAIN m.calls |-> [kind |-> "tool_call", call |-> m.calls[i]]]

\* parts_to_messages of the parts of one assistant row: the last thinking part counts;
\* of no parts, an empty message.
Together(parts) ==
    LET of(kind) == {i \in DOMAIN parts : parts[i].kind = kind}
        message  == [Plain EXCEPT !.role = "assistant", !.text = of("text") # {},
                         !.calls = FlattenSeq([i \in DOMAIN parts |->
                             IF i \in of("tool_call") THEN <<parts[i].call>> ELSE <<>>])]
        last     == parts[Max(of("thinking"))]
    IN  IF of("thinking") = {} THEN message
        ELSE [message EXCEPT !.thought = last.thought, !.signed = last.signed,
                             !.reasoning = last.reasoning]

\* What a store gives back of an answer: the memory store the message itself.
Kept(m) == IF store = "postgres" THEN Together(Parts(m)) ELSE m

-----------------------------------------------------------------------------
(* sanitize_tool_messages.                                                 *)

Answered(ms) == {ms[i].of : i \in At("tool", ms)}

\* A result of a call that has an earlier one.
SentBefore(ms, i) ==
    ms[i].role = "tool" /\ \E j \in 1 .. i - 1 : ms[j].role = "tool" /\ ms[j].of = ms[i].of

\* Mutant: a call counts as answered by what came before it.
AnsweredSoFar(ms, i) == {ms[j].of : j \in At("tool", ms) \cap (1 .. i)}

AnsweredAnywhere(ms, i) == Answered(ms)

Interrupted(call) == [Plain EXCEPT !.role = "tool", !.of = call.id, !.result = "interrupted"]

Unanswered(ms, i) ==
    FlattenSeq([k \in DOMAIN ms[i].calls |->
        IF ms[i].calls[k].id \in AnsweredAnywhere(ms, i) THEN <<>>
        ELSE <<Interrupted(ms[i].calls[k])>>])

\* Each result once; a call that has none is followed by an interrupted output.
Sanitize(ms) ==
    FlattenSeq([i \in DOMAIN ms |->
        IF SentBefore(ms, i) THEN <<>> ELSE <<ms[i]>> \o Unanswered(ms, i)])

-----------------------------------------------------------------------------
(* convert_messages: a request is a sequence of turns of parts.            *)

Part(is)     == [is |-> is, id |-> NoId, signed |-> FALSE, result |-> "none"]
Texts(m)     == IF m.text THEN <<Part("text")>> ELSE <<>>
Images(m)    == IF m.image THEN <<Part("image")>> ELSE <<>>
Thought(is, n, b) == [Part(is) EXCEPT !.id = <<n, b>>]
CallPart(c)  == [Part("call") EXCEPT !.id = c.id, !.signed = c.signed]
OutPart(m)   == [Part("output") EXCEPT !.id = m.of, !.result = m.result]
CallParts(m) == [i \in DOMAIN m.calls |-> CallPart(m.calls[i])]
Turn(role, parts) == [role |-> role, parts |-> parts]

\* OpenAI: an item each, the reasoning items first, then the calls, then the text;
\* a result's images are inside its output.
OpenAITurns(m) ==
    CASE m.role = "user" -> <<Turn("user", Texts(m) \o Images(m))>>
      [] m.role = "tool" -> <<Turn("tool", <<OutPart(m)>>)>>
      [] OTHER -> LET items == (IF m.reasoning # 0 THEN <<Thought("reasoning", m.reasoning, 0)>> ELSE <<>>)
                               \o CallParts(m) \o Texts(m)
                  IN  [i \in DOMAIN items |-> Turn("assistant", <<items[i]>>)]

\* Mutant: a user's turn takes the results before it with it.
JoinsBack(wire) == FALSE

\* The results of one answer make one turn: a result joins the turn before it when
\* that is a list of the user's (a list it is, unless it is bare text).
Joins(wire) == wire # <<>> /\ Last(wire).role = "user" /\ Last(wire).parts # <<Part("text")>>

\* Anthropic: thinking goes back only with its signature; an empty answer is left out.
AnthropicAdds(wire, m) ==
    CASE m.role = "user" -> Append(wire, Turn("user", Texts(m) \o Images(m)))
      [] m.role = "tool" ->
            IF Joins(wire)
            THEN Front(wire) \o <<Turn("user", Last(wire).parts \o <<OutPart(m)>>)>>
            ELSE Append(wire, Turn("user", <<OutPart(m)>>))
      [] OTHER -> LET blocks == (IF m.thought # 0 /\ m.signed # 0
                                 THEN <<Thought("thinking", m.thought, m.signed)>> ELSE <<>>)
                                \o Texts(m) \o CallParts(m)
                  IN  IF blocks = <<>> THEN wire ELSE Append(wire, Turn("assistant", blocks))

\* Gemini: a turn each; calls carry their signature, results their tool's name.
\* The wire has no ids: those of the parts here are for the properties to tell
\* which result is which, and pair by name and order on the wire.
GeminiTurn(m) ==
    LET parts == CASE m.role = "tool" -> Images(m) \o <<OutPart(m)>>
                   [] m.role = "user" -> Texts(m) \o Images(m)
                   [] OTHER -> Texts(m) \o CallParts(m)
    IN  Turn(IF m.role = "assistant" THEN "model" ELSE "user",
             IF parts = <<>> THEN <<Part("text")>> ELSE parts)

\* Qwen: a turn each; a result's images are left out.
QwenTurn(m) ==
    CASE m.role = "user" -> Turn("user", Texts(m) \o Images(m))
      [] m.role = "tool" -> Turn("tool", <<OutPart(m)>>)
      [] OTHER -> Turn("assistant", Texts(m) \o CallParts(m))

\* What a message adds to a request.
Adds(wire, m) ==
    CASE adapter = "openai"    -> wire \o OpenAITurns(m)
      [] adapter = "anthropic" -> AnthropicAdds(wire, m)
      [] adapter = "gemini"    -> Append(wire, GeminiTurn(m))
      [] adapter = "qwen"      -> Append(wire, QwenTurn(m))

Request(ms) ==
    LET wire[k \in 0 .. Len(ms)] == IF k = 0 THEN <<>> ELSE Adds(wire[k - 1], ms[k])
    IN  wire[Len(ms)]

-----------------------------------------------------------------------------
(* The stream of an answer (external): each call comes in fragments, which *)
(* may be mixed with those of another; a Gemini call, and what OpenAI's    *)
(* and Anthropic's final response hold, comes whole.                       *)

Fragments == CASE adapter = "anthropic" -> <<"start", "delta", "stop">>
               [] adapter = "qwen"      -> <<"head", "arguments">>
               [] OTHER                 -> <<"whole">>

\* What is heard of the i-th call.
Of(i) == {p \in DOMAIN heard : heard[p].index = i}

\* Mutant: an arguments fragment belongs to the call begun last.
TaggedLast(i) == {p \in DOMAIN heard : heard[p].is = "head" /\ heard[p].index = i}

Tagged(i) == Of(i)

\* Qwen: the fragments by index, and the calls in the order of their index.
QwenCalls ==
    FlattenSeq([i \in DOMAIN answer.calls |->
        IF Of(i) = {} THEN <<>>
        ELSE <<[answer.calls[i] EXCEPT !.whole = Cardinality(Tagged(i)) = Len(Fragments)]>>])

Calls == IF adapter = "qwen" THEN QwenCalls
         ELSE [i \in DOMAIN answer.calls |-> [answer.calls[i] EXCEPT !.whole = TRUE]]

\* The texts of the thinking blocks are joined, and the first signature is kept.
ThoughtOf(n, blocks) == IF \E b \in DOMAIN blocks : blocks[b].told THEN n ELSE 0

FirstSigned(blocks) ==
    {b \in DOMAIN blocks : blocks[b].signed /\ \A c \in 1 .. b - 1 : ~blocks[c].signed}

Signature(blocks) ==
    IF FirstSigned(blocks) = {} THEN 0 ELSE CHOOSE b \in FirstSigned(blocks) : TRUE

\* The answer that is made of the whole stream.
Gathered == [answer EXCEPT !.calls = Calls, !.thought = ThoughtOf(Len(made) + 1, thinking),
                           !.signed = Signature(thinking)]

\* Anthropic's listener: a delta and a stop name their block by its index only, while it
\* is open.
Stops(index, open) == {index} \cap open

Show(f) ==
    CASE f.is = "start" -> [shown EXCEPT !.begun = Append(@, f.index), !.open = @ \cup {f.index}]
      [] f.is = "delta" -> [shown EXCEPT !.told = @ \cup ({f.index} \cap shown.open)]
      [] f.is = "stop"  -> [shown EXCEPT !.open = @ \ Stops(f.index, shown.open),
                                         !.done = @ \cup Stops(f.index, shown.open)]
      [] OTHER -> shown

-----------------------------------------------------------------------------
(* The conversation.                                                       *)

UserWrites ==
    /\ Cardinality(At("user", rows)) < MaxUser
    /\ \E image \in BOOLEAN :
            rows' = Append(rows, [Plain EXCEPT !.text = TRUE, !.image = image])
    /\ UNCHANGED <<adapter, store, request, asked, streamVars, made>>

Ids == (1 .. MaxAnswers) \X (1 .. MaxCalls)

\* The calls of the conversation that are left to make.
Left == MaxCalls - Cardinality({id \in Ids : id[1] \in DOMAIN made
                                      /\ id[2] \in DOMAIN made[id[1]].answer.calls})

\* The n-th answer a model of this adapter may make.
Made(n, count, text, signed, reasoning) ==
    [Plain EXCEPT !.role = "assistant", !.text = text,
                  !.reasoning = IF adapter = "openai" /\ reasoning THEN n ELSE 0,
                  !.calls = [i \in 1 .. count |-> [id |-> <<n, i>>, whole |-> FALSE,
                                                   signed |-> adapter = "gemini" /\ signed]]]

\* What the model may answer (external); the request after the last answer is made, and
\* left without one (a bound).
Answers == {Made(Len(made) + 1, count, text, signed, reasoning) :
                count \in 0 .. Left, text, signed, reasoning \in BOOLEAN}

\* And what it may think: OpenAI's tells a summary or not.  The thoughts that Gemini and
\* Qwen tell are never sent back, and are left out.
Thoughts == CASE adapter = "anthropic" -> Thinkings
              [] adapter = "openai"    -> {<<>>, <<[told |-> TRUE, signed |-> FALSE]>>}
              [] OTHER                 -> {<<>>}

\* complete: the request is sent, and an answer begins.
Ask ==
    /\ ~streaming
    /\ rows # <<>> /\ Last(rows).role # "assistant"
    /\ request' = Request(Sanitize(rows)) /\ asked' = rows
    /\ IF Len(made) < MaxAnswers
       THEN answer' \in Answers /\ thinking' \in Thoughts /\ streaming' = TRUE
       ELSE UNCHANGED <<answer, thinking, streaming>>
    /\ heard' = <<>> /\ shown' = NothingShown
    /\ UNCHANGED <<adapter, store, rows, made>>

\* The next fragment of a call comes; only Anthropic's and Qwen's may overtake.
Hear(i) ==
    /\ streaming /\ i \in DOMAIN answer.calls
    /\ Cardinality(Of(i)) < Len(Fragments)
    /\ Len(Fragments) > 1 \/ \A j \in 1 .. i - 1 : Of(j) # {}
    /\ LET f == [index |-> i, is |-> Fragments[Cardinality(Of(i)) + 1]]
       IN  heard' = Append(heard, f) /\ shown' = Show(f)
    /\ UNCHANGED <<adapter, store, rows, request, asked, answer, thinking, streaming, made>>

\* The listener asks to stop: nothing of the answer is kept.
StreamCancelled ==
    /\ streaming /\ streaming' = FALSE
    /\ answer' = Plain /\ thinking' = <<>> /\ heard' = <<>> /\ shown' = NothingShown
    /\ UNCHANGED <<adapter, store, rows, request, asked, made>>

Complete == \A i \in DOMAIN answer.calls : Cardinality(Of(i)) = Len(Fragments)

\* The stream is over: the answer is put together and stored.
Answer ==
    /\ streaming /\ Complete /\ streaming' = FALSE
    /\ rows' = Append(rows, Kept(Gathered))
    /\ made' = Append(made, [answer |-> answer, thinking |-> thinking, row |-> Len(rows) + 1])
    /\ answer' = Plain /\ thinking' = <<>> /\ heard' = <<>> /\ shown' = NothingShown
    /\ UNCHANGED <<adapter, store, request, asked>>

\* A result joins the transcript: at once, after other messages, or never; where two
\* writers ran a call, the other's result too.
ToolTells(id) ==
    LET before == {i \in At("tool", rows) : rows[i].of = id}
    IN  /\ \E i \in DOMAIN rows : \E k \in DOMAIN rows[i].calls : rows[i].calls[k].id = id
        /\ \/ before = {}
           \/ store = "postgres" /\ Cardinality(before) = 1
        /\ rows' = Append(rows, [Plain EXCEPT !.role = "tool", !.of = id,
                                   !.result = IF before = {} THEN "first" ELSE "second"])
        /\ UNCHANGED <<adapter, store, request, asked, streamVars, made>>

Next ==
    \/ UserWrites \/ Ask \/ StreamCancelled \/ Answer
    \/ \E i \in 1 .. MaxCalls : Hear(i)
    \/ \E id \in Ids : ToolTells(id)

Spec == Init /\ [][Next]_vars

-----------------------------------------------------------------------------
(* Properties.                                                             *)

BlockType == [told : BOOLEAN, signed : BOOLEAN]

CallType == [id : Ids, signed : BOOLEAN, whole : BOOLEAN]

MessageType ==
    [role : {"user", "assistant", "tool"}, text : BOOLEAN, image : BOOLEAN,
     thought : 0 .. MaxAnswers, signed : Nat, reasoning : 0 .. MaxAnswers,
     calls : Seq(CallType), of : Ids \cup {NoId},
     result : {"none", "first", "second", "interrupted"}]

PartType ==
    [is : {"text", "image", "thinking", "reasoning", "call", "output"},
     id : (0 .. MaxAnswers) \X Nat, signed : BOOLEAN,
     result : {"none", "first", "second", "interrupted"}]

TurnType == [role : {"user", "assistant", "model", "tool"}, parts : Seq(PartType)]

TypeOK ==
    /\ adapter \in Adapters /\ store \in Stores
    /\ rows \in Seq(MessageType) /\ IsPrefix(asked, rows)
    /\ request \in Seq(TurnType)
    /\ answer \in MessageType /\ thinking \in Seq(BlockType) /\ streaming \in BOOLEAN
    /\ heard \in Seq([index : DOMAIN answer.calls, is : ToSet(Fragments)])
    /\ shown \in [begun : Seq(DOMAIN answer.calls), open : SUBSET DOMAIN answer.calls,
                  told : SUBSET DOMAIN answer.calls, done : SUBSET DOMAIN answer.calls]
    /\ made \in Seq([answer : MessageType, thinking : Seq(BlockType), row : DOMAIN rows])

Sent == FlattenSeq([i \in DOMAIN request |-> request[i].parts])

\* What the transcript has of a call's result: the first one.
Told(ms, id) ==
    LET results == {i \in At("tool", ms) : ms[i].of = id}
    IN  IF results = {} THEN "interrupted" ELSE ms[Min(results)].result

\* A provider refuses a call without an output, an output without a call and a second
\* output: whatever results came, late, twice or never, the request has one output
\* after each call, and it is the first result the transcript had, or says there is none.
Paired ==
    LET sent == Sent
        Is(p, what) == sent[p].is = what
    IN  /\ \A p \in DOMAIN sent : Is(p, "call") =>
                \E q \in p + 1 .. Len(sent) :
                    /\ Is(q, "output") /\ sent[q].id = sent[p].id
                    /\ sent[q].result = Told(asked, sent[p].id)
        /\ \A q \in DOMAIN sent : Is(q, "output") =>
                \E p \in 1 .. q - 1 : Is(p, "call") /\ sent[p].id = sent[q].id
        /\ \A p, q \in DOMAIN sent :
                /\ sent[p].is = sent[q].is /\ sent[p].is \in {"call", "output"}
                /\ sent[p].id = sent[q].id
                => p = q

\* What a model must be given back of its thinking reaches every later request, once, through
\* the store and the adapter: the signature of each Gemini call, OpenAI's reasoning items,
\* and Anthropic's thought, which is one block of all its text under the first of its
\* signatures.  So a signed block with text goes back as it was made when the answer has no
\* other, the blocks of an answer that has several as one, and one that no text goes with, or
\* no signature, not at all.  (The parts of a row have a place for the items only beside a
\* summary: a postgres row without one loses them.)
ThinkingGoesOn ==
    LET sent     == Sent
        past     == {n \in DOMAIN made : made[n].row <= Len(asked)}
        told     == {n \in past : \E b \in DOMAIN made[n].thinking : made[n].thinking[b].told}
        items    == {n \in past : made[n].answer.reasoning # 0}
        back(is) == {sent[p].id : p \in {q \in DOMAIN sent : sent[q].is = is}}
    IN  /\ adapter = "anthropic" =>
                back("thinking") =
                    UNION {{<<n, b>> : b \in FirstSigned(made[n].thinking)} : n \in told}
        /\ adapter = "openai" =>
                back("reasoning") =
                    {<<n, 0>> : n \in IF store = "memory" THEN items ELSE items \cap told}
        /\ \A p, q \in DOMAIN sent :
                /\ sent[p].is = sent[q].is /\ sent[p].is \in {"thinking", "reasoning"}
                /\ sent[p].id[1] = sent[q].id[1]
                => p = q
        /\ \A p \in DOMAIN sent : sent[p].is = "call" =>
                sent[p].signed = made[sent[p].id[1]].answer.calls[sent[p].id[2]].signed

\* In whatever order the fragments of several calls came, the stored answer has each call
\* the model made, in order and with all of its arguments, and its text; and no answer is
\* stored that the model did not make.
AnswersKept ==
    /\ \A n \in DOMAIN made :
            LET row == rows[made[n].row]
            IN  /\ row.role = "assistant" /\ row.text = made[n].answer.text
                /\ row.calls = [i \in DOMAIN made[n].answer.calls |->
                                   [made[n].answer.calls[i] EXCEPT !.whole = TRUE]]
    /\ \A i \in At("assistant", rows) : \E n \in DOMAIN made : made[n].row = i
    /\ \A n, k \in DOMAIN made : n < k => made[n].row < made[k].row

\* Anthropic takes the results of an answer in the one turn after it, only: unless another
\* message came before one of them, the turn after an answer has an output of each call.
ResultsNext ==
    adapter = "anthropic" =>
        \A k \in DOMAIN request :
            LET ids(i, is) == {request[i].parts[p].id :
                                  p \in {q \in DOMAIN request[i].parts :
                                            request[i].parts[q].is = is}}
                calls == ids(k, "call")
                at    == {i \in DOMAIN asked :
                            \E c \in DOMAIN asked[i].calls : asked[i].calls[c].id \in calls}
                late  == \E i \in at : \E j, l \in DOMAIN asked :
                            /\ i < j /\ j < l /\ asked[j].role # "tool"
                            /\ asked[l].of \in calls
            IN  calls # {} /\ ~late =>
                    k + 1 \in DOMAIN request /\ calls \subseteq ids(k + 1, "output")

\* Anthropic's deltas and stops name a block by its index: once all has come, the listener
\* was shown each call begun once, its arguments, and complete.
ShownWhole ==
    streaming /\ adapter = "anthropic" /\ Complete =>
        /\ ToSet(shown.begun) = DOMAIN answer.calls /\ IsInjective(shown.begun)
        /\ shown.told = DOMAIN answer.calls /\ shown.done = DOMAIN answer.calls

\* The state is well formed, answers are put together and kept whole, and shown whole.
ConversationInv == TypeOK /\ AnswersKept /\ ShownWhole
================================================================================
