------------------------------- MODULE RunText -------------------------------
(***************************************************************************)
(* The pure functions that make the text a run sends and read what comes   *)
(* back (worker: promptTemplate.ts, attachmentPrompt.ts,                   *)
(* repetitionDetector.ts, librechatClient.ts; shared:                      *)
(* webhookPayloadTemplate.ts, webhookDeliveryHeaders.ts; api:              *)
(* librechatDiscovery.ts), each as the code computes it, beside a          *)
(* reference that says what it should give.  Every step calls one of them  *)
(* with any input.  A name, a value, a line and a word are opaque; a text  *)
(* that is only measured is its length.                                    *)
(***************************************************************************)
EXTENDS FiniteSetsExt, Sequences

CONSTANTS
    Placeholders,   \* names that occur in templates
    BuiltIns,       \* those with a built-in value
    Inherited,      \* those every JavaScript object has: "name in values" finds them
    Lines,          \* lines or paragraphs long enough to count
    MaxLines,       \* bound: lines of an output
    MaxChars,       \* bound: characters of a text
    HeaderChars, NoticeChars,   \* lengths of the context header and of the notice
    GramSize,       \* NGRAM_SIZE_WORDS
    NotGiven        \* undefined, or null

ASSUME TextAssumption ==
    /\ BuiltIns \subseteq Placeholders /\ Inherited \subseteq Placeholders \ BuiltIns
    /\ {MaxLines, MaxChars, HeaderChars, NoticeChars} \subseteq Nat /\ GramSize \in Nat \ {0}
    /\ \A a, b \in 0..2 : <<a, b>> # NotGiven

VARIABLE result     \* the function called last with its input and what it gave

NoText == [of |-> "nothing"]

-----------------------------------------------------------------------------
(* renderPromptTemplate: a table is filled in three passes, later ones win.*)

WithDefaults(declared) == [n \in declared |-> "default"]

\* An override that adds a name nobody declared.
OverrideAny(table, given) == [n \in DOMAIN table \cup given |->
                                IF n \in given THEN "override" ELSE table[n]]
\* Every declared name is in values, and so is every inherited one.
Override(table, given) == [n \in DOMAIN table \cup (given \cap Inherited) |->
                                IF n \in given THEN "override" ELSE table[n]]
AssignBuiltIns(table) == [n \in DOMAIN table \cup BuiltIns |->
                                IF n \in BuiltIns THEN "builtin" ELSE table[n]]

Resolve(table, n) == IF n \in DOMAIN table THEN table[n]
                     ELSE IF n \in Inherited THEN "inherited" ELSE "as is"

RenderPromptTemplate(declared, given) ==
    /\ result = NoText
    /\ result' = [of |-> "render", declared |-> declared, given |-> given,
                  values |-> [n \in Placeholders |->
                      Resolve(AssignBuiltIns(Override(WithDefaults(declared), given)), n)]]

-----------------------------------------------------------------------------
(* buildAttachmentPrompt: what is kept of the extracted text.        *)

AttachmentPrompt(prompt, extracted, max) ==
    LET room == max - prompt - HeaderChars IN
    IF room <= 0 \/ (extracted > room /\ room <= NoticeChars) THEN [error |-> TRUE]
    ELSE LET kept == IF extracted > room THEN room - NoticeChars ELSE extracted IN
         [error |-> FALSE, kept |-> kept,
          chars |-> prompt + HeaderChars + kept + IF kept < extracted THEN NoticeChars ELSE 0]

BuildAttachmentPrompt(prompt, extracted, max) ==
    /\ result = NoText
    /\ result' = [of |-> "attach", prompt |-> prompt, extracted |-> extracted, max |-> max,
                  out |-> AttachmentPrompt(prompt, extracted, max)]

-----------------------------------------------------------------------------
(* detectRepetition: one pass over the lines, one over the phrases.        *)

\* longestConsecutiveRepeat: <<the run that ends here, the longest so far>>.
Lengthen(s, i, acc) == IF s[i] = s[i - 1] THEN <<acc[1] + 1, Max({acc[2], acc[1] + 1})>>
                       ELSE <<1, acc[2]>>
LongestRepeat(s) ==
    LET pass[i \in 1..Len(s)] == IF i = 1 THEN <<1, 1>> ELSE Lengthen(s, i, pass[i - 1])
    IN  IF s = << >> THEN 0 ELSE pass[Len(s)][2]

\* Phrases that occurred before, counted while the table of the seen ones fills.
Phrase(s, i) == SubSeq(s, i, i + GramSize - 1)
CountPhrase(s, i, acc) ==
    [phrases |-> acc.phrases \cup {Phrase(s, i)},
     repeats |-> acc.repeats + IF Phrase(s, i) \in acc.phrases THEN 1 ELSE 0]
RepeatedPhrases(s) ==
    LET last == Len(s) - GramSize + 1
        seen[i \in 0..last] == IF i = 0 THEN [phrases |-> {}, repeats |-> 0]
                               ELSE CountPhrase(s, i, seen[i - 1])
    IN  IF Len(s) >= 2 * GramSize THEN seen[last].repeats ELSE 0

DetectRepetition(s) ==
    /\ result = NoText
    /\ result' = [of |-> "detect", text |-> s, longest |-> LongestRepeat(s),
                  repeats |-> RepeatedPhrases(s)]

-----------------------------------------------------------------------------
(* renderWebhookPayloadTemplate.  A template is JSON but for its holes: one *)
(* stands within quotes, or bare where a JSON text may have nothing.  A    *)
(* value is the kinds of its characters.                                   *)

Holes == {"status", "output", "error_message", "unknown", "inherited"}
Places == {"absent", "quoted", "bare"}
Kinds == {"plain", "quote", "newline"}
RunValues == {"status", "output", "error_message"}

\* The sample has no error, quotes and a newline.
Sample == [h \in RunValues |-> CASE h = "status" -> {"plain"} [] h = "output" -> Kinds [] OTHER -> {}]

\* JSON.stringify without its quotes.
Escaped(v) == {IF k = "plain" THEN k ELSE "escaped" : k \in v}
\* A name nobody knows stays as it is.
Rendered(h, values) == IF h \in RunValues THEN Escaped(values[h]) ELSE {"plain"}

IsJson(place, values) ==
    \A h \in Holes : CASE place[h] = "quoted" -> Rendered(h, values) \cap {"quote", "newline"} = {}
                      [] place[h] = "bare" -> Rendered(h, values) = {}
                      [] OTHER -> TRUE

\* The rendering of the sample parses; an inherited name's value has no JSON, and throws.
Accepts(place) == place["inherited"] = "absent" /\ IsJson(place, Sample)

RenderWebhookPayload(place, values) ==
    /\ result = NoText
    /\ result' = [of |-> "payload", place |-> place, accepted |-> Accepts(place),
                  json |-> IsJson(place, values)]

\* buildWebhookDeliveryHeaders: the sender's own two win, however they are spelled.
Reserved == {"content-type", "CONTENT-TYPE", "x-nexus-signature", "X-NEXUS-SIGNATURE"}
BuildHeaders(custom, signed) ==
    /\ result = NoText
    /\ result' = [of |-> "headers", custom |-> custom, signed |-> signed,
                  out |-> (custom \ Reserved) \cup {"Content-Type"}
                          \cup IF signed THEN {"X-Nexus-Signature"} ELSE {}]

-----------------------------------------------------------------------------
(* What LibreChat's answers are taken for.                                 *)

\* extractTokenUsage: the first convention that is complete; two zeros are no data.
UsageFields == {"prompt", "completion", "input", "output"}
Whole(usage, a, b) == usage[a] # NotGiven /\ usage[b] # NotGiven
TokenUsage(usage) ==
    LET pair == IF Whole(usage, "prompt", "completion") THEN <<usage["prompt"], usage["completion"]>>
                ELSE IF Whole(usage, "input", "output") THEN <<usage["input"], usage["output"]>>
                ELSE <<0, 0>>
    IN  IF pair = <<0, 0>> THEN NotGiven ELSE pair

ExtractTokenUsage(usage) ==
    /\ result = NoText
    /\ result' = [of |-> "usage", usage |-> usage, out |-> TokenUsage(usage)]

\* describeUnexecutedToolCall, and what processRun makes of note and content.
DescribeToolCall(calls, content, finish) ==
    LET answered == content = "text"
        note == calls > 0 /\ (finish = "tool_calls" \/ ~answered) IN
    /\ result = NoText
    /\ result' = [of |-> "tools", calls |-> calls, answered |-> answered, finish |-> finish,
                  note |-> note, output |-> note \/ content # "none"]

\* listLibreChatAgents: the entries that have an id, and names from a second answer
\* if there is one.
Agent == [id : {"g1", "g2"}, name : {NotGiven, "own"}]
Enrich(agents, names) ==
    [i \in DOMAIN agents |-> IF agents[i].id \in names THEN [agents[i] EXCEPT !.name = "found"]
                             ELSE agents[i]]
Identified(entries) ==
    LET kept[i \in 0..Len(entries)] == IF i = 0 THEN << >>
                                       ELSE IF entries[i] = NotGiven THEN kept[i - 1]
                                       ELSE Append(kept[i - 1], entries[i])
    IN  kept[Len(entries)]
ListAgents(entries, names) ==
    LET agents == Identified(entries) IN
    /\ result = NoText
    /\ result' = [of |-> "agents", entries |-> entries, names |-> names,
                  out |-> IF names = {} THEN agents ELSE Enrich(agents, names)]

-----------------------------------------------------------------------------
TextReturn == result # NoText /\ result' = NoText

TextInit == result = NoText
TextNext ==
    \/ \E declared, given \in SUBSET Placeholders : RenderPromptTemplate(declared, given)
    \/ \E prompt, extracted, max \in 0..MaxChars : BuildAttachmentPrompt(prompt, extracted, max)
    \/ \E n \in 0..MaxLines : \E s \in [1..n -> Lines] : DetectRepetition(s)
    \/ \E place \in [Holes -> Places], output, error \in SUBSET Kinds :
          RenderWebhookPayload(place, [status |-> {"plain"}, output |-> output, error_message |-> error])
    \/ \E custom \in SUBSET (Reserved \cup {"token"}), signed \in BOOLEAN : BuildHeaders(custom, signed)
    \/ \E usage \in [UsageFields -> {NotGiven, 0, 1, 2}] : ExtractTokenUsage(usage)
    \/ \E calls \in 0..2, content \in {"none", "blank", "text"}, finish \in {"stop", "tool_calls", "none"} :
          DescribeToolCall(calls, content, finish)
    \/ \E n \in 0..3 : \E entries \in [1..n -> Agent \cup {NotGiven}], names \in SUBSET {"g1", "g2"} :
          ListAgents(entries, names)
    \/ TextReturn
TextSpec == TextInit /\ [][TextNext]_result

-----------------------------------------------------------------------------
(* Properties.                                                             *)

\* The precedence of promptTemplate.ts:1-4, name by name.
Precedence(r, n) ==
    \/ n \in BuiltIns /\ r.values[n] = "builtin"
    \/ n \in (r.declared \cap r.given) \ BuiltIns /\ r.values[n] = "override"
    \/ n \in r.declared \ (r.given \cup BuiltIns) /\ r.values[n] = "default"
    \/ n \notin r.declared \cup BuiltIns \cup Inherited /\ r.values[n] = "as is"
    \/ n \in Inherited \ r.declared   \* nothing is said of these

\* The prompt keeps to the budget, and text is given up only for want of room.
WithinPrompt(r) ==
    r.out.error \/ /\ r.out.chars <= r.max
                   /\ r.out.kept <= r.extracted
                   /\ r.out.kept < r.extracted =>
                        r.out.chars = r.max /\ r.prompt + HeaderChars + r.extracted > r.max

\* The longest stretch of equal neighbours; the phrases less the different ones.
Stretches(s) == {n \in 1..Len(s) : \E i \in 1..(Len(s) - n + 1) :
                    \A k \in i..(i + n - 1) : s[k] = s[i]}
Counted(r) ==
    LET places == 1..(Len(r.text) - GramSize + 1) IN
    /\ r.longest = IF r.text = << >> THEN 0 ELSE Max(Stretches(r.text))
    /\ Len(r.text) >= 2 * GramSize =>
          r.repeats = Cardinality(places) - Cardinality({Phrase(r.text, i) : i \in places})

\* A body whose template was accepted is JSON for every run; one whose error_message
\* stands outside quotes passes with the sample, which has no error, and is exempt.
BodyParses(r) == r.accepted /\ r.place["error_message"] # "bare" => r.json

\* One header of each reserved name at most, and nothing else is lost.
HeadersKept(r) ==
    /\ r.out \cap Reserved = {} /\ "Content-Type" \in r.out
    /\ "X-Nexus-Signature" \in r.out <=> r.signed
    /\ r.custom \ Reserved \subseteq r.out

\* The two numbers are of one convention and not both zero; usage that is given in
\* one convention only is not missed.
OneConvention(r) ==
    LET pairs == {<<r.usage[c[1]], r.usage[c[2]]>> :
                     c \in {<<"prompt", "completion">>, <<"input", "output">>}}
        whole == {p \in pairs : p[1] # NotGiven /\ p[2] # NotGiven} IN
    IF r.out = NotGiven THEN whole = {} \/ <<0, 0>> \in whole
    ELSE r.out \in whole \ {<<0, 0>>}

\* A final answer is not flagged, and no run that only asked for tools ends with an
\* output that says nothing of it.
AnswerOrNote(r) ==
    /\ r.note => r.calls > 0
    /\ r.answered /\ r.finish # "tool_calls" => ~r.note
    /\ r.calls > 0 => r.output

\* Every agent with an id is listed, in order, whatever becomes of the second answer.
AgentsKept(r) ==
    LET kept == {i \in DOMAIN r.entries : r.entries[i] # NotGiven} IN
    /\ Len(r.out) = Cardinality(kept)
    /\ \A i \in kept :
          LET a == r.out[Cardinality({k \in kept : k <= i})] IN
          /\ a.id = r.entries[i].id
          /\ a.name = IF a.id \in r.names THEN "found" ELSE r.entries[i].name

\* Each function gives what its reference says, for every input: precedence of
\* template values, the prompt's budget, what counts as a repetition, bodies that are
\* JSON, headers nobody overrides, token counts, unanswered calls, agents.
TextAsSpecified ==
    /\ result.of = "payload" => BodyParses(result)
    /\ result.of = "headers" => HeadersKept(result)
    /\ result.of = "usage" => OneConvention(result)
    /\ result.of = "tools" => AnswerOrNote(result)
    /\ result.of = "agents" => AgentsKept(result)
    /\ result.of = "render" => \A n \in Placeholders : Precedence(result, n)
    /\ result.of = "attach" => WithinPrompt(result)
    /\ result.of = "detect" => Counted(result)
=============================================================================
