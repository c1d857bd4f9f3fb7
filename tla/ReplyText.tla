----------------------------- MODULE ReplyText -----------------------------
(***************************************************************************)
(* The text of a reply: the choice of a template (services/templates.py)    *)
(* and its filling (services/llm.py).                                      *)
(*                                                                         *)
(* Of a template only what the checks on a text look at is kept: its slots, *)
(* those without a default (required), its links, whether it has braces     *)
(* that are no slot (broken), and whether Airtable has escaped it           *)
(* (escaped: no name of a slot with an underscore parses, and both names    *)
(* that a lead has a value for have one).                                  *)
(***************************************************************************)
EXTENDS Integers

CONSTANTS Slot,         \* the slot names
          Link,
          NoTemplate,   \* a blank field
          Fallback, RepeatFallback  \* FALLBACK_TEMPLATE.md, FALLBACK_REPEAT_TEMPLATE.md

Template == [slots : SUBSET Slot, required : SUBSET Slot, links : SUBSET Link,
             broken : BOOLEAN, escaped : BOOLEAN]

ASSUME ReplyTextAssumption ==
    /\ Fallback \in Template /\ RepeatFallback \in Template
    /\ ~Fallback.escaped /\ ~RepeatFallback.escaped
    /\ NoTemplate \notin Template

\* What a rich-text field of Airtable gives back for the template that was typed.
Escape(t) == [t EXCEPT !.escaped = TRUE]

\* Mutant: the agent's template is used as Airtable returns it.
UnescapeNot(t) == t

Unescape(t) == [t EXCEPT !.escaped = FALSE]

\* Mutant: no fallback.
TemplateForOwn(field, fallback) == IF field = NoTemplate THEN NoTemplate ELSE Unescape(field)

\* The agent's own field if it is not blank, the fallback otherwise.
TemplateFor(field, fallback) == IF field = NoTemplate THEN fallback ELSE Unescape(field)

\* The slots the pattern finds.
SlotsOf(t) == IF t.escaped THEN {} ELSE t.slots

\* What a lead has for a slot: nothing, or a text with the links and braces that are in it.
Value == [empty : BOOLEAN, links : SUBSET Link, braces : BOOLEAN]

Nothing == [empty |-> TRUE, links |-> {}, braces |-> FALSE]

\* The slots that make literal_fill raise.
Missing(t, values) == {s \in SlotsOf(t) \cap t.required : values[s].empty}

\* The values that get into the text: a slot without one leaves its default, which is the template's.
Filled(t, values) == {values[s] : s \in {r \in SlotsOf(t) : ~values[r].empty}}

Body == [braces : BOOLEAN, links : SUBSET Link, close : BOOLEAN]

\* literal_fill: the values are not looked at again.
LiteralBody(t, values) ==
    [braces |-> \/ t.broken \/ SlotsOf(t) # t.slots
                \/ \E value \in Filled(t, values) : value.braces,
     links |-> t.links \cup UNION {value.links : value \in Filled(t, values)},
     close |-> TRUE]

\* Mutant: a link is only looked for, not compared.
PostCheckBracesOnly(t, body) == ~body.braces /\ body.close

\* _post_check: no braces, no link the template does not have, and a length within a fifth of the
\* literal text's (close).
PostCheck(t, body) == ~body.braces /\ body.links \subseteq t.links /\ body.close

\* fill_template: the model may return anything, or fail, and what does not pass is replaced.
Fillings(t, values) == {body \in Body : PostCheck(t, body)} \cup {LiteralBody(t, values)}

=============================================================================
