----------------------------- MODULE LeadEmail -----------------------------
(***************************************************************************)
(* The lead that an email says (parsers/base.py, streeteasy.py, zillow.py). *)
(* Of a text only what the patterns find in it is kept.                     *)
(***************************************************************************)
EXTENDS Users, Apartments, ReplyText

CONSTANTS Person,       \* addresses of prospects
          Platform,     \* addresses of StreetEasy and Zillow, and no-reply addresses
          Phone, Listing, Mailbox

Address == Person \cup Platform

\* `words` are those of a name that come after a title.
Name == [title : BOOLEAN, words : 0..2, mail : BOOLEAN, text : Value]

NoName == [title |-> FALSE, words |-> 0, mail |-> FALSE, text |-> Nothing]

\* split_name: one word is a first name unless it is an address or follows a title.
FirstName(name) ==
    IF name.words = 0 \/ (name.words = 1 /\ (name.title \/ name.mail)) THEN Nothing ELSE name.text

Subject == [kind : {"inquiry", "new_message", "zillow", "other"},
            name : Name, text : Value, address : Split \cup {NoSplit}]

\* The links (mailto, tel, listing), the name of the contact, the first telephone number and the
\* first one behind the prospect's address.  `some`: there is such a text, and it is not empty.
Text == [some : BOOLEAN, mailto : SUBSET Address, tel : Phone \cup {Blank},
         listing : Listing \cup {Blank}, name : Name,
         first : Phone \cup {Blank}, behind : Phone \cup {Blank}]

Message == [from : {"StreetEasy", "Zillow", "other"}, to : SUBSET Mailbox,
            replyTo : Address \cup {Blank}, subject : Subject,
            plain : Text, html : Text, thread : BOOLEAN]

\* html_to_text: the links of an HTML part are attributes, which are dropped.
Flat(text) == [text EXCEPT !.mailto = {}, !.tel = Blank, !.listing = Blank]

\* _is_external_prospect
External(email) == email \in Person

-----------------------------------------------------------------------------
\* The text part, or else the HTML part.
StreetEasyBody(m) == IF m.plain.some THEN m.plain ELSE Flat(m.html)

\* Mutant: the sender need not be a prospect.
IsLeadAnySender(m) == m.subject.kind = "inquiry" \/ m.replyTo \in StreetEasyBody(m).mailto

\* The subject says so, or a prospect is the sender and the body has a link to answer.
IsLead(m) ==
    \/ m.subject.kind = "inquiry"
    \/ External(m.replyTo) /\ m.replyTo \in StreetEasyBody(m).mailto

StreetEasyLead(m) ==
    LET canonical == m.subject.kind = "inquiry"
        body == StreetEasyBody(m)
    IN  [firstName |-> IF canonical \/ m.subject.kind = "new_message"
                       THEN FirstName(m.subject.name) ELSE Nothing,
         addressText |-> IF canonical THEN m.subject.text ELSE Nothing,
         address |-> IF canonical THEN m.subject.address ELSE NoSplit,
         listing |-> body.listing, email |-> m.replyTo, phone |-> body.tel]

PhoneNear(body) == IF body.behind # Blank THEN body.behind ELSE body.first

ZillowLead(m) ==
    LET body == Flat(IF m.html.some THEN m.html ELSE m.plain) IN
    [firstName |-> FirstName(body.name), addressText |-> m.subject.text,
     address |-> m.subject.address, listing |-> Blank, email |-> m.replyTo,
     phone |-> PhoneNear(body)]

\* parse does not raise.
Parses(m) ==
    \/ m.from = "StreetEasy" /\ IsLead(m)
    \/ m.from = "Zillow" /\ m.subject.kind = "zillow"

Parse(m) == IF m.from = "StreetEasy" THEN StreetEasyLead(m) ELSE ZillowLead(m)

=============================================================================
