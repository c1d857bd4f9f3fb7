----------------------------- MODULE MCLeadReply -----------------------------
(***************************************************************************)
(* An instance of LeadReply: five emails, two apartments in one house, one    *)
(* user, in the night the clocks go back an hour.  Time is in quarters of   *)
(* an hour from the midnight (UTC) of that night.                          *)
(***************************************************************************)
EXTENDS LeadReply

CONSTANTS noreply, inbox1, inbox2, prospect, phone1, unit1, unit2, listing1, agent1,
          ours, theirs

MCAddress(street, unit) == [house |-> "41", street |-> street, unit |-> unit]

\* Two spellings of one street, and another street.
MCSimilarity ==
    [p \in Street \X Street |->
        IF p[1] = p[2] THEN 100 ELSE IF "elm" \in {p[1], p[2]} THEN 30 ELSE 88]

MCTemplate(required, links, broken) ==
    [slots |-> Slot, required |-> required, links |-> links, broken |-> broken, escaped |-> FALSE]

MCFallback == MCTemplate({}, {}, FALSE)

MCRepeatFallback == MCTemplate({}, {ours}, FALSE)

MCUser(enabled, leads, email, field) ==
    [enabled |-> enabled, staff |-> enabled, leads |-> leads, email |-> email, inbox |-> leads,
     phone |-> Blank, template |-> field, repeatTemplate |-> NoTemplate]

MCUserRows ==
    {MCUser(TRUE, Blank, inbox1, Escape(MCTemplate({"first_name"}, {ours}, FALSE))),
     MCUser(TRUE, inbox1, inbox2, Escape(MCTemplate({}, {}, TRUE))),
     MCUser(FALSE, Blank, prospect, NoTemplate)}

MCRows ==
    {[address |-> MCAddress("oak", unit1), listings |-> {}],
     [address |-> MCAddress("oak", unit2), listings |-> {listing1}],
     [address |-> MCAddress("elm", unit1), listings |-> {}]}

MCValue(links, braces) == [empty |-> FALSE, links |-> links, braces |-> braces]

MCName(links, braces) ==
    [title |-> FALSE, words |-> 1, mail |-> FALSE, text |-> MCValue(links, braces)]

MCSurname == [title |-> TRUE, words |-> 1, mail |-> FALSE, text |-> MCValue({}, FALSE)]

MCText(mailto, tel, listing) ==
    [some |-> TRUE, mailto |-> mailto, tel |-> tel, listing |-> listing, name |-> NoName,
     first |-> Blank, behind |-> Blank]

MCNoText == [MCText({}, Blank, Blank) EXCEPT !.some = FALSE]

MCMessage(from, replyTo, subject, plain, html, thread) ==
    [from |-> from, to |-> {inbox1}, replyTo |-> replyTo, subject |-> subject, plain |-> plain,
     html |-> html, thread |-> thread]

\* An inquiry with everything, whose name has a link and braces.
MCAsked ==
    MCMessage("StreetEasy", prospect,
              [kind |-> "inquiry", name |-> MCName({theirs}, TRUE), text |-> MCValue({}, FALSE),
               address |-> MCAddress("oaks", unit1)],
              MCText({prospect}, phone1, Blank), MCNoText, TRUE)

\* One with a listing and without a Reply-To.
MCBare ==
    MCMessage("StreetEasy", Blank,
              [kind |-> "inquiry", name |-> MCName({}, FALSE), text |-> MCValue({}, FALSE),
               address |-> MCAddress("oak", unit2)],
              MCText({}, Blank, listing1), MCNoText, FALSE)

\* A new message, with a surname: no address.
MCNew ==
    MCMessage("StreetEasy", prospect,
              [kind |-> "new_message", name |-> MCSurname, text |-> Nothing,
               address |-> NoSplit],
              MCText({prospect}, phone1, listing1), MCNoText, FALSE)

\* StreetEasy's own mail.
MCNews ==
    MCMessage("StreetEasy", noreply,
              [kind |-> "other", name |-> NoName, text |-> Nothing, address |-> NoSplit],
              MCText({noreply}, Blank, listing1), MCNoText, FALSE)

\* Zillow's have an HTML part, with a name behind the subject's.
MCZillow ==
    MCMessage("Zillow", prospect,
              [kind |-> "zillow", name |-> NoName, text |-> MCValue({}, FALSE),
               address |-> MCAddress("elm", unit1)],
              MCNoText,
              [MCText({}, Blank, Blank) EXCEPT !.name = MCName({}, FALSE), !.first = phone1], TRUE)

MCMessages == {MCAsked, MCBare, MCNew, MCNews, MCZillow}

\* Local 22:45, 23:00, the half hour that comes twice, 7:45 and 8:00.
MCInstants == {11, 12, 22, 26, 51, 52}

MCBefore == -16

MCAfterChange == -20

=============================================================================
