----------------------------- MODULE MCOrganizer ------------------------------
(***************************************************************************)
(* Lists of people: the organizer's file of guests, the lists the members  *)
(* of an event are shown, the tags those lists are made from, and the      *)
(* address book somebody looks for in WELCOME.  The components share no    *)
(* state: one run checks them, each from its own initial states, with the  *)
(* others at rest.                                                         *)
(***************************************************************************)
EXTENDS FileImport, Matching, TagBackfill, ContactMatch, TLC

CONSTANTS i1, i2

VARIABLE part

Parts == {"import", "matching", "backfill", "contacts"}

\* Two files: in the first a guest comes three times, once with a key of its own; the
\* second has no column of keys.
GuestFiles == {"guests", "late"}
GuestsOf(f) ==
    IF f = "guests"
    THEN [columns |-> {"email", "external_id"},
          rows |-> <<[email |-> "a", external_id |-> "x"],
                     [email |-> "a", external_id |-> ""], [email |-> "a", external_id |-> ""]>>]
    ELSE [columns |-> {"email"}, rows |-> <<[email |-> "no address"], [email |-> "a"]>>]
EarlierGuests == {<<"email", "a">>}

\* Five people, among them one who gave no intents and one whose needs are all met.
ProfileOf(n, o, i, f, d, w, h, l) ==
    [needs |-> n, offers |-> o, interests |-> i, function |-> f, industry |-> d,
     wants |-> w, has |-> h, languages |-> l]
Cast == {
    ProfileOf({"seeking-mentor"}, {}, {"climate"}, "design", "fintech", {"t"}, {"u"}, {"en"}),
    ProfileOf({}, {"mentoring"}, {"climate", "hiring"}, "engineering", "fintech", {}, {}, {}),
    ProfileOf({"hiring", "seeking-mentor"}, {"open-to-work"}, {}, "none", "none", {"u"}, {"t"},
              {"en"}),
    ProfileOf({"open-to-work"}, {"open-to-work", "mentoring"}, {"hiring"}, "founder-ceo", "other",
              {"u"}, {"t", "u"}, {"es"}),
    ProfileOf({}, {}, {}, "none", "none", {"u"}, {"t"}, {})}
GoalsChosen == {<<>>, <<"find_mentor", "hire">>, <<"grow_network">>}
Somebody == CHOOSE p \in Profiles : TRUE

\* Old tags the catalogue knows twice over, and old tags it does not know.
OldTags == {<<"Klima", "own  word", "climate">>,
            <<"fintech", "edtech", "some very long words", "  ">>}
RowAtRest == [tags |-> <<"Klima", "own  word", "climate">>, interests |-> <<>>,
                keywords |-> <<>>]
NoLists == [interests |-> <<>>, keywords |-> <<>>]
ListsBefore == {NoLists, [interests |-> <<"fintech">>, keywords |-> <<"own word">>]}

\* The lists at rest: nobody has joined the event.
NobodyThere ==
    /\ mode = "useful" /\ closed = FALSE /\ changes = 0 /\ blocks = {}
    /\ profile = [p \in Persons |-> Somebody]
    /\ goals = [p \in Persons |-> <<>>]
    /\ member = [p \in Persons |-> [Joined EXCEPT !.active = FALSE]]
    /\ recency = [p \in Persons |-> 0]
    /\ intro = [couple \in Couples |-> "none"]

\* Address books with what an address book may have: two addresses to a card and to a row,
\* none at all, one in an encoding, a table without a header, and one that is not readable.
Book(format, rows) == [format |-> format, rows |-> rows, broken |-> FALSE, huge |-> FALSE]
AddressBooks ==
    [cards |-> Book("vcard", <<<<"me", "a">>, <<"encoded">>, <<"a", "b">>>>),
     table |-> Book("csv", <<<<"Name", "Email">>, <<"x", "b">>, <<"", "">>, <<"y", "">>>>),
     big |-> Book("csv", <<<<"x", "a">>, <<"b", "c">>, <<"y", "c">>, <<"y", "me", "b">>>>),
     broken |-> [Book("csv", <<<<"x">>>>) EXCEPT !.broken = TRUE],
     huge |-> [Book("csv", <<<<"x">>>>) EXCEPT !.huge = TRUE]]
GoogleBooks ==
    [short |-> <<<<<<"a", "junk">>, <<"junk">>>>, <<<<"a">>>>>>,
     pages |-> <<<<<<"a">>>>, <<<<"b">>>>, <<<<"c">>>>>>,
     full |-> <<<<<<"a", "b">>>>, <<<<"b", "c">>, <<"me">>>>>>]

OrganizerInit ==
    /\ part \in Parts
    /\ FileImportInit
    /\ IF part = "matching" THEN MatchingInit ELSE NobodyThere
    /\ BackfillInit
    /\ \A t, u \in Range(Tables) : stored[t].tags = stored[u].tags
    /\ part # "backfill" => \A t \in Range(Tables) : stored[t] = RowAtRest
    /\ ContactInit /\ (part # "contacts" => google = "short")

OrganizerNext ==
    /\ UNCHANGED part
    /\ \/ part = "import" /\ FileImportNext /\ UNCHANGED <<matchingVars, backfillVars, contactVars>>
       \/ part = "matching" /\ MatchingNext /\ UNCHANGED <<importVars, backfillVars, contactVars>>
       \/ part = "backfill" /\ BackfillNext /\ UNCHANGED <<importVars, matchingVars, contactVars>>
       \/ part = "contacts" /\ ContactNext /\ UNCHANGED <<importVars, matchingVars, backfillVars>>

organizerVars == <<part, importVars, matchingVars, backfillVars, contactVars>>

OrganizerSpec == OrganizerInit /\ [][OrganizerNext]_organizerVars

OrganizerSymmetry == Permutations({i1, i2})

-----------------------------------------------------------------------------
\* Every variable of every component keeps to its type.
OrganizerTypesOK == FileImportTypeOK /\ MatchingTypeOK /\ BackfillTypeOK /\ ContactTypeOK
===============================================================================
