----------------------------- MODULE ContactMatch ------------------------------
(***************************************************************************)
(* "Who of my contacts is here": an address book comes in as a file or as  *)
(* pages from Google, is read in memory, looked up among the accounts and  *)
(* forgotten.  Two panels send requests while people join and leave.       *)
(***************************************************************************)
EXTENDS FiniteSets, Naturals, SequencesExt

CONSTANTS
    Known,          \* cells that are addresses; each is some account's
    Asker,          \* the address of the account that asks
    Texts,          \* address books one may pick or type
    PagedBooks,     \* address books at Google: pages of people, people of cells
    MaxContacts,    \* contacts looked up at once
    MaxPages,       \* pages read from Google at once
    ReadLimit,      \* matches read
    ShownLimit,     \* matches sent
    Budget,         \* runs an hour for both doors together
    MaxMoves        \* bounds picks, runs and changes of accounts

\* Addresses are not confused with what a header or an encoding is called.
ASSUME ContactAssumption ==
    /\ IsFiniteSet(Known) /\ Known \cap {"Email", "encoded"} = {}
    /\ ShownLimit \in Nat /\ ReadLimit \in Nat /\ Budget \in Nat /\ MaxContacts \in Nat
    /\ MaxPages \in Nat \ {0}
    /\ "none" \notin DOMAIN Texts
    /\ \A t \in DOMAIN Texts : /\ Texts[t].rows \in Seq(Seq(STRING))
                               /\ Texts[t].format \in {"vcard", "csv"}
                               /\ Texts[t].broken \in BOOLEAN
    /\ \A b \in DOMAIN PagedBooks : PagedBooks[b] \in Seq(Seq(Seq(STRING)))

VARIABLES
    here,           \* addresses of the active accounts with a profile
    google,         \* the address book at Google
    left,           \* what is left of the hour's budget
    audits,         \* how many rows of numbers were written
    screen,         \* the panel of each door
    request,        \* the request of each door
    moves

contactVars == <<here, google, left, audits, screen, request, moves>>

Doors == {"file", "google"}
NoText == "none"
NoResult == [scanned |-> 0, count |-> 0, matched |-> {}, unmatched |-> 0,
             cut |-> FALSE, truncated |-> FALSE, book |-> "none", looked |-> {}]
BlankPanel == [text |-> NoText, named |-> NoText, reading |-> {}, busy |-> FALSE,
               shown |-> NoResult, error |-> "none"]
NoRequest == [at |-> "none", book |-> "none", error |-> "none", result |-> NoResult]

ContactInit ==
    /\ here = Known
    /\ google \in DOMAIN PagedBooks
    /\ left = Budget
    /\ audits = 0
    /\ screen = [d \in Doors |-> BlankPanel]
    /\ request = [d \in Doors |-> NoRequest]
    /\ moves = 0

-----------------------------------------------------------------------------
(* Reading an address book *)

\* An address book is pages of lines of cells, a file one page; a place in it is a page, a
\* line there and a cell of that.
PlacesOf(pages) ==
    UNION {UNION {{<<n, i, j>> : j \in DOMAIN pages[n][i]} : i \in DOMAIN pages[n]} :
              n \in DOMAIN pages}

CellAt(pages, p) == pages[p[1]][p[2]][p[3]]

Sooner(p, q) ==
    \/ p[1] < q[1]
    \/ p[1] = q[1] /\ p[2] < q[2]
    \/ p[1] = q[1] /\ p[2] = q[2] /\ p[3] < q[3]

\* Of some places those with an address that the same page did not have before.
Found(pages, places) ==
    {p \in places : /\ CellAt(pages, p) \in Known
                    /\ \A q \in places : q[1] = p[1] /\ Sooner(q, p)
                                            => CellAt(pages, q) # CellAt(pages, p)}

\* Their addresses in their order, as many as are looked up at once.
Taken(pages, found) ==
    [k \in 1 .. IF Cardinality(found) < MaxContacts THEN Cardinality(found) ELSE MaxContacts |->
        CellAt(pages, CHOOSE p \in found : Cardinality({q \in found : Sooner(q, p)}) = k - 1)]

\* parseVCard: every address of a card; one in an encoding is left alone.
CardPlaces(rows) == {p \in PlacesOf(<<rows>>) : CellAt(<<rows>>, p) # "encoded"}

\* The column of addresses.
EmailColumn(rows) ==
    IF rows = <<>> THEN {} ELSE {j \in DOMAIN rows[1] : rows[1][j] = "Email"}

\* parseCsvContacts: with a column of addresses its cells; without, the first address of each
\* row, and the first row counts when it has one.
CsvPlaces(rows) ==
    LET column == EmailColumn(rows)
        InRow(i) == {j \in DOMAIN rows[i] : rows[i][j] \in Known} IN
    IF column # {}
    THEN {<<1, i, Min(column)>> : i \in {k \in 2 .. Len(rows) : Min(column) \in DOMAIN rows[k]}}
    ELSE {<<1, i, Min(InRow(i))>> : i \in {k \in DOMAIN rows : InRow(k) # {}}}

\* parseContacts
Parsed(text) ==
    LET rows == Texts[text].rows
        cards == Texts[text].format = "vcard"
        found == Found(<<rows>>, IF cards THEN CardPlaces(rows) ELSE CsvPlaces(rows)) IN
    [contacts |-> Taken(<<rows>>, found),
     truncated |-> Cardinality(found) > MaxContacts \/ (~cards /\ Len(rows) - 1 > MaxContacts)]

\* What is refused, in the order it is looked at; "" when the book is read.
Refusal(text) ==
    CASE Texts[text].broken -> "csv_parse_error"
      [] ~Texts[text].broken /\ Parsed(text).contacts = <<>> -> "no_contacts"
      [] ~Texts[text].broken /\ Parsed(text).contacts # <<>> ->
            IF Parsed(text).truncated THEN "payload_too_large" ELSE ""

\* parsePeopleConnections, page by page: an address known from an earlier page counts again.
FoundUntil(pages, n) == Found(pages, {p \in PlacesOf(pages) : p[1] <= n})

\* Mutant: the last page that may be read counts as the last there is.
BudgetIsEnd(pages, n) == n \in {Len(pages), MaxPages}

\* The page says that there is no other.
IsLast(pages, n) == n = Len(pages)

\* Pages are read until there is no other, there are contacts enough, or too many pages.
ReadPages(pages) ==
    LET last == Min({n \in 1 .. MaxPages : \/ IsLast(pages, n) \/ n = MaxPages
                                           \/ Cardinality(FoundUntil(pages, n)) >= MaxContacts})
    IN [contacts |-> Taken(pages, FoundUntil(pages, last)), every |-> IsLast(pages, last)]

-----------------------------------------------------------------------------
(* Looking it up *)

\* The rows of the active accounts but the asker's; which ones a limit leaves out depends on
\* their names.
Matches(contacts) ==
    LET found == (Range(contacts) \cap here) \ {Asker} IN
    {s \in SUBSET found : Cardinality(s) = IF Cardinality(found) < ReadLimit
                                           THEN Cardinality(found) ELSE ReadLimit}

Shown(rows) ==
    {s \in SUBSET rows : Cardinality(s) = IF Cardinality(rows) < ShownLimit
                                          THEN Cardinality(rows) ELSE ShownLimit}

\* What is answered; the book and the addresses looked up are not sent but kept here to
\* compare.
ResultOf(book, contacts, rows, sent, truncated) ==
    [scanned |-> Len(contacts), count |-> Cardinality(rows), matched |-> sent,
     unmatched |-> IF Len(contacts) < Cardinality(rows) THEN 0
                   ELSE Len(contacts) - Cardinality(rows),
     cut |-> Cardinality(rows) >= ReadLimit, truncated |-> truncated, book |-> book,
     looked |-> Range(contacts)]

AnswerWith(d, result) ==
    /\ request' = [request EXCEPT ![d].at = "answered", ![d].result = result]
    /\ audits' = audits + 1

Refuse(d, code) ==
    /\ request' = [request EXCEPT ![d].at = "answered", ![d].error = code]
    /\ UNCHANGED audits

\* POST /api/me/contacts/import
ServeFile ==
    /\ request["file"].at = "sent"
    /\ LET text == request["file"].book IN
       CASE Texts[text].huge -> Refuse("file", "payload_too_large") /\ UNCHANGED left
         [] ~Texts[text].huge /\ left = 0 -> Refuse("file", "rate_limited") /\ UNCHANGED left
         [] ~Texts[text].huge /\ left > 0 ->
               /\ left' = left - 1
               /\ IF Refusal(text) # "" THEN Refuse("file", Refusal(text))
                  ELSE LET contacts == Parsed(text).contacts IN
                       \E rows \in Matches(contacts) : \E sent \in Shown(rows) :
                           AnswerWith("file", ResultOf(text, contacts, rows, sent, FALSE))
    /\ UNCHANGED <<here, google, screen, moves>>

\* POST /api/me/contacts/google: the budget is charged before the connection is looked at,
\* and a page that fails ends it.
ServeGoogle ==
    /\ request["google"].at = "sent"
    /\ IF left = 0 THEN Refuse("google", "rate_limited") /\ UNCHANGED left
       ELSE /\ left' = left - 1
            /\ \/ \E code \in {"not_connected", "reconnect_required", "scope_missing",
                               "google_unavailable"} : Refuse("google", code)
               \/ LET read == ReadPages(PagedBooks[google]) IN
                  \E rows \in Matches(read.contacts) : \E sent \in Shown(rows) :
                      AnswerWith("google", ResultOf(google, read.contacts, rows, sent, ~read.every))
    /\ UNCHANGED <<here, google, screen, moves>>

\* The budget comes back with time.
Refill ==
    /\ left < Budget /\ moves < MaxMoves
    /\ left' = left + 1 /\ moves' = moves + 1
    /\ UNCHANGED <<here, google, audits, screen, request>>

\* Accounts come and go, and the address book at Google changes.
ComeOrGo(a) ==
    /\ moves < MaxMoves
    /\ here' = IF a \in here THEN here \ {a} ELSE here \cup {a}
    /\ moves' = moves + 1
    /\ UNCHANGED <<google, left, audits, screen, request>>

ChangeBook(book) ==
    /\ moves < MaxMoves /\ book # google
    /\ google' = book /\ moves' = moves + 1
    /\ UNCHANGED <<here, left, audits, screen, request>>

-----------------------------------------------------------------------------
(* The panels *)

FilePanel(new) ==
    /\ screen' = [screen EXCEPT !["file"] = new]
    /\ UNCHANGED <<here, google, left, audits, request>>

\* A file is picked and read in the browser, or none is.
PickFile(text) ==
    /\ moves < MaxMoves /\ moves' = moves + 1
    /\ FilePanel([screen["file"] EXCEPT !.error = "none", !.shown = NoResult, !.named = text,
                                       !.reading = @ \cup {text}])

UnpickFile ==
    /\ screen["file"].named # NoText
    /\ FilePanel([screen["file"] EXCEPT !.error = "none", !.shown = NoResult, !.named = NoText,
                                       !.text = NoText])
    /\ UNCHANGED moves

FileRead(text) ==
    /\ text \in screen["file"].reading
    /\ FilePanel([screen["file"] EXCEPT !.text = text, !.reading = @ \ {text}])
    /\ UNCHANGED moves

\* The text is pasted.
TypeText(text) ==
    /\ moves < MaxMoves /\ moves' = moves + 1
    /\ FilePanel([screen["file"] EXCEPT !.text = text, !.named = NoText])

\* The button: a request leaves; the old answer goes.
AskWhoIsHere(d) ==
    /\ ~screen[d].busy /\ moves < MaxMoves /\ moves' = moves + 1
    /\ d = "file" => screen[d].text # NoText
    /\ screen' = [screen EXCEPT ![d].busy = TRUE, ![d].error = "none", ![d].shown = NoResult]
    /\ request' = [request EXCEPT ![d] = [NoRequest EXCEPT !.at = "sent",
                      !.book = IF d = "file" THEN screen[d].text ELSE "none"]]
    /\ UNCHANGED <<here, google, left, audits>>

\* The answer comes back, or only the news that there is none; a good one empties the form
\* whatever was picked meanwhile.
ComeBack(d) ==
    /\ screen[d].busy
    /\ \/ /\ request[d].at = "answered"
          /\ screen' = [screen EXCEPT ![d] =
                IF request[d].error = "none"
                THEN [@ EXCEPT !.busy = FALSE, !.shown = request[d].result, !.text = NoText,
                               !.named = NoText]
                ELSE [@ EXCEPT !.busy = FALSE, !.error = request[d].error]]
       \/ screen' = [screen EXCEPT ![d].busy = FALSE, ![d].error = "network"]
    /\ request' = [request EXCEPT ![d] = NoRequest]
    /\ UNCHANGED <<here, google, left, audits, moves>>

\* The page is left; nothing of it is kept.
LeavePage ==
    /\ screen # [d \in Doors |-> BlankPanel] /\ moves < MaxMoves /\ moves' = moves + 1
    /\ screen' = [d \in Doors |-> BlankPanel]
    /\ request' = [d \in Doors |-> NoRequest]
    /\ UNCHANGED <<here, google, left, audits>>

ContactNext ==
    \/ ServeFile \/ ServeGoogle \/ Refill
    \/ \E a \in Known : ComeOrGo(a)
    \/ \E book \in DOMAIN PagedBooks : ChangeBook(book)
    \/ \E text \in DOMAIN Texts : PickFile(text) \/ FileRead(text) \/ TypeText(text)
    \/ UnpickFile
    \/ \E d \in Doors : AskWhoIsHere(d) \/ ComeBack(d)
    \/ LeavePage

ContactSpec == ContactInit /\ [][ContactNext]_contactVars

-----------------------------------------------------------------------------
ContactTypeOK ==
    /\ here \subseteq Known
    /\ left \in 0 .. Budget
    /\ \A d \in Doors :
          /\ request[d].at \in {"none", "sent", "answered"}
          /\ screen[d].shown.matched \subseteq Known
          /\ Cardinality(screen[d].shown.matched) <= ShownLimit

\* The addresses of the book that count: all of a card and of a person, of a row the one in
\* the column of addresses, or else the first.
Offered(d, book) ==
    LET rows == Texts[book].rows
        column == EmailColumn(rows)
        First(i) == {k \in DOMAIN rows[i] : \A n \in 1 .. k - 1 : rows[i][n] \notin Known}
        InRow(i) == IF column # {} THEN {Min(column)} \cap DOMAIN rows[i] ELSE First(i)
        Pages == {Range(page) : page \in Range(PagedBooks[book])}
    IN Known \cap CASE d = "google" -> UNION {Range(person) : person \in UNION Pages}
                    [] d = "file" /\ Texts[book].format = "csv" ->
                          UNION {{rows[i][j] : j \in InRow(i)} : i \in DOMAIN rows}
                    [] OTHER -> UNION {Range(row) : row \in Range(rows)}

\* Every page of the book is read, and the last one had more than there was room for: what
\* it leaves out is not told.
Overflows(book) ==
    LET pages == PagedBooks[book]
        InPage(n) == Known \cap UNION {Range(person) : person \in Range(pages[n])}
    IN /\ Len(pages) <= MaxPages
       /\ Cardinality(UNION {{n} \X InPage(n) : n \in DOMAIN pages}) > MaxContacts

\* An answer that is not marked as cut short looked every address of the book up, the overflow
\* of Google's last page excepted, its numbers add up, and it shows nobody who is not in the
\* book.
Whole(d, r) ==
    r # NoResult /\ ~r.truncated =>
        /\ (d = "google" /\ Overflows(r.book)) \/ Offered(d, r.book) \subseteq r.looked
        /\ r.matched \subseteq Offered(d, r.book) \ {Asker}
        /\ r.count + r.unmatched = r.scanned

\* "N of your contacts are here" never means that the rest was dropped
\* (contact-import.ts:25): every answer shown is whole.
AnswersWhole == \A d \in Doors : Whole(d, screen[d].shown)
===============================================================================
