------------------------------- MODULE Taxonomy -------------------------------
(***************************************************************************)
(* The catalogue's view of raw words: which id of the catalogue a word     *)
(* stands for, what the validators of the API make of a list of words, and *)
(* what the pickers let one choose, over a fragment of the catalogue.      *)
(***************************************************************************)
EXTENDS FiniteSets, Naturals, SequencesExt

CONSTANTS MaxInterests, MaxKeywords     \* the limits of a list

\* The catalogue's interests in their order, and another spelling of one of them.
InterestOrder == <<"climate", "edtech", "fintech">>
InterestIds == Range(InterestOrder)
AliasOf == [Klima |-> "climate"]

\* Words as people write them: with two blanks, with nothing but blanks, longer than a
\* keyword may be.
Words == InterestIds \cup DOMAIN AliasOf
            \cup {"own word", "own  word", "  ", "some very long words", "some very long"}

\* normalizeRaw
Plain(word) ==
    CASE word = "own  word" -> "own word"
      [] word = "  " -> ""
      [] OTHER -> word

TooLong(key) == key = "some very long words"
Cut(key) == IF TooLong(key) THEN "some very long" ELSE key

Unknown == "unknown"

\* normalizeInterest: an id, or the id another spelling stands for.
NormalizeInterest(word) ==
    LET key == Plain(word) IN
    CASE key \in InterestIds -> key
      [] key \in DOMAIN AliasOf -> AliasOf[key]
      [] OTHER -> Unknown

\* The values at some places of a list, in its order: at the i-th place of the result is the
\* one that i - 1 of those places come before.
PlaceAt(places, i) == CHOOSE k \in places : Cardinality({j \in places : j < k}) = i - 1
AtPlaces(list, places) == [i \in 1 .. Cardinality(places) |-> list[PlaceAt(places, i)]]

\* The values that are in a set.
Among(list, S) == AtPlaces(list, {i \in DOMAIN list : list[i] \in S})

\* Each value at its first place only.
Dedupe(list) == AtPlaces(list, {i \in DOMAIN list : \A j \in 1 .. i - 1 : list[j] # list[i]})

FirstOf(list, n) == SubSeq(list, 1, IF n < Len(list) THEN n ELSE Len(list))

-----------------------------------------------------------------------------
(* The API *)

Refused == [ok |-> FALSE, value |-> <<>>]
Accepted(list) == [ok |-> TRUE, value |-> list]

WithinLimit(list, max) == IF Len(list) > max THEN Refused ELSE Accepted(list)

\* One unknown word refuses the list; so does one id too many.
ValidateInterests(list) ==
    LET ids == [i \in DOMAIN list |-> NormalizeInterest(list[i])] IN
    IF Unknown \in Range(ids) THEN Refused ELSE WithinLimit(Dedupe(ids), MaxInterests)

\* Empty words are passed over, a word that is too long refuses the list.
ValidateKeywords(list) ==
    LET plain == [i \in DOMAIN list |-> Plain(list[i])]
        keys == Among(plain, Range(plain) \ {""}) IN
    IF \E key \in Range(keys) : TooLong(key) THEN Refused
    ELSE WithinLimit(Dedupe(keys), MaxKeywords)

-----------------------------------------------------------------------------
(* The pickers *)

\* toggleSelection: a chip chosen is taken back, another is added while there is room.
Toggled(list, id) ==
    CASE id \in Range(list) -> Among(list, Range(list) \ {id})
      [] id \notin Range(list) /\ Len(list) < MaxInterests -> Append(list, id)
      [] OTHER -> list

\* addKeyword trims and lowers the word, and leaves blanks inside of it as they are.
WithKeyword(list, word) ==
    IF word = "  " \/ TooLong(word) \/ word \in Range(list) \/ Len(list) >= MaxKeywords
    THEN list ELSE Append(list, word)
===============================================================================
