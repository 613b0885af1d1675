------------------------------- MODULE Search -------------------------------
(***************************************************************************)
(* What a typed query means (search.ts): a leading marker asks for a type, *)
(* and the rest is split into terms that must all be found.  A text is a   *)
(* sequence of characters.                                                 *)
(***************************************************************************)
EXTENDS Ibis, Sequences, SequencesExt, FiniteSetsExt

CONSTANT MaxTerms

ASSUME MaxTermsAssumption == MaxTerms \in Nat \ {0}

TypePrefix ==
    [c \in {"?", "!", "+", "-", "."} |->
        CASE c = "?" -> "question" [] c = "!" -> "idea" [] c = "+" -> "pro"
          [] c = "-" -> "con" [] c = "." -> "note"]

AnyType == "any"

TrimStart(s) ==
    LET ink == {i \in DOMAIN s : s[i] # " "}
    IN IF ink = {} THEN <<>> ELSE SubSeq(s, Min(ink), Len(s))

Trim(s) == Reverse(TrimStart(Reverse(TrimStart(s))))

\* The term under way ends; a blank or repeated one is not kept, nor is one
\* past the cap.
Push(r) ==
    LET t == Trim(r.current)
    IN [r EXCEPT !.current = <<>>,
                 !.terms = IF t = <<>> \/ t \in Range(@) \/ Len(@) = MaxTerms THEN @
                           ELSE Append(@, t)]

ReadChar(r, ch) ==
    IF ch = "\"" THEN [(IF r.quoted THEN Push(r) ELSE r) EXCEPT !.quoted = ~@]
    ELSE IF ch = " " /\ ~r.quoted THEN Push(r)
    ELSE [r EXCEPT !.current = Append(@, ch)]

ParseTerms(query) ==
    Push(FoldLeft(ReadChar, [terms |-> <<>>, current |-> <<>>, quoted |-> FALSE],
                  query)).terms

\* A marker counts only as the first character of the whole query.
ParseQuery(query) ==
    LET lead   == TrimStart(query)
        marked == lead # <<>> /\ lead[1] \in DOMAIN TypePrefix
    IN [type  |-> IF marked THEN TypePrefix[lead[1]] ELSE AnyType,
        terms |-> ParseTerms(IF marked THEN Tail(lead) ELSE query)]

Includes(text, term) ==
    \E i \in 0..(Len(text) - Len(term)) : SubSeq(text, i + 1, i + Len(term)) = term

\* Mutant of MatchesTerms: one of the terms is enough.
MatchesSomeTerm(text, terms) ==
    terms = <<>> \/ \E t \in Range(terms) : Includes(text, t)

MatchesTerms(text, terms) == \A t \in Range(terms) : Includes(text, t)
=============================================================================
