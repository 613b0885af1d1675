------------------------------ MODULE Palette ------------------------------
(***************************************************************************)
(* The search palette (web/src/desktop/SearchPalette.tsx): a query, the    *)
(* rows on the screen, a highlighted row, and the searches that are due or *)
(* on their way.  A search is debounced, and is called off when the query  *)
(* or the map changes or the palette closes; one that has been sent by     *)
(* then is answered all the same, in any order.                            *)
(***************************************************************************)
EXTENDS Selection

CONSTANTS Query, NoText, Matching   \* Matching[q]: the nodes a search for q finds

ASSUME PaletteAssumption == NoText \in Query /\ Matching \in [Query -> Seq(Node)]

VARIABLES
    paletteOpen,
    q, rows, cursor,
    searches,    \* searches due or sent: [q, at, cancelled]
    searched,    \* the query and the map the last search was begun for
    searchLost   \* the last search failed, and the rows were left

palette == <<paletteOpen, q, rows, cursor, searches, searched, searchLost>>

\* What is on the screen: the rows, the query they answer, and the maps each
\* node was on when they were fetched.
NoRows == [of |-> Nil, hits |-> <<>>, on |-> {}]
Found(text) == [of |-> text, hits |-> Matching[text], on |-> where]

\* The cleanup of the search effect: the timer goes, an answer will be ignored.
\* Mutant of CalledOff: the timer goes, and that is all.
TimersOff(ss) == {s \in ss : s.at = "flight"}
CalledOff(ss) == {[s EXCEPT !.cancelled = TRUE] : s \in {t \in ss : t.at = "flight"}}

SetPalette(v) ==
    IF v = paletteOpen THEN UNCHANGED palette
    ELSE /\ paletteOpen' = v
         /\ searches' = CalledOff(searches)
         /\ searched' = <<Nil, Nil>>
         /\ searchLost' = FALSE
         /\ q' = NoText /\ cursor' = 0 /\ rows' = NoRows

SearchDue == paletteOpen /\ mapId # Nil /\ searched # <<q, mapId>>

\* The search effect.
SearchEffect ==
    /\ SearchDue
    /\ searches' = CalledOff(searches) \cup {[q |-> q, at |-> "timer", cancelled |-> FALSE]}
    /\ searched' = <<q, mapId>>
    /\ searchLost' = FALSE
    /\ UNCHANGED <<paletteOpen, q, rows, cursor>>

Type(text) ==
    /\ paletteOpen /\ text # q
    /\ q' = text
    /\ UNCHANGED <<paletteOpen, rows, cursor, searches, searched, searchLost>>

\* ArrowUp, ArrowDown, and the mouse over a row.
Highlight ==
    /\ paletteOpen
    /\ \/ cursor' = IF cursor + 1 < Len(rows.hits) THEN cursor + 1 ELSE Len(rows.hits) - 1
       \/ cursor' = IF cursor > 0 THEN cursor - 1 ELSE 0
       \/ \E i \in DOMAIN rows.hits : cursor' = i - 1
    /\ cursor' # cursor
    /\ UNCHANGED <<paletteOpen, q, rows, searches, searched, searchLost>>

SearchSent(s) ==
    /\ s.at = "timer"
    /\ searches' = (searches \ {s}) \cup {[s EXCEPT !.at = "flight"]}
    /\ UNCHANGED <<paletteOpen, q, rows, cursor, searched, searchLost>>

SearchAnswered(s) ==
    /\ s.at = "flight"
    /\ searches' = searches \ {s}
    /\ IF s.cancelled THEN UNCHANGED <<rows, cursor>> ELSE rows' = Found(s.q) /\ cursor' = 0
    /\ UNCHANGED <<paletteOpen, q, searched, searchLost>>

SearchFails(s) ==
    /\ s.at = "flight"
    /\ searches' = searches \ {s}
    /\ searchLost' = (searchLost \/ ~s.cancelled)
    /\ UNCHANGED <<paletteOpen, q, rows, cursor, searched>>

Row == IF paletteOpen /\ cursor + 1 \in DOMAIN rows.hits THEN {rows.hits[cursor + 1]} ELSE {}

\* The map to open for a node that is not on this one, as the row says.
HomesOf(n) == {m \in Map : <<m, n>> \in rows.on /\ m # mapId}

-----------------------------------------------------------------------------
\* The row Enter goes to answers what is typed: rows of another query are on
\* the screen only while the search for this one is on its way, or has failed;
\* no row is left from before the palette was opened, no answer that was
\* overtaken by another replaces its rows, and the highlight is on a row.
RowsAnswerTheQuery ==
    paletteOpen =>
        /\ \/ rows.of = q \/ SearchDue \/ searchLost \/ mapId = Nil
           \/ \E s \in searches : s.q = q /\ ~s.cancelled
        /\ rows.hits # <<>> => cursor + 1 \in DOMAIN rows.hits
=============================================================================
