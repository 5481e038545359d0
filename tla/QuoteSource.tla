---------------------------- MODULE QuoteSource ----------------------------
(***************************************************************************)
(* One history request to the Moomoo quote service                          *)
(* (quant/data/moomoo_client.py): pages are asked for with the key the last *)
(* one returned, until there is no key, a key comes back, or the service    *)
(* fails.  Nothing is raised: what was received so far becomes evidence.     *)
(*                                                                         *)
(* A row is the trading day its time key falls on, the code it is for, and  *)
(* the value checks its numbers fail.  The service is external: it may      *)
(* answer every request with any member of Answers.                         *)
(***************************************************************************)
EXTENDS Integers, Sequences, SequencesExt

\* A page of rows and the key of the next page, NoKey for the last one.
CONSTANT NoKey

NoRows == <<>>
Page(rows, next) == [rows |-> rows, next |-> next]
\* The service answers with an error code, with something that is no frame,
\* or not at all: the three ends of a fetch without data.
Refused == [rows |-> NoRows, next |-> "refused"]

\* A fetch under way: the pages received and the key it asks for next.
NewFetch(symbol) == [symbol |-> symbol, pages |-> <<>>, key |-> NoKey, end |-> "open"]

SeenKeys(fetch) == {fetch.pages[i].next : i \in DOMAIN fetch.pages}

\* Mutants: a page key that came back starts the fetch over; a refusal
\* forgets the pages before it.
ReceivedAgain(fetch, answer) ==
    IF answer = Refused THEN [fetch EXCEPT !.end = "error"]
    ELSE IF answer.next \in SeenKeys(fetch) THEN NewFetch(fetch.symbol)
    ELSE [fetch EXCEPT !.pages = Append(@, answer), !.key = answer.next,
                       !.end = IF answer.next = NoKey THEN "complete" ELSE "open"]
ReceivedOrNothing(fetch, answer) ==
    IF answer = Refused THEN [fetch EXCEPT !.end = "error", !.pages = <<>>]
    ELSE [fetch EXCEPT !.pages = Append(@, answer),
                       !.key = answer.next,
                       !.end = IF answer.next = NoKey THEN "complete"
                               ELSE IF answer.next \in SeenKeys(fetch) THEN "error"
                               ELSE "open"]

\* fetch_with_evidence, one turn of its loop.  The page is kept before its
\* next key is looked at.
Received(fetch, answer) ==
    IF answer = Refused THEN [fetch EXCEPT !.end = "error"]
    ELSE [fetch EXCEPT
              !.pages = Append(@, answer),
              !.key = answer.next,
              !.end = IF answer.next = NoKey THEN "complete"
                      ELSE IF answer.next \in SeenKeys(fetch) THEN "error"
                      ELSE "open"]

Rows(pages) == FlattenSeq([i \in DOMAIN pages |-> pages[i].rows])

\* _normalize_pages refuses no rows at all and rows of another symbol.
Normalizable(fetch) ==
    LET rows == Rows(fetch.pages)
    IN  /\ rows # NoRows
        /\ \A i \in DOMAIN rows : rows[i].code = fetch.symbol

Success(fetch) == fetch.end = "complete" /\ Normalizable(fetch)

\* One link per row, from the normalized day back to its page and raw row.
RowLinks(pages) ==
    UNION {{[day |-> pages[p].rows[r].day, page |-> p, row |-> r] : r \in DOMAIN pages[p].rows} :
              p \in DOMAIN pages}

\* The raw evidence of a finished fetch, and the normalized frame: the same
\* rows without their page, or no frame.
RawEvidence(fetch, moment, version) ==
    [kind |-> "raw", symbol |-> fetch.symbol, version |-> version, moment |-> moment,
     status |-> IF Success(fetch) THEN "SUCCESS" ELSE "ERROR",
     pages |-> fetch.pages,
     links |-> IF Success(fetch) THEN RowLinks(fetch.pages) ELSE {}]
Frame(raw) == IF raw.status = "SUCCESS" THEN Rows(raw.pages) ELSE NoRows
=============================================================================
