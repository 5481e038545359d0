----------------------------- MODULE BarQuality -----------------------------
(***************************************************************************)
(* The data-quality verdict on one candidate's bars (data/validation.py and  *)
(* universe/validation.py) and the universe selected from the verdicts       *)
(* (universe/selection.py).  A frame is a sequence of rows; a row's flaws    *)
(* are the codes of the value checks its numbers fail.                       *)
(***************************************************************************)
EXTENDS Integers, Sequences, FiniteSets, SequencesExt

CONSTANTS Sessions,    \* the XNYS sessions of the campaign window
          Slots,       \* EXPOSURE_SLOTS: a sequence of sequences of symbols
          MinUniverse, \* MIN_UNIVERSE_SIZE
          MaxUniverse  \* MAX_UNIVERSE_SIZE

ASSUME BarQualityAssumption ==
    Slots \in Seq(Seq(UNION {ToSet(Slots[s]) : s \in DOMAIN Slots}))

Days(frame) == {frame[i].day : i \in DOMAIN frame}
MissingDays(frame) == Sessions \ Days(frame)
UnexpectedDays(frame) == Days(frame) \ Sessions

\* BarDataValidator.validate.  A normalized frame has all its columns and a
\* UTC index, which leaves these checks.
HasDuplicates(frame) == \E i, j \in DOMAIN frame : i # j /\ frame[i].day = frame[j].day
Increasing(frame) == \A i, j \in DOMAIN frame : i < j => frame[i].day <= frame[j].day
Flags(code, raised) == IF raised THEN {code} ELSE {}
\* Mutant: the number of rows and the set of days are compared instead.
IssuesOfCount(frame) ==
    (UNION {frame[i].flaws : i \in DOMAIN frame})
    \cup Flags("NON_MONOTONIC_TIMESTAMP", ~Increasing(frame))
    \cup Flags("MISSING_SESSION", Len(frame) < Cardinality(Sessions))
    \cup Flags("UNEXPECTED_SESSION", UnexpectedDays(frame) # {})

FrameIssues(frame) ==
    (UNION {frame[i].flaws : i \in DOMAIN frame})
    \cup Flags("DUPLICATE_TIMESTAMP", HasDuplicates(frame))
    \cup Flags("NON_MONOTONIC_TIMESTAMP", ~Increasing(frame))
    \cup Flags("MISSING_SESSION", MissingDays(frame) # {})
    \cup Flags("UNEXPECTED_SESSION", UnexpectedDays(frame) # {})

-----------------------------------------------------------------------------
\* The diagnostics of single sessions: links in order of day, page and row.
LinkBefore(a, b) ==
    \/ a.day < b.day
    \/ a.day = b.day /\ a.page < b.page
    \/ a.day = b.day /\ a.page = b.page /\ a.row < b.row
NoLink == [day |-> 0, page |-> 0, row |-> 0]
FirstLink(links) == IF links = {} THEN NoLink
                    ELSE CHOOSE a \in links : \A b \in links \ {a} : LinkBefore(a, b)
LastLink(links) == IF links = {} THEN NoLink
                   ELSE CHOOSE a \in links : \A b \in links \ {a} : LinkBefore(b, a)

CalendarState(day, open, calendar) ==
    IF calendar.status # "SUCCESS" THEN "UNAVAILABLE"
    ELSE IF (day \in calendar.open) # open THEN "DISAGREE"
    ELSE IF open THEN "AGREE_OPEN" ELSE "AGREE_CLOSED"

\* A missing session stands between the last link before it and the first
\* one after it; an unexpected session has one diagnostic for each of its
\* rows, between that row's neighbours.
MissingDiagnostics(links, missing, calendar) ==
    {[day |-> day, raw |-> NoLink,
      preceding |-> LastLink({a \in links : a.day < day}),
      following |-> FirstLink({a \in links : a.day > day}),
      calendar |-> CalendarState(day, TRUE, calendar)] : day \in missing}
UnexpectedDiagnostics(links, unexpected, calendar) ==
    {[day |-> link.day, raw |-> link,
      preceding |-> LastLink({a \in links : LinkBefore(a, link)}),
      following |-> FirstLink({a \in links : LinkBefore(link, a)}),
      calendar |-> CalendarState(link.day, FALSE, calendar)] :
        link \in {a \in links : a.day \in unexpected}}

\* Phase3DQValidator.assess: issues decide the status, the calendar of the
\* provider decides nothing.
Issues(raw, frame, stored) ==
    IF raw.status # "SUCCESS" THEN {"PROVIDER_ERROR"}
    ELSE FrameIssues(frame) \cup Flags("MISSING_NORMALIZED_ARTIFACT", ~stored)
Assess(raw, frame, stored, calendar) ==
    LET issues == Issues(raw, frame, stored)
        of(days) == IF raw.status = "SUCCESS" THEN days ELSE {}
    IN  [status |-> IF issues = {} THEN "PASS" ELSE "FAIL",
         issues |-> issues,
         missing |-> MissingDiagnostics(raw.links, of(MissingDays(frame)), calendar),
         unexpected |-> UnexpectedDiagnostics(raw.links, of(UnexpectedDays(frame)), calendar)]

-----------------------------------------------------------------------------
\* select_universe: the first clean candidate of each slot, in slot order,
\* until MaxUniverse are chosen.
FirstClean(slot, passing) ==
    LET clean == {i \in DOMAIN slot : slot[i] \in passing}
    IN  IF clean = {} THEN <<>> ELSE <<slot[CHOOSE i \in clean : \A j \in clean : i <= j]>>
Selected(passing) ==
    LET chosen[k \in 0..Len(Slots)] ==
            IF k = 0 THEN <<>>
            ELSE IF Len(chosen[k - 1]) >= MaxUniverse THEN chosen[k - 1]
            ELSE chosen[k - 1] \o FirstClean(Slots[k], passing)
    IN  chosen[Len(Slots)]
Admitted(selected) == Len(selected) >= MinUniverse
=============================================================================
