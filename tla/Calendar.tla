------------------------------- MODULE Calendar -------------------------------
(****************************************************************************)
(* NSECalendar and its sources: the bundled JSON files, and the exchange's  *)
(* published calendar, fetched once per process and kept in a file with a   *)
(* time to live.                                                            *)
(*                                                                          *)
(* Abstractions.                                                            *)
(*  - An instant is one of the slots of a day; it stands for all the times  *)
(*    in it, at which the calendar answers the same.                        *)
(*  - The clock of the broker is the clock of the file system, by which the *)
(*    file ages.                                                            *)
(*  - The file is written by os.replace: it holds all rows of one answer.   *)
(*    The bundled files can be read.                                        *)
(****************************************************************************)
EXTENDS Integers

CONSTANTS
  LastDay,      \* bound: the last day explored
  Weekdays,     \* Mondays to Fridays
  Bundled,      \* dates in the nse_holidays_*.json files
  Published,    \* the sets of dates that the API may answer
  CacheTTL      \* ttl_seconds of UpstoxHolidayProvider, in slots

VARIABLES
  now,          \* the clock
  holidays,     \* NSECalendar._holidays of the running process
  file          \* the cache file; its age is counted up to CacheTTL + 1

calendarVars == <<now, holidays, file>>

Slots == <<"night", "pre_open", "gap", "regular", "post_close", "evening">>
Instants == 0..(6 * LastDay + 5)
DayOf(t) == t \div 6
SlotOf(t) == Slots[(t % 6) + 1]
Days == 0..LastDay
OpenSlot == 3           \* NSE_OPEN, as an offset in the day

NoFile == [age |-> -1]

ASSUME CalendarAssumption ==
  /\ LastDay \in Nat /\ CacheTTL \in Nat
  /\ Weekdays \subseteq Days /\ Bundled \subseteq Days
  /\ Published \subseteq SUBSET Days

-----------------------------------------------------------------------------
(* Queries *)

IsTradingDay(d) == d \in Weekdays /\ d \notin holidays

\* current_phase
PhaseAt(t) ==
  IF IsTradingDay(DayOf(t)) /\ SlotOf(t) \in {"pre_open", "regular", "post_close"}
  THEN SlotOf(t) ELSE "closed"

\* is_market_open
Open(t) == PhaseAt(t) = "regular"

\* Mutant of FirstCandidate: after the close instead of after the open.
FirstAfterClose(t) ==
  IF t % 6 > OpenSlot THEN DayOf(t) + 1 ELSE DayOf(t)

\* Where next_open begins to look: today, unless the open has passed.
FirstCandidate(t) ==
  IF t % 6 >= OpenSlot THEN DayOf(t) + 1 ELSE DayOf(t)

\* next_open: the walk ends at the first trading day, or gives up after Steps.
Steps == 20
NextOpen(t) ==
  LET walked == FirstCandidate(t)..(FirstCandidate(t) + Steps - 1)
      found == {d \in walked : IsTradingDay(d)}
      day == IF found = {} THEN FirstCandidate(t) + Steps
             ELSE CHOOSE d \in found : \A e \in found : d <= e
  IN  6 * day + OpenSlot

\* No calendar that loading can produce is closed for as long as the walk.
NoLongClosure ==
  \A rows \in Published \cup {{}} : \A d \in 0..(LastDay + 1 - Steps) :
    \E e \in d..(d + Steps - 1) : e \in Weekdays \ (Bundled \cup rows)

-----------------------------------------------------------------------------
(* Loading *)

\* _read_cache finds a file within its time to live.
Cached == file # NoFile /\ file.age <= CacheTTL

\* What a stale file, or none, still gives when the API cannot be reached.
Remembered == IF file = NoFile THEN {} ELSE file.rows

\* NSECalendar(holiday_provider=...): the bundled dates, and those of the file,
\* of the API, whose answer may fail to be written, or of the stale file.
Build ==
  \/ /\ Cached
     /\ holidays' = Bundled \cup file.rows
     /\ UNCHANGED file
  \/ /\ ~Cached
     /\ \E rows \in Published :
          /\ holidays' = Bundled \cup rows
          /\ file' \in {[rows |-> rows, age |-> 0], file}
  \/ /\ ~Cached
     /\ holidays' = Bundled \cup Remembered
     /\ UNCHANGED file

\* reload: the bundled files are read again, and nothing else.
Reload ==
  /\ holidays' = Bundled
  /\ UNCHANGED file

\* A slot passes.
Later ==
  /\ now' = now + 1
  /\ file' = IF file = NoFile \/ file.age > CacheTTL THEN file
             ELSE [file EXCEPT !.age = @ + 1]
  /\ UNCHANGED holidays

CalendarInit ==
  /\ now = 0 /\ file = NoFile
  /\ holidays \in {Bundled \cup rows : rows \in Published \cup {{}}}
=============================================================================
