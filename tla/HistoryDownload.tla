-------------------------- MODULE HistoryDownload --------------------------
(***************************************************************************)
(* data_history_downloader: the script that fetches the history, a file    *)
(* per symbol and year, from a request per day; and load_history, which    *)
(* the server reads the files with, while the script runs or after.        *)
(*                                                                         *)
(* Abstractions.  A file is the set of the days whose candles it holds.    *)
(* The two requests of a day, bid and ask, are one, and a day without      *)
(* candles (a payload of no byte, a 404) is one the source never           *)
(* publishes.  The requests of a year run together, but only the loop that *)
(* awaits them, day after day, uses their results: a day's attempts are    *)
(* shown when it awaits the day.  The pauses between attempts are not      *)
(* timed.  The range of years asked for is always 1..NumYears: a year to   *)
(* come has no day before today.                                           *)
(***************************************************************************)
EXTENDS Integers, FiniteSets, FiniteSetsExt

CONSTANTS
  NumSymbols, NumYears, DaysPerYear,
  Retries,       \* attempts after the first: 5 in the code
  Coverages,     \* the days each symbol has candles on: the sources considered
  Dates,         \* the days on which something happens
  MaxScripts,    \* bound: times the script is launched
  MaxFaults      \* bound: requests that fail, and crashes

Symbols == 1..NumSymbols
Years   == 1..NumYears
Days    == 1..(NumYears * DaysPerYear)

ASSUME DownloadAssumption ==
  /\ {NumSymbols, NumYears, DaysPerYear} \subseteq Nat \ {0}
  /\ {Retries, MaxScripts, MaxFaults} \subseteq Nat
  /\ Coverages \subseteq [Symbols -> SUBSET Days \ {{}}]
  /\ Dates # {} /\ Dates \subseteq Days \cup {NumYears * DaysPerYear + 1}

VARIABLES
  today,       \* date.today()
  published,   \* the source: the days each symbol has candles on
  files,       \* the Parquet files, by symbol and year
  script,      \* the running script, and how far it is
  launched,    \* scripts launched
  faults       \* faults so far

downloadVars == <<today, published, files, script, launched, faults>>

YearOf(day) == (day - 1) \div DaysPerYear + 1
DaysOf(year) == {d \in Days : YearOf(d) = year}

\* A file, its days, and the day it was fetched on (history).
Absent     == [state |-> "absent", days |-> {}, asOf |-> 0]
Unreadable == [state |-> "unreadable", days |-> {}, asOf |-> 0]
Written(days, asOf) == [state |-> "written", days |-> days, asOf |-> asOf]
File == [state : {"absent", "unreadable", "written"}, days : SUBSET Days,
         asOf : Dates \cup {0}]

\* The script: the days of the year it still awaits, the attempts of the first of
\* them that failed, the days that came with candles.
NoScript == [pc |-> "none", force |-> FALSE, current |-> 0, symbol |-> 1, year |-> 1,
             asOf |-> 0, days |-> {}, attempt |-> 0, got |-> {}]

\* The script once done with a year, whatever became of it.
Advance(s) ==
  LET next == [NoScript EXCEPT !.pc = "year", !.force = s.force, !.current = s.current,
                               !.symbol = s.symbol, !.year = s.year]
  IN IF s.year < NumYears THEN [next EXCEPT !.year = @ + 1]
     ELSE IF s.symbol < NumSymbols THEN [next EXCEPT !.year = 1, !.symbol = @ + 1]
     ELSE NoScript

Done(s, day) == [s EXCEPT !.days = @ \ {day}, !.attempt = 0]
Answered(s, day) ==
  [Done(s, day) EXCEPT !.got = IF day \in published[s.symbol] THEN @ \cup {day} ELSE @]

\* The last attempt of a day has failed too: the year is lost, not the day.
Missed(s, day)  == Done(s, day)               \* mutant: only the day
GivenUp(s, day) == Advance(s)

NextFile(s) == files[s.symbol][s.year]

DownloadInit ==
  /\ today \in Dates
  /\ published \in Coverages
  /\ files = [s \in Symbols |-> [y \in Years |-> Absent]]
  /\ script = NoScript
  /\ launched = 0
  /\ faults = 0

Time ==
  /\ \E d \in Dates : d > today /\ today' = d
  /\ UNCHANGED <<published, files, script, launched, faults>>

Launch(force) ==
  /\ script.pc = "none"
  /\ launched < MaxScripts
  /\ launched' = launched + 1
  /\ script' = [NoScript EXCEPT !.pc = "year", !.force = force, !.current = YearOf(today)]
  /\ UNCHANGED <<today, published, files, faults>>

Exists(s) == NextFile(s).state # "absent"
Skip ==
  /\ script.pc = "year"
  /\ Exists(script) /\ ~script.force /\ script.year # script.current
  /\ script' = Advance(script)
  /\ UNCHANGED <<today, published, files, launched, faults>>

\* download_year: a task for every day of the year that is over.
DownloadYear ==
  /\ script.pc = "year"
  /\ ~Exists(script) \/ script.force \/ script.year = script.current
  /\ script' = [script EXCEPT !.pc = "fetch", !.asOf = today,
                            !.days = {d \in DaysOf(script.year) : d < today}]
  /\ UNCHANGED <<today, published, files, launched, faults>>

Awaiting == script.pc = "fetch" /\ script.days # {}

Answer ==
  /\ Awaiting
  /\ script' = Answered(script, Min(script.days))
  /\ UNCHANGED <<today, published, files, launched, faults>>

\* The network, a 429 or an error of the server: another attempt, or the end.
Retry ==
  /\ Awaiting
  /\ script.attempt < Retries
  /\ faults < MaxFaults
  /\ faults' = faults + 1
  /\ script' = [script EXCEPT !.attempt = @ + 1]
  /\ UNCHANGED <<today, published, files, launched>>

GiveUp ==
  /\ Awaiting
  /\ script.attempt = Retries
  /\ faults < MaxFaults
  /\ faults' = faults + 1
  /\ script' = GivenUp(script, Min(script.days))
  /\ UNCHANGED <<today, published, files, launched>>

\* to_parquet: the file is there, not whole, until it is written.
OpenFile ==
  /\ script.pc = "fetch" /\ script.days = {}
  /\ \/ /\ script.got = {}
        /\ script' = Advance(script)
        /\ UNCHANGED files
     \/ /\ script.got # {}
        /\ script' = [script EXCEPT !.pc = "write"]
        /\ files' = [files EXCEPT ![script.symbol][script.year] = Unreadable]
  /\ UNCHANGED <<today, published, launched, faults>>

CloseFile ==
  /\ script.pc = "write"
  /\ files' = [files EXCEPT ![script.symbol][script.year] =
                 Written(script.got, script.asOf)]
  /\ script' = Advance(script)
  /\ UNCHANGED <<today, published, launched, faults>>

\* The script is interrupted, at any point.
Crash ==
  /\ script.pc # "none"
  /\ faults < MaxFaults
  /\ faults' = faults + 1
  /\ script' = NoScript
  /\ UNCHANGED <<today, published, files, launched>>

\* The user deletes an unreadable file, as the error of load_history says to.
DeleteFile(s, y) ==
  /\ script.pc = "none"
  /\ files[s][y].state = "unreadable"
  /\ files' = [files EXCEPT ![s][y] = Absent]
  /\ UNCHANGED <<today, published, script, launched, faults>>

DownloadNext ==
  \/ Time
  \/ \E force \in BOOLEAN : Launch(force)
  \/ Skip
  \/ DownloadYear
  \/ Answer
  \/ Retry
  \/ GiveUp
  \/ OpenFile
  \/ CloseFile
  \/ Crash
  \/ \E s \in Symbols, y \in Years : DeleteFile(s, y)

-----------------------------------------------------------------------------
\* load_history: the bars of every file of the symbol, or an error.
Loadable(s) ==
  /\ \E y \in Years : files[s][y].state # "absent"
  /\ \A y \in Years : files[s][y].state # "unreadable"
LoadHistory(s) == UNION {files[s][y].days : y \in Years}

-----------------------------------------------------------------------------
\* A file holds every day that was over when its year was fetched and that the
\* source has: a request that fails until its last attempt loses the year, which
\* the next script fetches again, and never leaves a hole in it.
NoHoles ==
  \A s \in Symbols, y \in Years :
    files[s][y].state = "written" =>
      files[s][y].days = {d \in published[s] \cap DaysOf(y) : d < files[s][y].asOf}

\* A past year that a script is about to skip is whole on the disk ("the year in
\* progress is always downloaded again", "running the script again takes only
\* the missing years"). The code does not keep it: a year fetched while it was in
\* progress is there, incomplete, and from the next year on it is skipped; so is
\* a year whose file the script was interrupted in.
SkippedIsWhole ==
  (/\ script.pc = "year" /\ Exists(script) /\ ~script.force
   /\ script.year < script.current) =>
    NextFile(script).days = published[script.symbol] \cap DaysOf(script.year)
=============================================================================
