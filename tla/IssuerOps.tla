----------------------------- MODULE IssuerOps -----------------------------
(***************************************************************************)
(* The commands of the issuer that write files: services/issuer/ops.js,    *)
(* ofac-sync.js and issue.js over lib/ofac.js.  A command is the sequence  *)
(* of its steps.  A file is truncated when it is opened and whole when it  *)
(* is closed; a command that stops in between (a full disk, a kill) leaves *)
(* it cut.                                                                 *)
(*                                                                         *)
(* A name is a word in some spelling; Blank is the word of a name without  *)
(* Latin letters or digits.  The roster is fixed, so the roots follow from *)
(* the users the lists match.                                              *)
(***************************************************************************)
EXTENDS Naturals, Sequences

CONSTANTS
  Workers,          \* processes that run one command at a time
  Commands,         \* the commands they run
  Names,            \* names as they are written, records [word, spelling]
  Blank,
  Lists,            \* what the Treasury publishes: sequences of names
  Roster,           \* the legal name of every user
  AltNames,         \* alt.csv, empty when there is none
  SampleSize,
  MaxAge,           \* maxAgeHours
  MaxTime,
  MaxFaults,        \* commands that stop in the middle
  Missing,          \* no file, no time
  Cut               \* a JSON file that ends early

ASSUME OpsAssumption ==
  /\ SampleSize \in Nat /\ MaxAge \in Nat /\ MaxTime \in Nat /\ MaxFaults \in Nat
  /\ Lists \subseteq Seq(Names) /\ AltNames \subseteq Names
  /\ \A u \in DOMAIN Roster : Roster[u] \in Names
  /\ Missing \notin [rows : Seq(Names), cut : BOOLEAN]

VARIABLES
  opsNow, faults,
  treasury,         \* the list that can be fetched
  sdn, sample,      \* sdn.csv and sample-sdn.csv: [rows, cut]
  issuance,         \* out/issuance.json: [matched, at, mtime]
  report,           \* out/rotation-report.json: [previous, current]
  status,           \* out/ops-status.json: whether the roots were stale
  jobs              \* the command of a worker

files   == <<sdn, sample, issuance, report, status>>
opsVars == <<opsNow, faults, treasury, files, jobs>>

RosterUsers == DOMAIN Roster

-----------------------------------------------------------------------------
(* lib/ofac.js                                                             *)

NormalizeName(name) == name.word

\* A row with a column too few throws.
Parses(content) == ~content.cut

\* Faulty: a name without Latin letters is indexed too.
ScreeningIndexFaulty(names) == {NormalizeName(n) : n \in names}

\* buildScreeningIndex over both lists.
ScreeningIndex(names) == {NormalizeName(n) : n \in names} \ {Blank}

ScreenRoster(names) == {u \in RosterUsers : NormalizeName(Roster[u]) \in ScreeningIndex(names)}

First(rows) == SubSeq(rows, 1, IF Len(rows) < SampleSize THEN Len(rows) ELSE SampleSize)

RowsOf(list) == {list[k] : k \in DOMAIN list}

-----------------------------------------------------------------------------
SyncSteps   == <<"fetch", "sdn", "sample">>
RotateSteps == <<"previous", "build", "issuance", "report">>

\* runOnce; --sync and --no-rotate are flags.
Ops(sync, rotate) ==
  (IF sync THEN SyncSteps ELSE <<>>) \o (IF rotate THEN RotateSteps ELSE <<>>) \o <<"status">>

OfacSync == SyncSteps

\* main of issue.js.
Issue == <<"build", "issuance">>

ASSUME CommandsAssumption ==
  Commands \subseteq {Ops(sync, rotate) : sync \in BOOLEAN, rotate \in BOOLEAN} \cup {OfacSync, Issue}

NoJob == [command |-> <<>>, todo |-> <<>>, state |-> "idle", writing |-> FALSE, text |-> <<>>,
          start |-> 0, source |-> "none", rows |-> <<>>, matched |-> {}, previous |-> Missing]

CommandRuns(w) == jobs[w].state = "running"
JobAt(w, step) == CommandRuns(w) /\ Head(jobs[w].todo) = step

\* The next step of the command, with what this one computed.
NextStep(w, j) ==
  jobs' = [jobs EXCEPT ![w] = [j EXCEPT !.todo = Tail(@), !.writing = FALSE,
                                      !.state = IF Len(j.todo) = 1 THEN "done" ELSE "running"]]

ThrowCommand(w) == jobs' = [jobs EXCEPT ![w].state = "threw"]

OpsInit ==
  /\ opsNow = 0 /\ faults = 0
  /\ treasury \in Lists
  /\ sdn = Missing
  /\ \E list \in Lists \ {<<>>} : sample = [rows |-> First(list), cut |-> FALSE]
  /\ issuance = Missing /\ report = Missing /\ status = Missing
  /\ jobs = [w \in Workers |-> NoJob]

BeginCommand(w, command) ==
  /\ ~CommandRuns(w)
  /\ jobs' = [jobs EXCEPT ![w] = [NoJob EXCEPT !.command = command, !.todo = command,
                                             !.state = "running", !.start = opsNow]]
  /\ UNCHANGED <<opsNow, faults, treasury, files>>

\* Faulty: an empty answer is a list like any other.
FetchFaulty(w) ==
  /\ JobAt(w, "fetch")
  /\ NextStep(w, [jobs[w] EXCEPT !.text = treasury])
  /\ UNCHANGED <<opsNow, faults, treasury, files>>

\* syncOfac: the answer is parsed, and refused when it is empty.
Fetch(w) ==
  /\ JobAt(w, "fetch")
  /\ IF treasury = <<>> THEN ThrowCommand(w) ELSE NextStep(w, [jobs[w] EXCEPT !.text = treasury])
  /\ UNCHANGED <<opsNow, faults, treasury, files>>

\* Faulty: runOnce goes on with the rotation.
FetchFailsFaulty(w) ==
  /\ JobAt(w, "fetch")
  /\ Len(jobs[w].todo) > 3
  /\ jobs' = [jobs EXCEPT ![w].todo = SubSeq(@, 4, Len(@)), ![w].text = treasury]
  /\ UNCHANGED <<opsNow, faults, treasury, files>>

\* No answer, one that is not ok, or one with a row that does not parse.
FetchFails(w) ==
  /\ JobAt(w, "fetch")
  /\ ThrowCommand(w)
  /\ UNCHANGED <<opsNow, faults, treasury, files>>

\* rotateRoots reads the issuance that it is about to replace.
ReadPrevious(w) ==
  /\ JobAt(w, "previous")
  /\ IF issuance = Cut THEN ThrowCommand(w)
     ELSE NextStep(w, [jobs[w] EXCEPT
            !.start = opsNow,
            !.previous = IF issuance = Missing THEN Missing ELSE issuance.matched])
  /\ UNCHANGED <<opsNow, faults, treasury, files>>

\* loadOfacData takes the sample when there is no sdn.csv.
SourceFile == IF sdn # Missing THEN [name |-> "sdn", content |-> sdn]
              ELSE [name |-> "sample", content |-> sample]

\* buildIssuance.
BuildJob(w) ==
  /\ JobAt(w, "build")
  /\ IF Parses(SourceFile.content)
     THEN NextStep(w, [jobs[w] EXCEPT
            !.source = SourceFile.name,
            !.rows = SourceFile.content.rows,
            !.matched = ScreenRoster(RowsOf(SourceFile.content.rows) \cup AltNames)])
     ELSE ThrowCommand(w)
  /\ UNCHANGED <<opsNow, faults, treasury, files>>

\* The issuance of issue.js has no generated_at.
Issued(j) == [matched |-> j.matched, mtime |-> opsNow,
              at |-> IF j.command = Issue THEN Missing ELSE j.start]

\* rootStaleness.
RootStaleness(i) ==
  IF i = Missing THEN TRUE
  ELSE opsNow > MaxAge + (IF i.at # Missing THEN i.at ELSE i.mtime)

\* What is seen of a list between opening and closing its file.
Partial(rows) ==
  {[rows |-> SubSeq(rows, 1, k), cut |-> half] :
     k \in 0 .. Len(rows) - 1, half \in BOOLEAN}

Opening(w, step) == JobAt(w, step) /\ ~jobs[w].writing /\ jobs' = [jobs EXCEPT ![w].writing = TRUE]
Closing(w, step) == JobAt(w, step) /\ jobs[w].writing /\ NextStep(w, jobs[w])

\* syncOfac writes the list, then its first rows as the sample.
WriteList(w) ==
  /\ \/ /\ Opening(w, "sdn") /\ sdn' \in Partial(jobs[w].text) /\ UNCHANGED sample
     \/ /\ Closing(w, "sdn")
        /\ sdn' = [rows |-> jobs[w].text, cut |-> FALSE]
        /\ UNCHANGED sample
     \/ /\ Opening(w, "sample") /\ sample' \in Partial(First(jobs[w].text)) /\ UNCHANGED sdn
     \/ /\ Closing(w, "sample")
        /\ sample' = [rows |-> First(jobs[w].text), cut |-> FALSE]
        /\ UNCHANGED sdn
  /\ UNCHANGED <<opsNow, faults, treasury, issuance, report, status>>

\* rotateRoots and issue.js write the issuance.
WriteIssuance(w) ==
  /\ \/ Opening(w, "issuance") /\ issuance' = Cut
     \/ Closing(w, "issuance") /\ issuance' = Issued(jobs[w])
  /\ UNCHANGED <<opsNow, faults, treasury, sdn, sample, report, status>>

\* Nothing reads the report or the status, so that each is written at once.
WriteReport(w) ==
  /\ JobAt(w, "report")
  /\ report' = [previous |-> jobs[w].previous, current |-> jobs[w].matched]
  /\ NextStep(w, jobs[w])
  /\ UNCHANGED <<opsNow, faults, treasury, sdn, sample, issuance, status>>

\* runOnce ends with the staleness of the file, which main exits with.
WriteStatus(w) ==
  /\ JobAt(w, "status")
  /\ IF issuance = Cut
     THEN ThrowCommand(w) /\ UNCHANGED status
     ELSE /\ status' = RootStaleness(issuance)
          /\ NextStep(w, jobs[w])
  /\ UNCHANGED <<opsNow, faults, treasury, sdn, sample, issuance, report>>

\* The process stops before its next step, or between opening and closing.
StopCommand(w) ==
  /\ CommandRuns(w)
  /\ faults < MaxFaults
  /\ faults' = faults + 1
  /\ ThrowCommand(w)
  /\ UNCHANGED <<opsNow, treasury, files>>

\* The Treasury publishes another list.
PublishList(list) ==
  /\ treasury' = list
  /\ UNCHANGED <<opsNow, faults, files, jobs>>

OpsTick ==
  /\ opsNow < MaxTime
  /\ opsNow' = opsNow + 1
  /\ UNCHANGED <<faults, treasury, files, jobs>>

Work(w) ==
  \/ Fetch(w) \/ FetchFails(w) \/ ReadPrevious(w) \/ BuildJob(w)
  \/ WriteList(w) \/ WriteIssuance(w) \/ WriteReport(w) \/ WriteStatus(w)

OpsNext ==
  \/ \E w \in Workers : Work(w) \/ StopCommand(w) \/ \E command \in Commands : BeginCommand(w, command)
  \/ \E list \in Lists : PublishList(list)
  \/ OpsTick

OpsSpec == OpsInit /\ [][OpsNext]_opsVars

-----------------------------------------------------------------------------
Contents == [rows : Seq(Names), cut : BOOLEAN]

(* Types; a command that runs has a step left, an issuance that was        *)
(* written says whom it blocks, and no empty list is about to be written.  *)
OpsTypeOK ==
  /\ opsNow \in 0 .. MaxTime /\ faults \in 0 .. MaxFaults
  /\ treasury \in Lists
  /\ sdn \in Contents \cup {Missing} /\ sample \in Contents
  /\ \/ issuance \in {Missing, Cut}
     \/ issuance.matched \subseteq RosterUsers /\ issuance.mtime \in 0 .. opsNow
  /\ report \in [previous : (SUBSET RosterUsers) \cup {Missing}, current : SUBSET RosterUsers] \cup {Missing}
  /\ status \in BOOLEAN \cup {Missing}
  /\ \A w \in Workers :
       /\ jobs[w].command \in Commands \cup {<<>>}
       /\ jobs[w].state \in {"idle", "running", "done", "threw"}
       /\ JobAt(w, "sdn") \/ JobAt(w, "sample") => jobs[w].text # <<>>
       /\ CommandRuns(w) <=> jobs[w].todo # <<>> /\ jobs[w].state # "threw"

ListedUsers(names) ==
  {u \in RosterUsers : Roster[u].word # Blank /\ \E n \in names : n.word = Roster[u].word}

(* After issuer:ops --sync has ended, its issuance blocks every user whose *)
(* name, in any spelling, is on the list that this run fetched, and nobody *)
(* else: whatever an earlier run left behind, a failed or partial sync     *)
(* never leads to a rotation.                                              *)
SyncedRunScreensFetched ==
  \A w \in Workers :
    jobs[w].state = "done" /\ jobs[w].command = Ops(TRUE, TRUE) =>
      jobs[w].matched = ListedUsers(RowsOf(jobs[w].text) \cup AltNames)

(* Nobody is blocked who is on no list of the Treasury nor on alt.csv,     *)
(* also where commands run at once, or one reads a list that another one   *)
(* has not written to its end, then or ever.  A list that is cut blocks    *)
(* fewer users than the whole one: ops.js and issue.js do not see the cut. *)
BlocksOnlyListed ==
  issuance \notin {Missing, Cut} =>
    \A u \in issuance.matched : \E list \in Lists : u \in ListedUsers(RowsOf(list) \cup AltNames)

=============================================================================
