-------------------------------- MODULE Report --------------------------------
(***************************************************************************)
(* canary-report and the commands around it: `check --json > file` prints  *)
(* the report of a run, `report file` reads such a document back and shows *)
(* it again, in JSON or for a reader, any number of times over.            *)
(* Surfaces, statuses and project types are named by the text the document *)
(* holds; a document of another origin may hold text no variant has.       *)
(***************************************************************************)
EXTENDS Outcomes, Project

CONSTANTS
  ResultLists,   \* the lists of results a check may report
  SkipLists,     \* the lists of skipped fixtures it may report
  OtherDocuments \* documents `report` may be given that no check printed

\* Text that names no surface, status, project type or overall status.
Unrecognized == "unrecognized"

Reported == [test : STRING, surface : Surfaces, status : Statuses]

Skip == [fixture : STRING, surface : Surfaces]

\* A ReportInput, as far as the reports tell inputs apart.
Input ==
  [projectType : ProjectTypes, results : Seq(Reported), skipped : Seq(Skip),
   decision : Decisions]

JsonCounts ==
  [total : Nat, passed : Nat, failed : Nat, warnings : Nat, errors : Nat, skipped : Nat]

JsonResult ==
  [test : STRING, surface : Surfaces \cup {Unrecognized},
   status : Statuses \cup {Unrecognized}]

JsonSkip == [fixture : STRING, surface : Surfaces \cup {Unrecognized}]

\* The fields of JsonReport; serde_json refuses anything of another shape.
Document ==
  [projectType : ProjectTypes \cup {Unrecognized},
   status      : Decisions \cup {"error", Unrecognized},
   counts      : JsonCounts,
   results     : Seq(JsonResult),
   skipped     : Seq(JsonSkip)]

\* A file that holds no document, such as the empty one a command leaves that
\* ended before it printed anything.
NoDocument == [projectType |-> "none"]

ASSUME ResultListsAssumption == ResultLists \subseteq Seq(Reported)

ASSUME SkipListsAssumption == SkipLists \subseteq Seq(Skip)

ASSUME OtherDocumentsAssumption == OtherDocuments \subseteq Document

-----------------------------------------------------------------------------
(* The JSON reporter.                                                      *)

\* JsonCounts::from_results, kept in step by hand with the runner's summarize.
FromResults(results, skipped) ==
  [total    |-> Len(results),
   passed   |-> CountOf(results, "pass"),
   failed   |-> CountOf(results, "fail"),
   warnings |-> CountOf(results, "warning"),
   errors   |-> CountOf(results, "error"),
   skipped  |-> skipped]

Render(input) ==
  [projectType |-> input.projectType,
   status      |-> OverallStatus(input.results, input.decision),
   counts      |-> FromResults(input.results, Len(input.skipped)),
   results     |-> input.results,
   skipped     |-> input.skipped]

\* parse_surface and parse_status refuse the whole document for one unknown
\* name; parse_project_type and the overall status have a fallback.
Readable(document) ==
  /\ document # NoDocument
  /\ \A k \in DOMAIN document.results :
       /\ document.results[k].surface \in Surfaces
       /\ document.results[k].status \in Statuses
  /\ \A k \in DOMAIN document.skipped : document.skipped[k].surface \in Surfaces

\* Variant: a warning is forgotten.
DecisionWithoutWarnings(status) == IF status \in {"pass", "warning"} THEN "pass" ELSE "fail"

\* The decision is not stored: it is taken back from the overall status.
DecisionFrom(status) == IF status \in {"pass", "warning"} THEN status ELSE "fail"

\* Variants: an unknown project type is kept; the skipped fixtures are dropped.
ParseKeepingType(document) ==
  [projectType |-> document.projectType, results |-> document.results,
   skipped |-> document.skipped, decision |-> DecisionFrom(document.status)]

ParseWithoutSkipped(document) ==
  [projectType |-> IF document.projectType \in ProjectTypes THEN document.projectType
                   ELSE "unknown",
   results |-> document.results, skipped |-> <<>>,
   decision |-> DecisionFrom(document.status)]

Parse(document) ==
  [projectType |-> IF document.projectType \in ProjectTypes THEN document.projectType
                   ELSE "unknown",
   results     |-> document.results,
   skipped     |-> document.skipped,
   decision    |-> DecisionFrom(document.status)]

-----------------------------------------------------------------------------
(* The terminal and Markdown reporters: the facts they show.               *)

ResultsFor(results, surface) == {k \in DOMAIN results : results[k].surface = surface}

\* Variant: failures are looked for before errors.
SurfaceCellFailFirst(results, surface) ==
  LET Has(status) == \E k \in ResultsFor(results, surface) : results[k].status = status
  IN IF Has("fail") THEN "fail"
     ELSE IF Has("error") THEN "error"
     ELSE IF Has("warning") THEN "warning" ELSE "pass"

\* Markdown: the worst status of a surface, in this order.
SurfaceCell(results, surface) ==
  LET Has(status) == \E k \in ResultsFor(results, surface) : results[k].status = status
  IN IF Has("error") THEN "error"
     ELSE IF Has("fail") THEN "fail"
     ELSE IF Has("warning") THEN "warning" ELSE "pass"

\* The rows of the Markdown table: surfaces without results have none.
SurfaceTable(results) ==
  [s \in {s \in Surfaces : ResultsFor(results, s) # {}} |-> SurfaceCell(results, s)]

\* Terminal: a surface whose results all passed is one line, "n/n PASS".
CollapsedSurfaces(results) ==
  {s \in Surfaces : /\ ResultsFor(results, s) # {}
                    /\ \A k \in ResultsFor(results, s) : results[k].status = "pass"}

\* Both list the failures and the errors in full.
Failures(results) == {k \in DOMAIN results : results[k].status \in {"fail", "error"}}

Shown(input) ==
  [status    |-> OverallStatus(input.results, input.decision),
   table     |-> SurfaceTable(input.results),
   collapsed |-> CollapsedSurfaces(input.results),
   passed    |-> CountOf(input.results, "pass"),
   total     |-> Len(input.results),
   failures  |-> Failures(input.results),
   skipped   |-> Len(input.skipped)]

-----------------------------------------------------------------------------
VARIABLES
  file,     \* what the report file holds
  origin,   \* where the file's content comes from: the check that printed it
            \* (how it exited, and the overall status it showed), or elsewhere
  printed,  \* whether a command of this tool printed what the file holds
  command,  \* the last command: "none", "check", "report"
  input,    \* the ReportInput it rendered, if it got that far
  exit      \* and its exit code

vars == <<file, origin, printed, command, input, exit>>

NoInput == [projectType |-> "none"]

EarlyExits == {ExitConfigurationError, ExitExecutionError, ExitInvalidFixture,
               ExitInternalError}

ExitCodes == 0..5

Elsewhere == [kind |-> "elsewhere", exit |-> 0, status |-> "none"]

Checked(code, status) == [kind |-> "check", exit |-> code, status |-> status]

EndedEarly(code) == [kind |-> "early", exit |-> code, status |-> "none"]

TypeOK ==
  /\ file \in Document \cup {NoDocument}
  /\ origin \in [kind : {"elsewhere", "check", "early"}, exit : ExitCodes,
                 status : Decisions \cup {"error", "none"}]
  /\ printed \in BOOLEAN
  /\ command \in {"none", "check", "report"}
  /\ input \in Input \cup {NoInput}
  /\ exit \in ExitCodes

Init ==
  /\ file \in OtherDocuments \cup {NoDocument}
  /\ origin = Elsewhere
  /\ printed = FALSE
  /\ command = "none"
  /\ input = NoInput
  /\ exit = 0

\* The model follows one report file: a check replaces whatever it held, so a
\* check comes first or not at all.

\* A check that completes: the policy decides, the JSON reporter prints.
CheckCompletes(results, skipped, projectType, warningsAreFailures) ==
  LET decision == Evaluate(results, warningsAreFailures)
      report == [projectType |-> projectType, results |-> results,
                 skipped |-> skipped, decision |-> decision]
      code == ExitCodeForRun(results, decision)
  IN /\ command = "none"
     /\ command' = "check"
     /\ input' = report
     /\ exit' = code
     /\ file' = Render(report)
     /\ printed' = TRUE
     /\ origin' = Checked(code, OverallStatus(results, decision))

\* A check stopped by an error before its report: nothing on standard output.
CheckEndsEarly(code) ==
  /\ command = "none"
  /\ command' = "check"
  /\ input' = NoInput
  /\ exit' = code
  /\ file' = NoDocument
  /\ printed' = TRUE
  /\ origin' = EndedEarly(code)

\* `report file`, shown to a reader (terminal or Markdown): the file stays.
ReportShown ==
  /\ command' = "report"
  /\ IF Readable(file)
     THEN /\ input' = Parse(file)
          /\ exit' = ExitCodeForRun(Parse(file).results, Parse(file).decision)
     ELSE /\ input' = NoInput
          /\ exit' = ExitConfigurationError
  /\ UNCHANGED <<file, origin, printed>>

\* `report --format json file`, whose output takes the file's place.
ReportAsJson ==
  /\ command' = "report"
  /\ IF Readable(file)
     THEN /\ input' = Parse(file)
          /\ exit' = ExitCodeForRun(Parse(file).results, Parse(file).decision)
          /\ file' = Render(Parse(file))
     ELSE /\ input' = NoInput
          /\ exit' = ExitConfigurationError
          /\ file' = NoDocument
  /\ printed' = TRUE
  /\ UNCHANGED origin

Next ==
  \/ \E results \in ResultLists, skipped \in SkipLists, projectType \in ProjectTypes,
        warningsAreFailures \in BOOLEAN :
       CheckCompletes(results, skipped, projectType, warningsAreFailures)
  \/ \E code \in EarlyExits : CheckEndsEarly(code)
  \/ ReportShown
  \/ ReportAsJson

Spec == Init /\ [][Next]_vars

-----------------------------------------------------------------------------
(* Properties.                                                             *)

\* Re-reading a report never changes the verdict: however often the document of
\* a check has been read back and printed again, `report` exits with the code
\* the check exited with and shows the overall status it showed, although the
\* decision is not stored and cannot be told from an "error" status
\* (json.rs:261-271); and what a check left that ended early is never a verdict.
ReportKeepsVerdict ==
  command = "report" =>
    /\ origin.kind = "check" =>
         /\ exit = origin.exit
         /\ OverallStatus(input.results, input.decision) = origin.status
    /\ origin.kind = "early" => exit = ExitConfigurationError

\* A document this tool printed is printed again unchanged, byte for byte as
\* far as the model tells bytes apart, even when its ancestor was written by
\* something else: one pass through the tool reaches the normal form.
PrintingAgainChangesNothing == [][printed /\ ReportAsJson => file' = file]_vars

\* Every view of one run tells the story its exit code tells: the overall
\* status, the Markdown table, the terminal's collapsed surfaces and fraction,
\* the failures listed in full and the counts, though each is computed on its
\* own from the results (lib.rs:71-86, markdown.rs:9-19, terminal.rs:63-118).
ViewsAgree ==
  input # NoInput =>
    LET shown  == Shown(input)
        cells  == {shown.table[s] : s \in DOMAIN shown.table}
        counts == Render(input).counts
    IN /\ (shown.status = "error") <=> (exit = ExitExecutionError)
       /\ (shown.status = "fail") <=> (exit = ExitCompatibilityFailure)
       /\ ("error" \in cells) <=> (exit = ExitExecutionError)
       /\ origin.kind = "check" /\ exit = ExitPass =>
            shown.failures = {} /\ cells \subseteq {"pass", "warning"}
       /\ (shown.collapsed = DOMAIN shown.table) <=> (counts.passed = counts.total)
       /\ Cardinality(shown.failures) = counts.failed + counts.errors
       /\ shown.passed = counts.passed /\ shown.total = counts.total
       /\ \A field \in DOMAIN Summarize(input.results) :
            Summarize(input.results)[field] = counts[field]
=============================================================================
