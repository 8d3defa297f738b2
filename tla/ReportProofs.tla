----------------------------- MODULE ReportProofs -----------------------------
(***************************************************************************)
(* Theorems about Report for every list of results, of skipped fixtures    *)
(* and of foreign documents.                                               *)
(***************************************************************************)
EXTENDS Report, FiniteSetTheorems, TLAPS

\* The exit code `report` gives a document, and the status it shows.
VerdictExit(document) ==
  ExitCodeForRun(Parse(document).results, Parse(document).decision)

VerdictStatus(document) ==
  OverallStatus(Parse(document).results, Parse(document).decision)

\* What the file says agrees with the check it comes from, and a document this
\* tool printed is in the form it prints.
FileFollowsOrigin ==
  /\ origin.kind = "check" =>
       /\ Readable(file)
       /\ VerdictExit(file) = origin.exit
       /\ VerdictStatus(file) = origin.status
  /\ origin.kind = "early" => file = NoDocument
  /\ printed /\ file # NoDocument => Readable(file) /\ Render(Parse(file)) = file

ReportInv ==
  /\ TypeOK
  /\ FileFollowsOrigin
  /\ ReportKeepsVerdict

-----------------------------------------------------------------------------
LEMMA SeqOf ==
  ASSUME NEW S, NEW T, NEW s \in Seq(S), \A k \in 1..Len(s) : s[k] \in T
  PROVE  s \in Seq(T)
  OBVIOUS

LEMMA SeqElement ==
  ASSUME NEW S, NEW s \in Seq(S), NEW k \in 1..Len(s)
  PROVE  s[k] \in S /\ k \in DOMAIN s
  OBVIOUS

LEMMA CountType ==
  ASSUME NEW S, NEW results \in Seq(S), NEW status
  PROVE  CountOf(results, status) \in Nat
<1>1. IsFiniteSet(DOMAIN results)
  BY FS_Interval
<1>2. {k \in DOMAIN results : results[k].status = status} \subseteq DOMAIN results
  OBVIOUS
<1> QED
  BY <1>1, <1>2, FS_Subset, FS_CardinalityType DEF CountOf

LEMMA DocumentsAreNotEmptyFiles ==
  ASSUME NEW document \in Document
  PROVE  document # NoDocument
<1>1. document.projectType \in ProjectTypes \cup {Unrecognized}
  BY DEF Document
<1>2. NoDocument.projectType = "none"
  BY DEF NoDocument
<1> QED
  BY <1>1, <1>2 DEF ProjectTypes, Unrecognized

\* What is printed is a document `report` can read.
LEMMA RenderIsReadable ==
  ASSUME NEW i \in Input
  PROVE  Render(i) \in Document /\ Readable(Render(i))
<1>1. /\ i.results \in Seq(Reported) /\ i.skipped \in Seq(Skip)
      /\ i.projectType \in ProjectTypes /\ i.decision \in Decisions
  BY DEF Input
<1>2. FromResults(i.results, Len(i.skipped)) \in JsonCounts
  BY <1>1, CountType DEF FromResults, JsonCounts
<1>3. i.results \in Seq(JsonResult)
  <2>1. \A k \in 1..Len(i.results) : i.results[k] \in Reported
    BY <1>1
  <2>2. \A k \in 1..Len(i.results) : i.results[k] \in JsonResult
    BY <2>1 DEF Reported, JsonResult
  <2> QED
    BY <1>1, <2>2, SeqOf
<1>4. OverallStatus(i.results, i.decision) \in Decisions \cup {"error", Unrecognized}
  BY <1>1 DEF OverallStatus
<1>5. i.skipped \in Seq(JsonSkip)
  <2>1. \A k \in 1..Len(i.skipped) : i.skipped[k] \in Skip
    BY <1>1
  <2>2. \A k \in 1..Len(i.skipped) : i.skipped[k] \in JsonSkip
    BY <2>1 DEF Skip, JsonSkip
  <2> QED
    BY <1>1, <2>2, SeqOf
<1>6. Render(i) \in Document
  BY <1>1, <1>2, <1>3, <1>4, <1>5 DEF Render, Document
<1>7. Render(i).results = i.results /\ Render(i).skipped = i.skipped
  BY DEF Render
<1>8. /\ \A k \in DOMAIN i.results : i.results[k] \in Reported
      /\ \A k \in DOMAIN i.skipped : i.skipped[k] \in Skip
  BY <1>1
<1> QED
  BY <1>6, <1>7, <1>8, DocumentsAreNotEmptyFiles DEF Readable, Reported, Skip

LEMMA ParseType ==
  ASSUME NEW document \in Document, Readable(document)
  PROVE  Parse(document) \in Input
<1>1. /\ document.results \in Seq(JsonResult) /\ document.skipped \in Seq(JsonSkip)
  BY DEF Document
<1>2. \A k \in 1..Len(document.results) : document.results[k] \in Reported
  <2> SUFFICES ASSUME NEW k \in 1..Len(document.results)
               PROVE  document.results[k] \in Reported
    OBVIOUS
  <2>1. document.results[k] \in JsonResult /\ k \in DOMAIN document.results
    BY <1>1, SeqElement
  <2>2. document.results[k].surface \in Surfaces /\ document.results[k].status \in Statuses
    BY <2>1 DEF Readable
  <2> QED
    BY <2>1, <2>2 DEF Reported, JsonResult
<1>3. document.results \in Seq(Reported)
  BY <1>1, <1>2, SeqOf
<1>4. \A k \in 1..Len(document.skipped) : document.skipped[k] \in Skip
  <2> SUFFICES ASSUME NEW k \in 1..Len(document.skipped)
               PROVE  document.skipped[k] \in Skip
    OBVIOUS
  <2>1. document.skipped[k] \in JsonSkip /\ k \in DOMAIN document.skipped
    BY <1>1, SeqElement
  <2>2. document.skipped[k].surface \in Surfaces
    BY <2>1 DEF Readable
  <2> QED
    BY <2>1, <2>2 DEF Skip, JsonSkip
<1>5. document.skipped \in Seq(Skip)
  BY <1>1, <1>4, SeqOf
<1>6. DecisionFrom(document.status) \in Decisions
  BY DEF DecisionFrom, Decisions
<1> QED
  BY <1>3, <1>5, <1>6 DEF Parse, Input, ProjectTypes

\* The decision taken back from the overall status says the same of the results.
LEMMA RoundTrip ==
  ASSUME NEW i \in Input
  PROVE  /\ Parse(Render(i)).results = i.results
         /\ Parse(Render(i)).skipped = i.skipped
         /\ Parse(Render(i)).projectType = i.projectType
         /\ VerdictStatus(Render(i)) = OverallStatus(i.results, i.decision)
         /\ VerdictExit(Render(i)) = ExitCodeForRun(i.results, i.decision)
<1>1. i.projectType \in ProjectTypes /\ i.decision \in Decisions
  BY DEF Input
<1>2. /\ Parse(Render(i)).results = i.results
      /\ Parse(Render(i)).skipped = i.skipped
      /\ Parse(Render(i)).projectType = i.projectType
      /\ Parse(Render(i)).decision = DecisionFrom(OverallStatus(i.results, i.decision))
  BY <1>1 DEF Parse, Render
<1>3. CASE HasStatus(i.results, "error")
  BY <1>2, <1>3 DEF VerdictStatus, VerdictExit, OverallStatus, ExitCodeForRun
<1>4. CASE ~HasStatus(i.results, "error")
  <2>1. DecisionFrom(OverallStatus(i.results, i.decision)) = i.decision
    BY <1>1, <1>4 DEF DecisionFrom, OverallStatus, Decisions
  <2> QED
    BY <1>2, <2>1 DEF VerdictStatus, VerdictExit
<1> QED
  BY <1>2, <1>3, <1>4

\* Printing, reading back and printing again gives the same document.
LEMMA NormalForm ==
  ASSUME NEW i \in Input
  PROVE  Render(Parse(Render(i))) = Render(i)
<1>1. /\ Parse(Render(i)).results = i.results
      /\ Parse(Render(i)).skipped = i.skipped
      /\ Parse(Render(i)).projectType = i.projectType
      /\ OverallStatus(i.results, Parse(Render(i)).decision)
           = OverallStatus(i.results, i.decision)
  BY RoundTrip DEF VerdictStatus
<1> QED
  BY <1>1 DEF Render

-----------------------------------------------------------------------------
LEMMA InitReportInv == Init => ReportInv
<1> SUFFICES ASSUME Init PROVE ReportInv
  OBVIOUS
<1>1. file \in Document \cup {NoDocument}
  BY OtherDocumentsAssumption DEF Init
<1>2. /\ origin = Elsewhere /\ printed = FALSE /\ command = "none"
      /\ input = NoInput /\ exit = 0 /\ origin.kind = "elsewhere"
  BY DEF Init, Elsewhere
<1>3. TypeOK
  <2>1. 0 \in ExitCodes
    BY DEF ExitCodes
  <2>2. Elsewhere \in [kind : {"elsewhere", "check", "early"}, exit : ExitCodes,
                       status : Decisions \cup {"error", "none"}]
    BY <2>1 DEF Elsewhere
  <2> QED
    BY <1>1, <1>2, <2>1, <2>2 DEF TypeOK
<1>4. FileFollowsOrigin /\ ReportKeepsVerdict
  BY <1>2 DEF FileFollowsOrigin, ReportKeepsVerdict
<1> QED
  BY <1>3, <1>4 DEF ReportInv

LEMMA CheckCompletesKeeps ==
  ASSUME NEW results \in ResultLists, NEW skipped \in SkipLists,
         NEW projectType \in ProjectTypes, NEW warningsAreFailures \in BOOLEAN,
         CheckCompletes(results, skipped, projectType, warningsAreFailures)
  PROVE  ReportInv'
<1> DEFINE decision == Evaluate(results, warningsAreFailures)
           report == [projectType |-> projectType, results |-> results,
                      skipped |-> skipped, decision |-> decision]
           code == ExitCodeForRun(results, decision)
           overall == OverallStatus(results, decision)
<1>1. /\ command' = "check" /\ input' = report /\ exit' = code
      /\ file' = Render(report) /\ printed' = TRUE /\ origin' = Checked(code, overall)
  BY DEF CheckCompletes
<1>2. report \in Input
  <2>1. results \in Seq(Reported) /\ skipped \in Seq(Skip)
    BY ResultListsAssumption, SkipListsAssumption
  <2>2. decision \in Decisions
    BY DEF Evaluate, Decisions
  <2> QED
    BY <2>1, <2>2 DEF Input
<1>3. code \in ExitCodes /\ overall \in Decisions \cup {"error"}
  <2>1. decision \in Decisions
    BY DEF Evaluate, Decisions
  <2> QED
    BY <2>1 DEF ExitCodeForRun, OverallStatus, ExitCodes, ExitExecutionError,
                ExitCompatibilityFailure, ExitPass
<1>4. file' \in Document /\ Readable(file')
  BY <1>1, <1>2, RenderIsReadable
<1>5. VerdictStatus(file') = overall /\ VerdictExit(file') = code
  BY <1>1, <1>2, RoundTrip
<1>6. Render(Parse(file')) = file'
  BY <1>1, <1>2, NormalForm
<1>7. TypeOK'
  BY <1>1, <1>2, <1>3, <1>4 DEF TypeOK, Checked
<1>8. FileFollowsOrigin'
  BY <1>1, <1>4, <1>5, <1>6 DEF FileFollowsOrigin, Checked, VerdictExit, VerdictStatus
<1> QED
  BY <1>1, <1>7, <1>8 DEF ReportInv, ReportKeepsVerdict

LEMMA CheckEndsEarlyKeeps ==
  ASSUME NEW code \in EarlyExits, CheckEndsEarly(code)
  PROVE  ReportInv'
<1>1. code \in ExitCodes
  BY DEF EarlyExits, ExitCodes, ExitConfigurationError, ExitExecutionError,
         ExitInvalidFixture, ExitInternalError
<1> QED
  BY <1>1 DEF CheckEndsEarly, ReportInv, TypeOK, FileFollowsOrigin, ReportKeepsVerdict,
              EndedEarly

\* What both forms of `report` do to everything but the file.
LEMMA ReportRuns ==
  ASSUME ReportInv, ReportShown \/ ReportAsJson
  PROVE  /\ command' = "report" /\ origin' = origin
         /\ input' \in Input \cup {NoInput} /\ exit' \in ExitCodes
         /\ ReportKeepsVerdict'
<1>1. file \in Document \cup {NoDocument}
  BY DEF ReportInv, TypeOK
<1>2. command' = "report" /\ origin' = origin
  BY DEF ReportShown, ReportAsJson
<1>3. CASE Readable(file)
  <2>1. file \in Document
    BY <1>1, <1>3 DEF Readable
  <2>2. input' = Parse(file) /\ exit' = VerdictExit(file)
    BY <1>3 DEF ReportShown, ReportAsJson, VerdictExit
  <2>3. Parse(file) \in Input
    BY <1>3, <2>1, ParseType
  <2>4. VerdictExit(file) \in ExitCodes
    BY DEF VerdictExit, ExitCodeForRun, ExitCodes, ExitExecutionError,
           ExitCompatibilityFailure, ExitPass
  <2>5. OverallStatus(input'.results, input'.decision) = VerdictStatus(file)
    BY <2>2 DEF VerdictStatus
  <2>6. origin.kind # "early"
    BY <1>3 DEF Readable, ReportInv, FileFollowsOrigin
  <2>7. ReportKeepsVerdict'
    BY <1>2, <2>2, <2>5, <2>6 DEF ReportKeepsVerdict, ReportInv, FileFollowsOrigin
  <2> QED
    BY <1>2, <2>2, <2>3, <2>4, <2>7
<1>4. CASE ~Readable(file)
  <2>1. input' = NoInput /\ exit' = ExitConfigurationError
    BY <1>4 DEF ReportShown, ReportAsJson
  <2>2. origin.kind # "check"
    BY <1>4 DEF ReportInv, FileFollowsOrigin
  <2> QED
    BY <1>2, <2>1, <2>2 DEF ReportKeepsVerdict, ExitCodes, ExitConfigurationError
<1> QED
  BY <1>3, <1>4

LEMMA ReportShownKeeps ==
  ASSUME ReportInv, ReportShown
  PROVE  ReportInv'
<1>1. UNCHANGED <<file, origin, printed>>
  BY DEF ReportShown
<1>2. /\ command' = "report" /\ input' \in Input \cup {NoInput} /\ exit' \in ExitCodes
      /\ ReportKeepsVerdict'
  BY ReportRuns
<1>3. TypeOK' /\ FileFollowsOrigin'
  BY <1>1, <1>2 DEF ReportInv, TypeOK, FileFollowsOrigin
<1> QED
  BY <1>2, <1>3 DEF ReportInv

LEMMA ReportAsJsonKeeps ==
  ASSUME ReportInv, ReportAsJson
  PROVE  ReportInv'
<1>1. /\ command' = "report" /\ origin' = origin
      /\ input' \in Input \cup {NoInput} /\ exit' \in ExitCodes /\ ReportKeepsVerdict'
  BY ReportRuns
<1>2. printed' = TRUE
  BY DEF ReportAsJson
<1>3. CASE Readable(file)
  <2>1. file \in Document
    BY <1>3 DEF ReportInv, TypeOK, Readable
  <2>2. file' = Render(Parse(file)) /\ Parse(file) \in Input
    BY <1>3, <2>1, ParseType DEF ReportAsJson
  <2>3. file' \in Document /\ Readable(file') /\ Render(Parse(file')) = file'
    BY <2>2, RenderIsReadable, NormalForm
  <2>4. VerdictExit(file') = VerdictExit(file) /\ VerdictStatus(file') = VerdictStatus(file)
    <3>1. /\ VerdictStatus(Render(Parse(file))) = VerdictStatus(file)
          /\ VerdictExit(Render(Parse(file))) = VerdictExit(file)
      BY <2>2, RoundTrip DEF VerdictStatus, VerdictExit
    <3> QED
      BY <2>2, <3>1
  <2>5. origin.kind # "early"
    BY <1>3 DEF Readable, ReportInv, FileFollowsOrigin
  <2>6. TypeOK'
    BY <1>1, <1>2, <2>3 DEF ReportInv, TypeOK
  <2>7. FileFollowsOrigin'
    BY <1>1, <2>3, <2>4, <2>5
       DEF ReportInv, FileFollowsOrigin, VerdictExit, VerdictStatus
  <2> QED
    BY <1>1, <2>6, <2>7 DEF ReportInv
<1>4. CASE ~Readable(file)
  <2>1. file' = NoDocument
    BY <1>4 DEF ReportAsJson
  <2>2. origin.kind # "check"
    BY <1>4 DEF ReportInv, FileFollowsOrigin
  <2>3. TypeOK' /\ FileFollowsOrigin'
    BY <1>1, <1>2, <2>1, <2>2 DEF ReportInv, TypeOK, FileFollowsOrigin
  <2> QED
    BY <1>1, <2>3 DEF ReportInv
<1> QED
  BY <1>3, <1>4

LEMMA StepReportInv == ReportInv /\ [Next]_vars => ReportInv'
<1> SUFFICES ASSUME ReportInv, [Next]_vars PROVE ReportInv'
  OBVIOUS
<1>1. CASE \E results \in ResultLists, skipped \in SkipLists, projectType \in ProjectTypes,
              warningsAreFailures \in BOOLEAN :
             CheckCompletes(results, skipped, projectType, warningsAreFailures)
  BY <1>1, CheckCompletesKeeps
<1>2. CASE \E code \in EarlyExits : CheckEndsEarly(code)
  BY <1>2, CheckEndsEarlyKeeps
<1>3. CASE ReportShown
  BY <1>3, ReportShownKeeps
<1>4. CASE ReportAsJson
  BY <1>4, ReportAsJsonKeeps
<1>5. CASE UNCHANGED vars
  BY <1>5 DEF vars, ReportInv, TypeOK, FileFollowsOrigin, ReportKeepsVerdict
<1> QED
  BY <1>1, <1>2, <1>3, <1>4, <1>5 DEF Next

\* Inductive invariance, from which the theorems below follow.
THEOREM Invariance == Spec => []ReportInv
<1>1. Init => ReportInv
  BY InitReportInv
<1>2. ReportInv /\ [Next]_vars => ReportInv'
  BY StepReportInv
<1> QED
  BY <1>1, <1>2, PTL DEF Spec

\* The file, the input and the exit code have their types (Report.tla).
THEOREM TypeCorrect == Spec => []TypeOK
<1>1. ReportInv => TypeOK
  BY DEF ReportInv
<1> QED
  BY <1>1, Invariance, PTL

\* Re-reading a report never changes the verdict of the check that printed it,
\* for result lists of any length and mix and any number of re-readings.
THEOREM VerdictSurvives == Spec => []ReportKeepsVerdict
<1>1. ReportInv => ReportKeepsVerdict
  BY DEF ReportInv
<1> QED
  BY <1>1, Invariance, PTL

\* A document this tool printed is printed again unchanged.
THEOREM PrintingIsIdempotent == Spec => PrintingAgainChangesNothing
<1>1. ReportInv /\ [Next]_vars => (printed /\ ReportAsJson => file' = file)
  <2> SUFFICES ASSUME ReportInv, printed, ReportAsJson PROVE file' = file
    OBVIOUS
  <2>1. CASE Readable(file)
    BY <2>1 DEF ReportAsJson, ReportInv, FileFollowsOrigin, Readable
  <2>2. CASE ~Readable(file)
    BY <2>2 DEF ReportAsJson, ReportInv, FileFollowsOrigin
  <2> QED
    BY <2>1, <2>2
<1> QED
  BY <1>1, Invariance, PTL DEF Spec, PrintingAgainChangesNothing

-----------------------------------------------------------------------------
(* The views of one report.                                                 *)

WithStatus(results, status) == {k \in DOMAIN results : results[k].status = status}

\* No result a user would have to act on.
Clean(results) == \A k \in DOMAIN results : results[k].status \notin {"fail", "error"}

LEMMA WithStatusFinite ==
  ASSUME NEW S, NEW results \in Seq(S), NEW status
  PROVE  /\ IsFiniteSet(WithStatus(results, status)) /\ IsFiniteSet(DOMAIN results)
         /\ Cardinality(WithStatus(results, status)) \in Nat
         /\ Cardinality(DOMAIN results) = Len(results) /\ Len(results) \in Nat
<1>1. DOMAIN results = 1..Len(results) /\ Len(results) \in Nat
  OBVIOUS
<1>2. IsFiniteSet(DOMAIN results) /\ Cardinality(DOMAIN results) = Len(results)
  BY <1>1, FS_Interval
<1>3. WithStatus(results, status) \subseteq DOMAIN results
  BY DEF WithStatus
<1> QED
  BY <1>1, <1>2, <1>3, FS_Subset, FS_CardinalityType

\* The failures listed in full are the failed and the broken, none of them twice.
LEMMA FailuresAreCounted ==
  ASSUME NEW S, NEW results \in Seq(S)
  PROVE  Cardinality(Failures(results)) = CountOf(results, "fail") + CountOf(results, "error")
<1> DEFINE F == WithStatus(results, "fail")
           E == WithStatus(results, "error")
<1>1. IsFiniteSet(F) /\ IsFiniteSet(E) /\ Cardinality(F) \in Nat /\ Cardinality(E) \in Nat
  BY WithStatusFinite
<1>2. Failures(results) = F \cup E /\ F \cap E = {}
  BY DEF Failures, WithStatus
<1>3. CountOf(results, "fail") = Cardinality(F) /\ CountOf(results, "error") = Cardinality(E)
  BY DEF CountOf, WithStatus
<1> HIDE DEF F, E
<1>4. Cardinality(F \cap E) = 0 /\ Cardinality(Failures(results)) = Cardinality(F \cup E)
  BY <1>2, FS_EmptySet
<1>5. Cardinality(F \cup E) = Cardinality(F) + Cardinality(E) - Cardinality(F \cap E)
  BY <1>1, FS_Union
<1> QED
  BY <1>1, <1>3, <1>4, <1>5

\* All passed, counted, is all passed.
LEMMA AllPassedIsCounted ==
  ASSUME NEW S, NEW results \in Seq(S)
  PROVE  CountOf(results, "pass") = Len(results)
           <=> \A k \in DOMAIN results : results[k].status = "pass"
<1> DEFINE P == WithStatus(results, "pass")
<1>1. /\ IsFiniteSet(P) /\ IsFiniteSet(DOMAIN results)
      /\ Cardinality(DOMAIN results) = Len(results)
  BY WithStatusFinite
<1>2. P \subseteq DOMAIN results /\ CountOf(results, "pass") = Cardinality(P)
  BY DEF CountOf, WithStatus
<1>3. P = DOMAIN results <=> \A k \in DOMAIN results : results[k].status = "pass"
  BY DEF WithStatus
<1> HIDE DEF P
<1>4. Cardinality(P) = Cardinality(DOMAIN results) => P = DOMAIN results
  BY <1>1, <1>2, FS_Subset
<1> QED
  BY <1>1, <1>2, <1>3, <1>4

\* The cells of the table hold an error exactly when a result does, and nothing
\* but passes and warnings when the results are clean.
LEMMA CellsTell ==
  ASSUME NEW results, \A k \in DOMAIN results : results[k].surface \in Surfaces
  PROVE  LET cells == {SurfaceTable(results)[s] : s \in DOMAIN SurfaceTable(results)}
         IN /\ "error" \in cells <=> HasStatus(results, "error")
            /\ Clean(results) => cells \subseteq {"pass", "warning"}
<1> DEFINE rows == {s \in Surfaces : ResultsFor(results, s) # {}}
           cells == {SurfaceTable(results)[s] : s \in DOMAIN SurfaceTable(results)}
<1>1. cells = {SurfaceCell(results, s) : s \in rows}
  BY DEF SurfaceTable
<1>2. ASSUME NEW s \in rows
      PROVE  SurfaceCell(results, s) = "error"
               <=> \E k \in ResultsFor(results, s) : results[k].status = "error"
  BY DEF SurfaceCell
<1>3. ASSUME NEW k \in DOMAIN results
      PROVE  results[k].surface \in rows /\ k \in ResultsFor(results, results[k].surface)
  BY DEF ResultsFor
<1>4. ASSUME Clean(results), NEW s \in rows
      PROVE  SurfaceCell(results, s) \in {"pass", "warning"}
  BY <1>4 DEF SurfaceCell, Clean, ResultsFor
<1>5. "error" \in cells => HasStatus(results, "error")
  BY <1>1, <1>2 DEF HasStatus, ResultsFor
<1>6. HasStatus(results, "error") => "error" \in cells
  <2> SUFFICES ASSUME NEW k \in DOMAIN results, results[k].status = "error"
               PROVE  "error" \in cells
    BY DEF HasStatus
  <2>1. SurfaceCell(results, results[k].surface) = "error"
    BY <1>2, <1>3
  <2> QED
    BY <1>1, <1>3, <2>1
<1> QED
  BY <1>1, <1>4, <1>5, <1>6

\* A surface's line collapses exactly when all of its results passed.
LEMMA CollapsedTell ==
  ASSUME NEW results, \A k \in DOMAIN results : results[k].surface \in Surfaces
  PROVE  CollapsedSurfaces(results) = DOMAIN SurfaceTable(results)
           <=> \A k \in DOMAIN results : results[k].status = "pass"
<1> DEFINE rows == {s \in Surfaces : ResultsFor(results, s) # {}}
<1>1. DOMAIN SurfaceTable(results) = rows
  BY DEF SurfaceTable
<1>2. CollapsedSurfaces(results) =
        {s \in rows : \A k \in ResultsFor(results, s) : results[k].status = "pass"}
  BY DEF CollapsedSurfaces
<1>3. ASSUME NEW k \in DOMAIN results
      PROVE  results[k].surface \in rows /\ k \in ResultsFor(results, results[k].surface)
  BY DEF ResultsFor
<1>4. \A s : ResultsFor(results, s) \subseteq DOMAIN results
  BY DEF ResultsFor
<1> HIDE DEF rows
<1>5. ASSUME \A k \in DOMAIN results : results[k].status = "pass"
      PROVE  CollapsedSurfaces(results) = rows
  BY <1>2, <1>4, <1>5
<1>6. ASSUME CollapsedSurfaces(results) = rows, NEW k \in DOMAIN results
      PROVE  results[k].status = "pass"
  <2>1. results[k].surface \in CollapsedSurfaces(results)
    BY <1>3, <1>6
  <2> QED
    BY <1>2, <1>3, <2>1
<1> QED
  BY <1>1, <1>5, <1>6

LEMMA RunCodes ==
  ASSUME NEW results, NEW decision \in Decisions
  PROVE  LET code == ExitCodeForRun(results, decision) IN
         /\ (OverallStatus(results, decision) = "error") <=> (code = ExitExecutionError)
         /\ (OverallStatus(results, decision) = "fail") <=> (code = ExitCompatibilityFailure)
         /\ HasStatus(results, "error") <=> (code = ExitExecutionError)
<1>1. CASE HasStatus(results, "error")
  BY <1>1 DEF ExitCodeForRun, OverallStatus, ExitExecutionError, ExitCompatibilityFailure
<1>2. CASE ~HasStatus(results, "error")
  BY <1>2 DEF ExitCodeForRun, OverallStatus, ExitExecutionError, ExitCompatibilityFailure,
              ExitPass, Decisions
<1> QED
  BY <1>1, <1>2

\* A check that exits with 0 had neither failures nor errors.
LEMMA PassingIsClean ==
  ASSUME NEW results, NEW strict,
         ExitCodeForRun(results, Evaluate(results, strict)) = ExitPass
  PROVE  Clean(results)
<1>1. ~HasStatus(results, "error") /\ Evaluate(results, strict) # "fail"
  BY DEF ExitCodeForRun, ExitPass, ExitExecutionError, ExitCompatibilityFailure
<1>2. ~HasStatus(results, "fail")
  BY <1>1 DEF Evaluate
<1> QED
  BY <1>1, <1>2 DEF HasStatus, Clean

\* What the last command showed, and what it would take from the file.
ViewInv ==
  /\ input # NoInput =>
       /\ input \in Input /\ exit = ExitCodeForRun(input.results, input.decision)
       /\ origin.kind = "check" /\ exit = ExitPass => Clean(input.results)
  /\ origin.kind = "check" /\ origin.exit = ExitPass => Clean(file.results)

LEMMA ViewStep ==
  ASSUME ReportInv, ViewInv, [Next]_vars
  PROVE  ViewInv'
<1>1. ASSUME NEW results \in ResultLists, NEW skipped \in SkipLists,
             NEW projectType \in ProjectTypes, NEW warningsAreFailures \in BOOLEAN,
             CheckCompletes(results, skipped, projectType, warningsAreFailures)
      PROVE  ViewInv'
  <2> DEFINE decision == Evaluate(results, warningsAreFailures)
             report == [projectType |-> projectType, results |-> results,
                        skipped |-> skipped, decision |-> decision]
             code == ExitCodeForRun(results, decision)
  <2>1. /\ input' = report /\ exit' = code /\ file' = Render(report)
        /\ origin' = Checked(code, OverallStatus(results, decision))
    BY <1>1 DEF CheckCompletes
  <2>2. report \in Input /\ report.results = results /\ report.decision = decision
    BY ResultListsAssumption, SkipListsAssumption DEF Input, Evaluate, Decisions
  <2>3. file'.results = results /\ origin'.exit = code
    BY <2>1 DEF Render, Checked
  <2>4. code = ExitPass => Clean(results)
    BY PassingIsClean
  <2> HIDE DEF report, code, decision
  <2>5. exit' = ExitCodeForRun(input'.results, input'.decision)
    BY <2>1, <2>2 DEF code
  <2> QED
    BY <2>1, <2>2, <2>3, <2>4, <2>5 DEF ViewInv
<1>2. ASSUME NEW code \in EarlyExits, CheckEndsEarly(code)
      PROVE  ViewInv'
  BY <1>2 DEF CheckEndsEarly, ViewInv, EndedEarly
<1>3. ASSUME ReportShown \/ ReportAsJson
      PROVE  ViewInv'
  <2>1. /\ origin' = origin /\ file \in Document \cup {NoDocument}
        /\ input' = IF Readable(file) THEN Parse(file) ELSE NoInput
        /\ Readable(file) => exit' = ExitCodeForRun(Parse(file).results, Parse(file).decision)
    BY <1>3 DEF ReportShown, ReportAsJson, ReportInv, TypeOK
  <2>2. Parse(file).results = file.results
    BY DEF Parse
  <2>3. origin.kind = "check" => Readable(file) /\ file'.results = file.results
    BY <1>3 DEF ReportInv, FileFollowsOrigin, ReportShown, ReportAsJson, Render, Parse
  <2>4. CASE Readable(file)
    <3>1. input' = Parse(file) /\ input' \in Input
      BY <2>1, <2>4, ParseType DEF Readable
    <3>2. origin.kind = "check" => exit' = origin.exit
      BY <2>1, <2>4 DEF ReportInv, FileFollowsOrigin, VerdictExit
    <3> QED
      BY <2>1, <2>2, <2>3, <2>4, <3>1, <3>2 DEF ViewInv
  <2>5. CASE ~Readable(file)
    BY <2>1, <2>3, <2>5 DEF ViewInv
  <2> QED
    BY <2>4, <2>5
<1>4. CASE UNCHANGED vars
  BY <1>4 DEF vars, ViewInv
<1> QED
  BY <1>1, <1>2, <1>3, <1>4 DEF Next

\* Every view of one run tells the story its exit code tells.
THEOREM ViewsTellOneStory == Spec => []ViewsAgree
<1>1. Init => ViewInv
  BY DEF Init, Elsewhere, ViewInv
<1>2. ReportInv /\ ViewInv /\ [Next]_vars => ViewInv'
  BY ViewStep
<1>3. ASSUME ViewInv, input # NoInput
      PROVE  LET shown  == Shown(input)
                 cells  == {shown.table[s] : s \in DOMAIN shown.table}
                 counts == Render(input).counts
             IN /\ (shown.status = "error") <=> (exit = ExitExecutionError)
                /\ (shown.status = "fail") <=> (exit = ExitCompatibilityFailure)
                /\ ("error" \in cells) <=> (exit = ExitExecutionError)
                /\ origin.kind = "check" /\ exit = ExitPass =>
                     shown.failures = {} /\ cells \subseteq {"pass", "warning"}
                /\ (shown.collapsed = DOMAIN shown.table) <=> (counts.passed = counts.total)
                /\ Cardinality(shown.failures) = counts.failed + counts.errors
                /\ shown.passed = counts.passed /\ shown.total = counts.total
                /\ \A field \in DOMAIN Summarize(input.results) :
                     Summarize(input.results)[field] = counts[field]
  <2> DEFINE cells == {SurfaceTable(input.results)[s] : s \in DOMAIN SurfaceTable(input.results)}
  <2>1. /\ input \in Input /\ exit = ExitCodeForRun(input.results, input.decision)
        /\ origin.kind = "check" /\ exit = ExitPass => Clean(input.results)
    BY <1>3 DEF ViewInv
  <2>2. input.results \in Seq(Reported) /\ input.decision \in Decisions
    BY <2>1 DEF Input
  <2>3. \A k \in DOMAIN input.results : input.results[k].surface \in Surfaces
    <3>1. \A k \in DOMAIN input.results : input.results[k] \in Reported
      BY <2>2
    <3> QED
      BY <3>1 DEF Reported
  <2>4. /\ Shown(input).status = OverallStatus(input.results, input.decision)
        /\ Shown(input).table = SurfaceTable(input.results)
        /\ Shown(input).collapsed = CollapsedSurfaces(input.results)
        /\ Shown(input).passed = CountOf(input.results, "pass")
        /\ Shown(input).total = Len(input.results)
        /\ Shown(input).failures = Failures(input.results)
    BY DEF Shown
  <2>5. Render(input).counts = FromResults(input.results, Len(input.skipped))
    BY DEF Render
  <2>6. /\ Render(input).counts.passed = CountOf(input.results, "pass")
        /\ Render(input).counts.total = Len(input.results)
        /\ Render(input).counts.failed = CountOf(input.results, "fail")
        /\ Render(input).counts.errors = CountOf(input.results, "error")
    BY <2>5 DEF FromResults
  <2>7. \A field \in DOMAIN Summarize(input.results) :
          Summarize(input.results)[field] = Render(input).counts[field]
    BY <2>5 DEF FromResults, Summarize
  <2>8. /\ (Shown(input).status = "error") <=> (exit = ExitExecutionError)
        /\ (Shown(input).status = "fail") <=> (exit = ExitCompatibilityFailure)
        /\ HasStatus(input.results, "error") <=> (exit = ExitExecutionError)
    BY <2>1, <2>2, <2>4, RunCodes
  <2>9. /\ "error" \in cells <=> HasStatus(input.results, "error")
        /\ Clean(input.results) => cells \subseteq {"pass", "warning"}
    BY <2>3, CellsTell
  <2>10. (Shown(input).collapsed = DOMAIN Shown(input).table)
           <=> (Render(input).counts.passed = Render(input).counts.total)
    BY <2>2, <2>3, <2>4, <2>6, CollapsedTell, AllPassedIsCounted
  <2>11. Cardinality(Shown(input).failures)
           = Render(input).counts.failed + Render(input).counts.errors
    BY <2>2, <2>4, <2>6, FailuresAreCounted
  <2>12. Clean(input.results) => Shown(input).failures = {}
    BY <2>4 DEF Clean, Failures
  <2> QED
    BY <2>1, <2>4, <2>6, <2>7, <2>8, <2>9, <2>10, <2>11, <2>12
<1>4. ViewInv => ViewsAgree
  BY <1>3 DEF ViewsAgree
<1> QED
  BY <1>1, <1>2, <1>4, Invariance, PTL DEF Spec
=============================================================================
