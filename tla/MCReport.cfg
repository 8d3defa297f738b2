SPECIFICATION Spec
CONSTANTS
  ResultLists <- MCResultLists
  SkipLists <- MCSkipLists
  OtherDocuments <- MCOtherDocuments
INVARIANTS
  TypeOK
  ReportKeepsVerdict
  ViewsAgree
PROPERTY
  PrintingAgainChangesNothing
