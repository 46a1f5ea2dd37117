\* Everything else has its value in MCOffchain, beside the component it is for.
CONSTANTS
  Null = Null
  Unread = Unread
SPECIFICATION Spec
INVARIANTS
  ArithmeticSharesThePot  GraphTellsTheChain HostTellsTheChain
  TabsShowTheirChain OutageIsTold ScreensConfirmWhatHappened HistoriesAddUp
  PapersSayWhatWasRead AbsencesHaveTheirWords
PROPERTY NoScriptAfterAWalk
CHECK_DEADLOCK FALSE
