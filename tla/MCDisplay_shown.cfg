SPECIFICATION Spec
CONSTANTS
  Char = {"a", "A", "b", "B", " ", ".", "-", "0", "1", "3", "7"}
  Alnum = {"a", "A", "b", "B", "0", "1", "3", "7"}
  Lower <- MCLower
  AnswerLines <- MCAnswerLines
  Tries <- MCTries
  nMaxClues = 4
  Player = {ann, bob, cy}
  Sysops = {cy}
  Top = 2
  Wrap = 2
  Points = {1}
  MaxPoints = 2
  MaxRecords = 2
  Node <- MCNode
  SysopNodes = {0}
  Aliases <- MCAliases
  Params <- MCParams
  ListRoom = 6
  TopicRoom = 3
  HelpFiles <- MCHelpFiles
  Topics <- MCTopics
  PageLength = 1
  Paragraphs <- MCParagraphs
  Width = 4
  Numbers <- MCNumbers
  TextRoom = 8
INVARIANTS
  DisplayTypeOK
  ClueAgrees
  TellIsRight
  HelpIsGiven
  TextSurvives
PROPERTIES
  CluesLeaveTwoFifths
  ListsTheBest
SYMMETRY MCSymmetry
