\* Two sends, an answer and a mark, beside the sale's job and the daily one.
SPECIFICATION CaseSpec
CONSTANTS
  s1 = s1  s2 = s2  auto = auto  c1 = c1  c2 = c2  m1 = m1  none = none
  Sends = {s1, s2}
  BySale = auto
  Submissions = {c1}
  Marks = {m1}
  None = none
  MaxCrashes = 2
INVARIANTS AnswerMeansFeedback LiveLinkMailed
PROPERTIES DueCaseReminded
CHECK_DEADLOCK FALSE
