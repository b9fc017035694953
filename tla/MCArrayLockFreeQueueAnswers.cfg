SPECIFICATION FairAnswersSpec
CONSTANTS
  NoElem = NoElem
  Producers = {p1, p2}
  Consumers = {c1, c2}
  Observers = {}
  Values = {x}
  Q_SIZE = 3
  MaxWrites = 1
INVARIANT AnswersExcused
PROPERTIES ReservationCommits CommittedIsTaken
