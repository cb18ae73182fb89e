SPECIFICATION BothSpec
CONSTANTS
  market = market
  talk = talk
  market0 = market0
  talk1 = talk1
  Runners = {s1, s2, cli}
  Scheduled = {s1, s2}
  None = None
  Series = {market, talk}
  Occurrences = {market0, talk1}
  SeriesOf <- TwoEvents
  DayOf <- TheirDays
  Reach = 1
  MaxDay = 1
  MaxFetches = 2
  MaxInterruptions = 1
INVARIANTS CoverageHonest
PROPERTIES ImplementsPolledFeed PublicationsAdvance PollersRetry
