SPECIFICATION MCSpec
CONSTANTS
  Ddl = {d1, d2}
  Queries = {q1}
  Collectors = {c1}
  NFiles = 3
  NStatements = 3
  Kpis = {rows, lag}
  MaxPolls = 1
  MaxAttempts = 3
  MaxText = 5
  Prices = {1, 3}
  Sizes = {0, 1, 2}
  MaxMinutes = 2
  MaxTrades = 3
  Answers <- MCAnswers
  PageLimit = 99
  ResourceTypes = {"TOPIC", "BROKER"}
  Replication = 2
  Topics = {"md.trades.v1", "md.bars.v1"}
  Addresses = {"home", "cafe"}
  MaxIncidents = 2
INVARIANTS JobsHonest SqlSound RollupComposes PageHonest ProvisionSound
PROPERTY JobsEnd
CHECK_DEADLOCK FALSE
