CONSTANTS
  Configs <- MCConfigs
  Times = {0, 5}
  Replies = {200, 204, 301, 400, 401, 403, 404, 409, 429, 500, 503}
  MaxStreak = 7
  MaxBase = 6
  MaxMax = 24
SPECIFICATION RetrySpec
INVARIANTS BackoffSchedule
PROPERTIES NeverRetriesSooner
