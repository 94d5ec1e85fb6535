SPECIFICATION TrustSpec
CONSTANTS
  Admins = {a1}
  MaxVersion = 3
  MaxSecrets = 1
  MaxAttempts = 1
  MaxRevisions = 1
PROPERTY RetiredForGood
