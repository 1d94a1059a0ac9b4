SPECIFICATION CloudSpec
CHECK_DEADLOCK FALSE
INVARIANT AssetsGoWithTheConnector
