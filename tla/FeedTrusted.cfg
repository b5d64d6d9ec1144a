CONSTANT MaxWire = 2
SPECIFICATION AccountSpec
PROPERTY SlowNeedsFeed
