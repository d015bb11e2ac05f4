\* RabbitMQ client: a pool of one channel, two connection losses, one fault.
SPECIFICATION FairPoolSpec
CONSTANTS
    publisher = publisher
    consumer = consumer
    Users <- MCUsers
    Subscribers <- MCSubscribers
    Channels <- MCChannels
    NoChannel = NoChannel
    PoolSize = 1
    MaxReconnect = 2
    MaxLosses = 2
    MaxPoolFaults = 1
CHECK_DEADLOCK FALSE
INVARIANTS
    ChannelsHeldOnce
    NoOpenChannelLost
    ReconnectionSound
PROPERTY
    Reconnects
