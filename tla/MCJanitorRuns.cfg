SPECIFICATION FairSpec
CONSTANTS
    timer = timer
    ended = ended
    hand = hand
    interval = interval
    post = post
    cli1 = cli1
    cli2 = cli2
    cli3 = cli3
    server = server
    Tasks = {timer, ended, hand, interval, post}
    Processes = {cli1, cli2, cli3, server}
    Process <- MCProcess
    Server = {interval, post}
    IfDue = {timer, ended}
    Interval <- MCInterval
    Horizon = 2
    MaxFaults = 2
CHECK_DEADLOCK FALSE
INVARIANTS
    OneCurator
    OneRunPerProcess
PROPERTIES
    Throttled
    DueIsRun
