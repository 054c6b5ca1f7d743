SPECIFICATION Spec
CONSTANTS
    cmd = cmd
    toggle = toggle
    state = state
    alarm = alarm
    scene = scene
    hello = hello
    Topics <- MCTopics
    Inbound = {cmd, toggle}
    Outbound = {state, alarm, scene, hello}
    TopicOf <- MCTopicOf
    QosOf <- MCQosOf
    Refused <- MCRefused
    MaxHandlers = 1
    MaxPacketId = 2
    Words <- MCWords
    MaxLevels = 3
    MaxFaults = 2
SYMMETRY MCSymmetry
INVARIANTS
    SuccessMeansReceived
    AcknowledgedWasHandled
    HandledAtMostOnce
    HandlersMatchSubscriptions
    DeliversByFilter
