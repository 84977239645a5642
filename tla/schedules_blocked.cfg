\* Two schedules are due at once: materialize_due waits for its own write lock.
\* The agent's thread ends and the clock reaches its bound: the system stops.
SPECIFICATION FairSpec
CHECK_DEADLOCK FALSE
CONSTANTS
    s1 = s1
    s2 = s2
    agent = agent
    dashboard = dashboard
    None = None
    Schedules = {s1, s2}
    Materializers = {agent}
    Agents = {agent}
    Intervals = {2}
    MaxEdits = 0
    MaxOthers = 0
    MaxTime = 3
PROPERTIES
    DueSchedulesAdvance
