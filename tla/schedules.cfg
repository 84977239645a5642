\* The agent and a run-once request materialize two schedules while the dashboard edits them.
SPECIFICATION Spec
CONSTANTS
    s1 = s1
    s2 = s2
    agent = agent
    dashboard = dashboard
    None = None
    Schedules = {s1, s2}
    Materializers = {agent, dashboard}
    Agents = {agent}
    Intervals = {2}
    MaxEdits = 1
    MaxOthers = 1
    MaxTime = 2
SYMMETRY ScheduleIds
INVARIANTS
    TypeOK
    
PROPERTIES
    NoOccurrenceLost
    MissedOccurrencesShareOneJob
