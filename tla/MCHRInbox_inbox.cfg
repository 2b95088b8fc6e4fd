CONSTANTS
    run = run
    other = other
    abroad = abroad
    mary = mary
    done = done
    undo = undo
    done2 = done2
    done3 = done3
    hire = hire
    leave = leave
    api = api
    worker = worker
    Events = {done, undo, done2, done3, hire, leave}
    Scenarios <- MCScenarios
    Type <- TypeOf
    Subject <- SubjectOf
    Runs = {run, other, abroad}
    Philippine = {run, other}
    Employees = {mary}
    Pollers = {api, worker}
    BatchSize = 2
    MaxFaults = 1
SPECIFICATION FairSpec
CHECK_DEADLOCK FALSE
INVARIANTS InboxSound ProcessedHasEffect ExactlyOnce
PROPERTY EveryEventProcessed
