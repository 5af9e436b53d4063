SPECIFICATION Spec
CONSTANTS
    InitTargets = {t1}
    InitTemplates = {i1}
    SpecBuilder = {s1}
    SourceBuilder = {o1}
    TemplateBuilder = {p1, p2}
    CallerMap = {m1}
    Key = {k1}
    Value = {v1, v2}
    Nil = Nil
    MaxPassed = 2
    MaxCalls = 5
PROPERTY CallsSayWhatTheyPromise
CHECK_DEADLOCK FALSE
