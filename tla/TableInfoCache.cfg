CONSTANTS
    Threads = {t1, t2, t3}
    Stores = {a, b}
    MaxTables = 2
SPECIFICATION Spec
INVARIANT StaleOnlyWhenOvertaken
