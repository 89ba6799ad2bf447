\* Four events of one session, each a process, in any order and two side by side:
\* a renewal, two edits, and any other event.
SPECIFICATION MCSpec
CONSTANTS
    h1 = h1
    h2 = h2
    h3 = h3
    h4 = h4
    main = main
    r1 = r1
    None = None
    Blank = Blank
    Contract = Contract
    Hooks = {h1, h2, h3, h4}
    Agents = {main}
    Rules = {r1}
    MaxTogether = 2
    MaxFailed = 1
SYMMETRY HookSymmetry
INVARIANTS
    DeliveredOnce
    ToldInEveryContext
\* Every event may be over.
CHECK_DEADLOCK FALSE
