SPECIFICATION FairSpec
CONSTANTS
    q1 = q1
    q2 = q2
    c1 = c1
    c2 = c2
    c3 = c3
    Runtimes = {q1, q2}
    Contexts = {c1, c2, c3}
    Owner <- TwoRuntimes
    Foreign = {c2}
INVARIANT TypeOK
INVARIANT NoContextOutlivesRuntime
INVARIANT ClosedOnRequest
PROPERTY CloseCompletes
