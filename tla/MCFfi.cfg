CONSTANTS
    Thread = {t1, t2}
    Address = {m1, m2}
    Dangling = Dangling
    Null = Null
    TextLens = {100}
SPECIFICATION FfiSpec
INVARIANTS BuffersRegistered FreedIsWiped
PROPERTIES EveryBufferWiped
\* The host may stop calling.
CHECK_DEADLOCK FALSE
