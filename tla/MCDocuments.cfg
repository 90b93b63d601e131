\* One knowledge base; two documents (an upload and, possibly, a published FAQ
\* draft); two texts; one request in flight and two workers, one of which may die.
CONSTANTS
    Kbs = {k1}
    Docs = {d1, d2}
    Faqs = {f1}
    Titles = {t1}
    Contents = {c1, c2}
    Users = {u1, u2}
    KbAdmins = {u1}
    Requests = {r1}
    Workers = {w1, w2}
    MaxJobs = 2
    MaxVersion = 2
    MaxCrashes = 1
SPECIFICATION DocumentsLiveSpec
INVARIANTS OneIndexerPerJob IndexedIsCurrent
 
CHECK_DEADLOCK FALSE
