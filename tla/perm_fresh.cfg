\* Two keys that fit in the cache, two calls at a time, two changes.
CONSTANTS
    article = article
    author = author
    folder = folder
    articles = articles
    authors = authors
    folders = folders
    k1 = k1
    k2 = k2
    k3 = k3
    Keys = {k1, k2}
    Items = {article, author, folder}
    Collections = {articles, authors, folders}
    Irrelevant = {folders}
    CollectionOf <- OfCollection
    Subject <- OfArticle
    Ruled = {k1, k2}
    Depends <- Rules
    Timed = {k1}
    System = System
    Capacity = 2
    Lookups = {t1, t2}
    ReadsFail = TRUE
    MaxVersion = 1
    MaxChanges = 2
    NoEntry = NoEntry
    Missing = Missing
SYMMETRY LookupSymmetry
SPECIFICATION Spec
INVARIANTS
    TypeOK
    AnswersFreshOrDoomed
