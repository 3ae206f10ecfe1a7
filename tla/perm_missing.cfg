\* A call about an item that is created meanwhile.
CONSTANTS
    article = article
    author = author
    folder = folder
    articles = articles
    authors = authors
    folders = folders
    k1 = k1
    k2 = k2
    k3 = k3
    Keys = {k1}
    Items = {article, author}
    Collections = {articles, authors}
    Irrelevant = {}
    CollectionOf <- OfCollection
    Subject <- OfArticle
    Ruled = {k1}
    Depends <- Rules
    Timed = {}
    System = System
    Capacity = 1
    Lookups = {t1}
    ReadsFail = FALSE
    MaxVersion = 1
    MaxChanges = 1
    NoEntry = NoEntry
    Missing = Missing
SPECIFICATION Spec
INVARIANTS
    MissingFreshOrDoomed
