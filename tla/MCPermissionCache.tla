-------------------------- MODULE MCPermissionCache --------------------------
(* PermissionCache for an item of one collection whose rules look at       *)
(* another collection, at a user, or at nothing.                           *)
EXTENDS PermissionCache, TLC

CONSTANTS article, author, folder, articles, authors, folders, k1, k2, k3

OfCollection == [i \in Items |-> CASE i = article -> articles
                                   [] i = author -> authors
                                   [] i = folder -> folders]
OfArticle == [k \in Keys |-> article]

\* k1 depends on a collection, k2 on one item, k3 has no rules.
Rules == [k \in Keys |-> CASE k = k1 -> {authors} [] k = k2 -> {author} [] k = k3 -> {}]
LookupSymmetry == Permutations(Lookups)
=============================================================================
