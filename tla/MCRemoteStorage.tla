-------------------------- MODULE MCRemoteStorage --------------------------
EXTENDS RemoteStorage
CONSTANTS i1, i2, k1, k2
MCThreads == {<<i1, "eng">>, <<i1, "look">>, <<i2, "eng">>}
AllKinds == {"lm", "redis", "sentinel", "audit", "fs", "mooncake", "infinistore", "blackhole"}
\* The connector with which GetsOfTheCorrespondingKey does not hold.
LmOnly == {"lm"}
By(i, role, op, k) == <<<<i, role>>, op, k>>
\* Both instances store the key that the first one gets.
Shared == {By(i1, "eng", "store", k1), By(i1, "eng", "get", k1), By(i1, "look", "contains", k1),
           By(i2, "eng", "store", k1)}
MCCalls == [d \in Kinds |->
    CASE d = "lm" -> {By(i1, "eng", "get", k1), By(i1, "eng", "store", k2),
                      By(i1, "look", "contains", k2), By(i2, "eng", "store", k1)}
      [] d = "infinistore" -> Shared \cup {By(i1, "eng", "store", k2)}
      [] d \in {"fs", "mooncake", "blackhole"} -> Shared \cup {By(i2, "eng", "get", k1)}
      [] OTHER -> Shared]
=============================================================================
