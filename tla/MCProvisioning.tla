--------------------------- MODULE MCProvisioning ---------------------------
(* A small instance of Provisioning for TLC: the names of a and b collide.     *)
EXTENDS Provisioning

CollidingInitial == [x \in App |-> IF x = "c" THEN "c" ELSE "ab"]
HashedNames == [x \in App |-> x \o "_hash"]
Prefixes == {CollidingInitial[x] : x \in App} \cup {HashedNames[x] : x \in App}

Ask(kind, apps, prepare) == [kind |-> kind, apps |-> apps, prepare |-> prepare]

\* Three applications for keys of two: grants that are small enough one by one, that
\* add or take only a part of what they name, and that prepare what they grant.
Commands == {Ask("create", {"a"}, TRUE), Ask("create", {"b"}, FALSE),
             Ask("grant", {"a", "b"}, TRUE), Ask("grant", {"c"}, TRUE),
             Ask("ungrant", {"a", "b"}, FALSE), Ask("revoke", {}, FALSE),
             Ask("prepare", {"a"}, TRUE), Ask("prepare", {"b"}, TRUE)}
=============================================================================
