----------------------------- MODULE MCMultipart -----------------------------
(***************************************************************************)
(* Instances of Multipart for TLC.                                         *)
(***************************************************************************)
EXTENDS Multipart, TLC

FullList == {Parts}
AnyList == (SUBSET Parts) \ {{}}

\* Any requests in any order, data deletions that may fail.
Anyone == [versioned |-> FALSE, kinds |-> AllKinds, lists |-> AnyList,
           lossy |-> TRUE,
           requests |-> Cardinality(Reqs), discipline |-> "free"]

\* Clients that wait for each answer, deletions that do what they are asked to.
OneAtATime == [Anyone EXCEPT !.lossy = FALSE, !.discipline = "sequential"]

\* A client that always lists all the parts and retries its complete until it
\* gets an answer, without and with versioning.
Retrying == [Anyone EXCEPT !.kinds = {"putPart", "complete"}, !.lists = FullList,
                           !.discipline = "serialEnd"]
RetryingVersions == [Retrying EXCEPT !.versioned = TRUE,
                                     !.kinds = @ \cup {"copyPart"}]

\* A client whose complete is retried after another writer's PUT.
Overtaken == [OneAtATime EXCEPT !.versioned = TRUE, !.lists = FullList,
                                !.kinds = {"putPart", "complete", "put"}]

JustAnyone == {Anyone}
JustOvertaken == {Overtaken}

\* One request fewer where there are more kinds of them.
SafeClients ==
    {Retrying} \cup {[c EXCEPT !.requests = 4] : c \in {RetryingVersions, OneAtATime}}

Symmetry == Permutations(Reqs)
=============================================================================
