------------------------------- MODULE Protocols -------------------------------
(***************************************************************************)
(* The facts a policy is asked about, as protocols.rs reads them from a     *)
(* Kubernetes request and from an SQL statement.                            *)
(***************************************************************************)
EXTENDS Integers, Sequences, FiniteSets

-----------------------------------------------------------------------------
(* Kubernetes.  A path is a sequence of tokens: "/", "%2f", "?" and words.   *)

\* The path without its query, percent-decoded and then split.
Segments(path) ==
    LET query == {i \in DOMAIN path : path[i] = "?"}
        raw == IF query = {} THEN path
               ELSE SubSeq(path, 1, (CHOOSE i \in query : \A j \in query : i <= j) - 1)
    IN  SelectSeq(raw, LAMBDA t : t \notin {"/", "%2f"})

K8sVerb(method, named) ==
    CASE method = "GET"    -> IF named THEN "get" ELSE "list"
      [] method = "POST"   -> "create"
      [] method = "PUT"    -> "update"
      [] method = "PATCH"  -> "patch"
      [] method = "DELETE" -> "delete"
      [] OTHER             -> ""

ParseK8sRequest(method, path) ==
    LET segments == Segments(path)
        prefix == IF segments = <<>> THEN 0
                  ELSE IF Head(segments) = "api" THEN 2
                  ELSE IF Head(segments) = "apis" THEN 3 ELSE 0
        rest == SubSeq(segments, prefix + 1, Len(segments))
        namespaced == rest # <<>> /\ Head(rest) = "namespaces"
        Facts(resource, namespace, named) ==
            [verb |-> K8sVerb(method, named), resource |-> resource, namespace |-> namespace]
    IN  IF rest = <<>> THEN Facts("", "", FALSE)
        ELSE IF namespaced /\ Len(rest) >= 3 THEN Facts(rest[3], rest[2], Len(rest) >= 4)
        ELSE IF namespaced THEN Facts("namespaces", "", Len(rest) = 2)
        ELSE Facts(Head(rest), "", Len(rest) >= 2)
=============================================================================
