--------------------------- MODULE MCServeEndpoint ---------------------------
(* One capability registered or not, two keys of which one cannot be       *)
(* decoded; every request that differs from a good one in its first line,  *)
(* in one field of its token, or in the keys it names and is signed with.  *)
EXTENDS ServeEndpoint

MCKeyMaps == {[k \in {"k1", "k2"} |-> IF k = "k1" THEN "usable" ELSE "garbled"], <<>>}

GoodToken ==
    [bearer |-> TRUE, jws |-> TRUE, kid |-> "k1", alg |-> "EdDSA", signer |-> "k1",
     exp |-> "live", scope |-> "capability:read"]

MCTokens ==
    {[GoodToken EXCEPT !.bearer = b] : b \in BOOLEAN}
        \union {[GoodToken EXCEPT !.jws = FALSE], [GoodToken EXCEPT !.alg = "other"]}
        \union {[GoodToken EXCEPT !.exp = e] : e \in {"grace", "expired", "missing"}}
        \union {[GoodToken EXCEPT !.scope = s] : s \in {"other", "none"}}
        \union {[GoodToken EXCEPT !.kid = k, !.signer = s] :
                    k \in {"k1", "k2", "none"}, s \in {"k1", "k2", "stranger"}}

Request(method, path, capability, token) ==
    [method |-> method, path |-> path, capability |-> capability, token |-> token]

MCRequests ==
    {Request("GET", "capability", "c1", t) : t \in MCTokens}
        \union {Request(m, p, c, GoodToken) : m \in {"GET", "POST"},
                    p \in {"capability", "other"}, c \in {"c1", "malformed"}}
=============================================================================
