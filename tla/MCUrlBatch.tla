----------------------------- MODULE MCUrlBatch -----------------------------
(* UrlBatch for TLC: URLs without a history are interchangeable; the URL with  *)
(* one is of their domain or of another.                                       *)
EXTENDS UrlBatch, TLC

CONSTANTS d1, d2

Sites == {[u \in Urls |-> d1],
          [u \in Urls |-> IF u \in KnownUrls THEN d2 ELSE d1]}
Symmetry == Permutations(Urls \ KnownUrls)
=============================================================================
