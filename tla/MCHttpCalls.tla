---------------------------- MODULE MCHttpCalls ----------------------------
(***************************************************************************)
(* Instances of HttpCalls for TLC: two calls that ask the same thing, and  *)
(* a request of somebody else.                                             *)
(***************************************************************************)
EXTENDS HttpCalls, TLC

CONSTANTS c1, c2, other

OursAndTheirs == [k \in Key |-> IF k = other THEN "theirs" ELSE "ours"]
TokensOf == [k \in Key |-> IF k = c2 THEN 1 ELSE 3]
Tokens == Key \X (1..3)
=============================================================================
