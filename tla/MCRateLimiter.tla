--------------------------- MODULE MCRateLimiter ---------------------------
(***************************************************************************)
(* An instance of RateLimiter: two /64 networks of one /48, whose reset    *)
(* form takes the class's tokens, one of the mail address, and one each of *)
(* the source (the /48) and of the instance.                               *)
(***************************************************************************)
EXTENDS RateLimiter, TLC

SomeKeys == {"class64a", "class64b", "class48", "address", "source"}
SomeOverflows == {"overflow_class", "overflow_address", "overflow_source"}

(* The aggregate holds twice the budget of a network, at half the interval.*)
SomeCapacity == [b \in SomeKeys \cup SomeOverflows \cup {"instance"} |-> IF b = "class48" THEN 2 ELSE 1]
SomeInterval == [b \in DOMAIN SomeCapacity |-> IF b \in {"class48", "instance"} THEN 1 ELSE 2]

Class(own) == [keys |-> {own, "class48"}, overflow |-> "overflow_class", extra |-> {}]
Address == [keys |-> {"address"}, overflow |-> "overflow_address", extra |-> {}]
Source == [keys |-> {"source"}, overflow |-> "overflow_source", extra |-> {"instance"}]

SomePipelines ==
  {<<Class("class64a")>>, <<Class("class64b")>>, <<Class("class64a"), Address, Source>>}

SlotSymmetry == Permutations(Slots)
=============================================================================
